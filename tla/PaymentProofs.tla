---------------------------- MODULE PaymentProofs ----------------------------
(***************************************************************************)
(* Proofs about the payment drivers, for any callers, any methods with a    *)
(* card among them and any of the three drivers: what a key pays for, what  *)
(* a source without a charge is, what a refusal means and what a DTO says.  *)
(*                                                                         *)
(* PayIInv is the inductive invariant.  What a driver does is a plan of one *)
(* or two requests (PlanKnown); what a provider holds moves on without      *)
(* losing money that was taken (Moves); a caller's next request has what it *)
(* is about, and what it was told is true (CallersHold); a source is made   *)
(* up for by a charge, by a loss or by a caller on its way (SourcesCounted).*)
(***************************************************************************)
EXTENDS MCPlatform, FiniteSetTheorems, SequenceTheorems, TLAPS

\* The drivers there are, payment methods with a card among them, finitely many callers.
PayGiven ==
    /\ Gateway \subseteq {"stripe", "omise", "mock"} /\ MethodKind \subseteq Payments!AllKinds /\ "card" \in MethodKind
    /\ IsFiniteSet(Payer)

KeyedOf == {"charges", "subscriptions", "customers", "links", "checkout"}
AnyOf == KeyedOf \cup {"methods", "products", "prices", "invoices"}
OpName == {"create", "refund", "retrieve", "capture", "delete", "cancel", "update", "deactivate", "detach", "void", "none"}
WithName == {"returnUrl", "hold", "trial", "prices", "billable", "partial", "now", "owner"}
KindName == Payments!AllKinds \cup {"none"}
Withs == SUBSET WithName
CallRow == [of : AnyOf \cup {"none"}, op : OpName, kind : KindName, with : Withs, key : BOOLEAN, target : Nat]
FirstState == {"live", "unconfirmed", "awaiting", "held", "taken", "declined"}
IntentState == FirstState \cup {"ending", "gone", "refunded", "partly", "reversed"}
IntentRow == [of : AnyOf \cup {"sources"}, keyed : BOOLEAN, kind : KindName, first : FirstState, state : IntentState]
Funded == {"taken", "partly", "refunded"}
GaveBack == {"refunded", "reversed"}

\* What a call asks of one object, and the plans a method may have: where a driver honours keys a
\* request that makes something carries the call's.
Plain == {"read", "change", "remove", "cancel", "windDown", "capture", "refund", "refundPart"}
Settling == {"settle", "settleBack", "settlePart"}
LastReads == {"readIfSettled", "readIfUnanswered"}
Honours(g, of) == g = "stripe" \/ (g = "mock" /\ of = "charges")
MakeFits(g, c, keyed) ==
    /\ c.key /\ Honours(g, c.of) => keyed
    /\ g = "stripe" /\ c.of = "charges" => c.kind \in Payments!StripeMethodKinds
Unkeyed(g, c) == MakeFits(g, c, FALSE)
Follows(g, p, c) ==
    \/ \E d \in Plain \cup LastReads, k \in BOOLEAN : p = <<[does |-> d, keyed |-> k]>>
    \/ g = "mock" /\ \E d \in Settling, k \in BOOLEAN : p = <<[does |-> d, keyed |-> k]>>
    \/ \E k \in BOOLEAN : MakeFits(g, c, k) /\ p = <<[does |-> "make", keyed |-> k]>>
    \/ \E k, l \in BOOLEAN : MakeFits(g, c, k) /\ p = <<[does |-> "make", keyed |-> k], [does |-> "readIfSettled", keyed |-> l]>>
    \/ \E k, l \in BOOLEAN : p = <<[does |-> "read", keyed |-> k], [does |-> "change", keyed |-> l]>>
    \/ \E k, l \in BOOLEAN : p = <<[does |-> "remove", keyed |-> k], [does |-> "readIfUnanswered", keyed |-> l]>>
    \/ c.of = "charges" /\ Unkeyed(g, c) /\ p = Payments!Do("source") \o Payments!Do("make")
\* The calls there are.
Usual(c) ==
    /\ c \in CallRow /\ c.of # "none"
    /\ c.key => c.op = "create" /\ c.of \in KeyedOf
    /\ c.op = "create" => c.of \in KeyedOf \cup {"products", "prices"}
    /\ \/ c.op = "create"
       \/ c.of = "charges" /\ c.op \in {"refund", "retrieve", "capture"}
       \/ c.of = "customers" /\ c.op \in {"retrieve", "delete"}
       \/ c.of = "subscriptions" /\ c.op \in {"cancel", "update"}
       \/ c.of = "links" /\ c.op = "deactivate"
       \/ c.of = "methods" /\ c.op = "detach"
       \/ c.of = "invoices" /\ c.op = "void"

\* The calls the run makes are calls there are.
LEMMA AllUsual ==
  ASSUME PayGiven
  PROVE  /\ \A c \in Payments!KeyedCalls : Usual(c) /\ c.op = "create" /\ c.of \in KeyedOf /\ c.key = FALSE
         /\ \A c \in Payments!OtherCalls : Usual(c) /\ c.key = FALSE
<1>0. \A fam, act, sort, having : Payments!Call(fam, act, sort, having) = [of |-> fam, op |-> act, kind |-> sort, with |-> having, key |-> FALSE, target |-> 0]
  BY DEF Payments!Call
<1> DEFINE Is(x, f, o) == x \in CallRow /\ x.of = f /\ x.op = o /\ x.key = FALSE
<1>1. ASSUME NEW f \in AnyOf, NEW o \in OpName, NEW k \in KindName, NEW w \in Withs,
             NEW x, x = Payments!Call(f, o, k, w)
      PROVE  Is(x, f, o)
  <2>1. PICK no \in BOOLEAN : no = FALSE OBVIOUS
  <2>2. PICK c : c = [of |-> f, op |-> o, kind |-> k, with |-> w, key |-> no, target |-> 0] OBVIOUS
  <2>3. c = x BY <1>0, <1>1, <2>1, <2>2
  <2>4. c \in CallRow /\ c.of = f /\ c.op = o /\ c.key = no BY <2>2 DEF CallRow
  <2>. QED BY <2>1, <2>3, <2>4
<1> HIDE DEF Is
<1>2. ASSUME NEW c \in Payments!KeyedCalls PROVE Usual(c) /\ c.op = "create" /\ c.of \in KeyedOf /\ c.key = FALSE
  <2>1. \E fam \in KeyedOf, sort \in KindName, having \in Withs : c = Payments!Call(fam, "create", sort, having)
    BY DEF Payments!KeyedCalls, PayGiven, KeyedOf, WithName, Withs, KindName
  <2>2. PICK fam \in KeyedOf, sort \in KindName, having \in Withs : c = Payments!Call(fam, "create", sort, having) BY <2>1
  <2>3. fam \in AnyOf /\ fam # "none" BY DEF AnyOf, KeyedOf
  <2>4. "create" \in OpName BY DEF OpName
  <2>5. c \in CallRow /\ c.of = fam /\ c.op = "create" /\ c.key = FALSE
    <3>1. PICK act \in OpName : act = "create" BY <2>4
    <3>2. c = Payments!Call(fam, act, sort, having) BY <2>2, <3>1
    <3>3. Is(c, fam, act) BY <1>1, <2>2, <2>3, <3>1, <3>2
    <3>. QED BY <3>1, <3>3 DEF Is
  <2>. QED BY <2>3, <2>5 DEF Usual
<1>3. ASSUME NEW c \in Payments!OtherCalls PROVE Usual(c) /\ c.key = FALSE
  <2>1. \E fam \in AnyOf, act \in OpName, having \in Withs :
          /\ c = Payments!Call(fam, act, "none", having)
          /\ \/ act = "create" /\ fam \in {"products", "prices"}
             \/ fam = "charges" /\ act \in {"refund", "retrieve", "capture"}
             \/ fam = "customers" /\ act \in {"retrieve", "delete"}
             \/ fam = "subscriptions" /\ act \in {"cancel", "update"}
             \/ fam = "links" /\ act = "deactivate"
             \/ fam = "methods" /\ act = "detach"
             \/ fam = "invoices" /\ act = "void"
    <3> DEFINE Fits(fam, act, having) ==
          /\ fam \in AnyOf /\ act \in OpName /\ having \in Withs /\ c = Payments!Call(fam, act, "none", having)
          /\ \/ act = "create" /\ fam \in {"products", "prices"}
             \/ fam = "charges" /\ act \in {"refund", "retrieve", "capture"}
             \/ fam = "customers" /\ act \in {"retrieve", "delete"}
             \/ fam = "subscriptions" /\ act \in {"cancel", "update"}
             \/ fam = "links" /\ act = "deactivate"
             \/ fam = "methods" /\ act = "detach"
             \/ fam = "invoices" /\ act = "void"
    <3>1. CASE c \in {Payments!Call("charges", "refund", "none", w) : w \in SUBSET {"partial"}}
      <4>1. \E w \in SUBSET {"partial"} : Fits("charges", "refund", w) BY <3>1 DEF AnyOf, KeyedOf, OpName, WithName, Withs
      <4>. QED BY <4>1
    <3>2. CASE c \in {Payments!Call("charges", act, "none", {}) : act \in {"retrieve", "capture"}}
      <4>1. \E act \in {"retrieve", "capture"} : Fits("charges", act, {}) BY <3>2 DEF AnyOf, KeyedOf, OpName, Withs
      <4>. QED BY <4>1
    <3>3. CASE c \in {Payments!Call("customers", act, "none", {}) : act \in {"retrieve", "delete"}}
      <4>1. \E act \in {"retrieve", "delete"} : Fits("customers", act, {}) BY <3>3 DEF AnyOf, KeyedOf, OpName, Withs
      <4>. QED BY <4>1
    <3>4. CASE c \in {Payments!Call("subscriptions", "cancel", "none", w) : w \in SUBSET {"now"}}
      <4>1. \E w \in SUBSET {"now"} : Fits("subscriptions", "cancel", w) BY <3>4 DEF AnyOf, KeyedOf, OpName, WithName, Withs
      <4>. QED BY <4>1
    <3>5. CASE c \in {Payments!Call("subscriptions", "update", "none", {}), Payments!Call("links", "deactivate", "none", {}),
                      Payments!Call("methods", "detach", "none", {}), Payments!Call("methods", "detach", "none", {"owner"}),
                      Payments!Call("products", "create", "none", {}), Payments!Call("prices", "create", "none", {}),
                      Payments!Call("invoices", "void", "none", {})}
      <4>1. \/ Fits("subscriptions", "update", {}) \/ Fits("links", "deactivate", {}) \/ Fits("methods", "detach", {})
            \/ Fits("methods", "detach", {"owner"}) \/ Fits("products", "create", {}) \/ Fits("prices", "create", {}) \/ Fits("invoices", "void", {})
        <5>1. {} \in Withs /\ {"owner"} \in Withs BY DEF WithName, Withs
        <5>2. {"subscriptions", "links", "methods", "products", "prices", "invoices"} \subseteq AnyOf BY DEF AnyOf, KeyedOf
        <5>3. {"update", "deactivate", "detach", "create", "void"} \subseteq OpName BY DEF OpName
        <5>4. \A fam \in AnyOf, act \in OpName, having \in {{}, {"owner"}} :
                 /\ c = Payments!Call(fam, act, "none", having)
                 /\ \/ act = "create" /\ fam \in {"products", "prices"}
                    \/ fam = "subscriptions" /\ act = "update"
                    \/ fam = "links" /\ act = "deactivate"
                    \/ fam = "methods" /\ act = "detach"
                    \/ fam = "invoices" /\ act = "void"
                 => Fits(fam, act, having)
          BY <5>1
        <5> HIDE DEF Fits
        <5>. QED BY <3>5, <5>2, <5>3, <5>4
      <4>. QED BY <4>1, Zenon
    <3> HIDE DEF Fits
    <3>. QED BY <3>1, <3>2, <3>3, <3>4, <3>5 DEF Payments!OtherCalls
  <2>2. PICK fam \in AnyOf, act \in OpName, having \in Withs :
          /\ c = Payments!Call(fam, act, "none", having)
          /\ \/ act = "create" /\ fam \in {"products", "prices"}
             \/ fam = "charges" /\ act \in {"refund", "retrieve", "capture"}
             \/ fam = "customers" /\ act \in {"retrieve", "delete"}
             \/ fam = "subscriptions" /\ act \in {"cancel", "update"}
             \/ fam = "links" /\ act = "deactivate"
             \/ fam = "methods" /\ act = "detach"
             \/ fam = "invoices" /\ act = "void"
    BY <2>1
  <2>3. c \in CallRow /\ c.of = fam /\ c.op = act /\ c.key = FALSE
    <3>1. PICK sort \in KindName : sort = "none" BY DEF KindName
    <3>2. c = Payments!Call(fam, act, sort, having) BY <2>2, <3>1
    <3>3. Is(c, fam, act) BY <1>1, <2>2, <3>1, <3>2
    <3>. QED BY <3>3 DEF Is
  <2>4. fam # "none" BY DEF AnyOf, KeyedOf
  <2>5. act # "create" \/ fam \in {"products", "prices"} BY <2>2
  <2>. QED BY <2>2, <2>3, <2>4, <2>5 DEF Usual
<1>. QED BY <1>2, <1>3

\* Two requests, one after the other.
LEMMA Joined == ASSUME NEW x, NEW y PROVE <<x>> \o <<y>> = <<x, y>>
<1>2. PICK s, t, u : s = <<x>> /\ t = <<y>> /\ u = <<x, y>> OBVIOUS
<1>3. s \in Seq({x, y}) /\ t \in Seq({x, y}) /\ u \in Seq({x, y}) /\ Len(s) = 1 /\ Len(t) = 1 /\ Len(u) = 2 BY <1>2
<1>4. s[1] = x /\ t[1] = y /\ u[1] = x /\ u[2] = y BY <1>2
<1>5. /\ s \o t \in Seq({x, y}) /\ Len(s \o t) = Len(s) + Len(t)
      /\ \A i \in 1 .. Len(s) + Len(t) : (s \o t)[i] = IF i <= Len(s) THEN s[i] ELSE t[i - Len(s)]
  BY <1>3, ConcatProperties
<1>6. Len(s \o t) = 2 /\ (s \o t)[1] = x /\ (s \o t)[2] = y BY <1>3, <1>4, <1>5
<1>7. \A i \in 1 .. Len(s \o t) : (s \o t)[i] = u[i] BY <1>4, <1>6
<1>8. s \o t = u BY <1>3, <1>5, <1>6, <1>7, SeqEqual
<1>. QED BY <1>2, <1>8

\* A plan is a refusal, or one that may be followed: what a call makes comes first, and no plan
\* starts with a read that waits on the request before it.
LEMMA PlanKnown ==
  ASSUME gateway \in {"stripe", "omise", "mock"}, NEW c, Usual(c)
  PROVE  \/ Payments!Plan(c) = Payments!Refuse
         \/ /\ Follows(gateway, Payments!Plan(c), c) /\ Payments!Plan(c)[1].does \notin LastReads
            /\ c.op = "create" => Payments!Plan(c)[1].does \in {"make", "source"}
<1> DEFINE Good(p) == /\ Follows(gateway, p, c) /\ p[1].does \notin LastReads
                      /\ c.op = "create" => p[1].does \in {"make", "source"}
<1>0. PICK no \in BOOLEAN, yes \in BOOLEAN : no = FALSE /\ yes = TRUE OBVIOUS
<1>d. \A d : Payments!Do(d) = <<[does |-> d, keyed |-> no]>> BY <1>0 DEF Payments!Do, Payments!Request
<1>k. \A d : Payments!Keyed(d) = <<[does |-> d, keyed |-> yes]>> BY <1>0 DEF Payments!Keyed, Payments!Request
<1>s. ASSUME NEW d \in Plain, NEW k \in BOOLEAN, c.op # "create", NEW p, p = <<[does |-> d, keyed |-> k]>> PROVE Good(p)
  <2>1. Follows(gateway, p, c) BY <1>s DEF Follows
  <2>2. p[1].does = d /\ d \notin LastReads BY <1>s DEF Plain, LastReads
  <2>. QED BY <1>s, <2>1, <2>2
<1>t. ASSUME NEW d \in Settling, NEW k \in BOOLEAN, c.op # "create", gateway = "mock", NEW p, p = <<[does |-> d, keyed |-> k]>> PROVE Good(p)
  <2>1. Follows(gateway, p, c) BY <1>t DEF Follows
  <2>2. p[1].does = d /\ d \notin LastReads BY <1>t DEF Settling, LastReads
  <2>. QED BY <1>t, <2>1, <2>2
<1>m. ASSUME NEW k \in BOOLEAN, MakeFits(gateway, c, k), NEW p, p = <<[does |-> "make", keyed |-> k]>> PROVE Good(p)
  <2>1. Follows(gateway, p, c) BY <1>m DEF Follows
  <2>2. p[1].does = "make" /\ "make" \notin LastReads BY <1>m DEF LastReads
  <2>. QED BY <2>1, <2>2
<1>u. c.of \in AnyOf BY DEF Usual, CallRow
<1>1. CASE gateway = "stripe"
  <2>0. Payments!Plan(c) = Payments!Stripe(c) BY <1>1 DEF Payments!Plan
  <2>m. c.of # "charges" => MakeFits(gateway, c, yes) BY <1>0 DEF MakeFits
  <2>n. c.of \in {"products", "prices", "methods", "invoices"} => MakeFits(gateway, c, no) BY <1>0 DEF MakeFits, Usual, KeyedOf
  <2>1. CASE c.of = "customers"
    <3>1. Payments!Plan(c) = IF c.op = "create" THEN Payments!Keyed("make") ELSE IF c.op \in Payments!Reads THEN Payments!Do("read")
                             ELSE IF c.op = "delete" THEN Payments!Do("remove") ELSE Payments!Do("change")
      BY <2>0, <2>1 DEF Payments!Stripe, Payments!StripeCustomers
    <3>2. {"read", "remove", "change"} \subseteq Plain BY DEF Plain
    <3>. QED BY <1>d, <1>k, <1>m, <1>s, <2>1, <2>m, <3>1, <3>2
  <2>2. CASE c.of \in {"products", "prices"}
    <3>1. c.op = "create" BY <2>2 DEF Usual
    <3>2. Payments!Plan(c) = Payments!Do("make") BY <2>0, <2>2, <3>1 DEF Payments!Stripe, Payments!StripeProducts, Payments!StripePrices
    <3>. QED BY <1>d, <1>m, <2>2, <2>n, <3>2
  <2>3. CASE c.of = "subscriptions"
    <3>1. c.op \in {"create", "cancel", "update"} BY <2>3 DEF Usual
    <3>2. CASE c.op = "create"
      <4>1. Payments!Plan(c) = Payments!Keyed("make") BY <2>0, <2>3, <3>2 DEF Payments!Stripe, Payments!StripeSubscriptions, Payments!Reads
      <4>. QED BY <1>k, <1>m, <2>3, <2>m, <4>1
    <3>3. CASE c.op = "cancel"
      <4>1. Payments!Plan(c) \in {Payments!Do("remove"), Payments!Do("windDown")} BY <2>0, <2>3, <3>3 DEF Payments!Stripe, Payments!StripeSubscriptions, Payments!Reads
      <4>2. {"remove", "windDown"} \subseteq Plain BY DEF Plain
      <4>. QED BY <1>d, <1>s, <3>3, <4>1, <4>2
    <3>4. CASE c.op = "update"
      <4>1. Payments!Plan(c) = Payments!Do("read") \o Payments!Do("change")
        BY <2>0, <2>3, <3>4 DEF Payments!Stripe, Payments!StripeSubscriptions, Payments!Reads
      <4>2. Payments!Plan(c) = <<[does |-> "read", keyed |-> no], [does |-> "change", keyed |-> no]>> BY <1>d, <4>1, Joined
      <4>3. Follows(gateway, Payments!Plan(c), c) BY <4>2 DEF Follows
      <4>4. Payments!Plan(c)[1].does = "read" /\ "read" \notin LastReads BY <4>2 DEF LastReads
      <4>. QED BY <3>4, <4>3, <4>4
    <3>. QED BY <3>1, <3>2, <3>3, <3>4
  <2>4. CASE c.of = "methods"
    <3>1. c.op = "detach" BY <2>4 DEF Usual, KeyedOf
    <3>2. Payments!Plan(c) = Payments!Do("change") /\ "change" \in Plain BY <2>0, <2>4, <3>1 DEF Payments!Stripe, Payments!StripeMethods, Plain
    <3>. QED BY <1>d, <1>s, <3>1, <3>2
  <2>5. CASE c.of = "charges"
    <3>1. c.op \in {"create", "refund", "retrieve", "capture"} BY <2>5 DEF Usual
    <3>2. CASE c.op = "create"
      <4>1. CASE c.kind # "card" /\ (c.kind \notin Payments!StripeTypes \/ "returnUrl" \notin c.with)
        <5>1. Payments!Plan(c) = Payments!Refuse BY <2>0, <2>5, <3>2, <4>1 DEF Payments!Stripe, Payments!StripeCharges
        <5>. QED BY <5>1
      <4>2. CASE ~(c.kind # "card" /\ (c.kind \notin Payments!StripeTypes \/ "returnUrl" \notin c.with))
        <5>1. Payments!Plan(c) = Payments!Keyed("make") \o Payments!Do("readIfSettled")
          BY <2>0, <2>5, <3>2, <4>2 DEF Payments!Stripe, Payments!StripeCharges
        <5>2. Payments!Plan(c) = <<[does |-> "make", keyed |-> yes], [does |-> "readIfSettled", keyed |-> no]>> BY <1>d, <1>k, <5>1, Joined
        <5>3. MakeFits(gateway, c, yes) BY <1>0, <4>2 DEF MakeFits, Payments!StripeTypes, Payments!StripeMethodKinds
        <5>4. Follows(gateway, Payments!Plan(c), c) BY <5>2, <5>3 DEF Follows
        <5>5. Payments!Plan(c)[1].does = "make" /\ "make" \notin LastReads BY <5>2 DEF LastReads
        <5>. QED BY <5>4, <5>5
      <4>. QED BY <4>1, <4>2
    <3>3. CASE c.op \in {"refund", "retrieve", "capture"}
      <4>1. Payments!Plan(c) \in {Payments!Do("read"), Payments!Do("capture"), Payments!Keyed("refundPart"), Payments!Keyed("refund")}
        BY <2>0, <2>5, <3>3 DEF Payments!Stripe, Payments!StripeCharges
      <4>2. {"read", "capture", "refundPart", "refund"} \subseteq Plain BY DEF Plain
      <4>. QED BY <1>d, <1>k, <1>s, <3>3, <4>1, <4>2
    <3>. QED BY <3>1, <3>2, <3>3
  <2>6. CASE c.of = "invoices"
    <3>1. c.op = "void" BY <2>6 DEF Usual, KeyedOf
    <3>2. Payments!Plan(c) = Payments!Do("change") /\ "change" \in Plain
      BY <2>0, <2>6, <3>1 DEF Payments!Stripe, Payments!StripeInvoices, Payments!Reads, Plain
    <3>. QED BY <1>d, <1>s, <3>1, <3>2
  <2>7. CASE c.of = "checkout"
    <3>1. c.op = "create" BY <2>7 DEF Usual
    <3>2. Payments!Plan(c) = Payments!Keyed("make") BY <2>0, <2>7, <3>1 DEF Payments!Stripe, Payments!StripeCheckout
    <3>. QED BY <1>k, <1>m, <2>7, <2>m, <3>2
  <2>8. CASE c.of = "links"
    <3>1. c.op \in {"create", "deactivate"} BY <2>8 DEF Usual
    <3>2. CASE c.op = "create"
      <4>1. Payments!Plan(c) \in {Payments!Keyed("make"), Payments!Refuse} BY <2>0, <2>8, <3>2 DEF Payments!Stripe, Payments!StripeLinks, Payments!Reads
      <4>. QED BY <1>k, <1>m, <2>8, <2>m, <4>1
    <3>3. CASE c.op = "deactivate"
      <4>1. Payments!Plan(c) = Payments!Do("windDown") /\ "windDown" \in Plain
        BY <2>0, <2>8, <3>3 DEF Payments!Stripe, Payments!StripeLinks, Payments!Reads, Plain
      <4>. QED BY <1>d, <1>s, <3>3, <4>1
    <3>. QED BY <3>1, <3>2, <3>3
  <2>. QED BY <1>u, <2>1, <2>2, <2>3, <2>4, <2>5, <2>6, <2>7, <2>8 DEF AnyOf, KeyedOf
<1>2. CASE gateway = "omise"
  <2>0. Payments!Plan(c) = Payments!Omise(c) BY <1>2 DEF Payments!Plan
  <2>m. MakeFits(gateway, c, no) /\ Unkeyed(gateway, c) BY <1>2 DEF Unkeyed, MakeFits, Honours
  <2>1. CASE c.of = "customers"
    <3>1. Payments!Plan(c) = IF c.op = "create" THEN Payments!Do("make") ELSE IF c.op \in Payments!Reads THEN Payments!Do("read")
                             ELSE IF c.op = "delete" THEN Payments!Do("remove") ELSE Payments!Do("change")
      BY <2>0, <2>1 DEF Payments!Omise, Payments!OmiseCustomers
    <3>2. {"read", "remove", "change"} \subseteq Plain BY DEF Plain
    <3>. QED BY <1>d, <1>m, <1>s, <2>m, <3>1, <3>2
  <2>2. CASE c.of \in {"products", "prices", "invoices", "checkout"}
    <3>2. Payments!Plan(c) = Payments!Refuse BY <2>0, <2>2 DEF Payments!Omise, Payments!OmiseCatalogue, Payments!OmiseHosted
    <3>. QED BY <3>2
  <2>3. CASE c.of = "subscriptions"
    <3>1. c.op \in {"create", "cancel", "update"} BY <2>3 DEF Usual
    <3>2. CASE c.op \in {"create", "update"}
      <4>1. Payments!Plan(c) = Payments!Refuse \/ (c.op = "create" /\ Payments!Plan(c) = Payments!Do("make"))
        BY <2>0, <2>3, <3>2 DEF Payments!Omise, Payments!OmiseSubscriptions, Payments!Reads
      <4>. QED BY <1>d, <1>m, <2>m, <4>1
    <3>3. CASE c.op = "cancel"
      <4>1. Payments!Plan(c) = Payments!Do("remove") \o Payments!Do("readIfUnanswered")
        BY <2>0, <2>3, <3>3 DEF Payments!Omise, Payments!OmiseSubscriptions, Payments!Reads
      <4>2. Payments!Plan(c) = <<[does |-> "remove", keyed |-> no], [does |-> "readIfUnanswered", keyed |-> no]>> BY <1>d, <4>1, Joined
      <4>3. Follows(gateway, Payments!Plan(c), c) BY <4>2 DEF Follows
      <4>4. Payments!Plan(c)[1].does = "remove" /\ "remove" \notin LastReads BY <4>2 DEF LastReads
      <4>. QED BY <3>3, <4>3, <4>4
    <3>. QED BY <3>1, <3>2, <3>3
  <2>4. CASE c.of = "methods"
    <3>1. c.op = "detach" BY <2>4 DEF Usual, KeyedOf
    <3>2. Payments!Plan(c) \in {Payments!Do("change"), Payments!Refuse} /\ "change" \in Plain
      BY <2>0, <2>4, <3>1 DEF Payments!Omise, Payments!OmiseMethods, Plain
    <3>. QED BY <1>d, <1>s, <3>1, <3>2
  <2>5. CASE c.of = "charges"
    <3>1. c.op \in {"create", "refund", "retrieve", "capture"} BY <2>5 DEF Usual
    <3>2. CASE c.op = "create"
      <4>1. Payments!Plan(c) \in {Payments!Do("make"), Payments!Refuse, Payments!Do("source") \o Payments!Do("make")}
        BY <2>0, <2>5, <3>2 DEF Payments!Omise, Payments!OmiseCharges
      <4>2. CASE Payments!Plan(c) = Payments!Do("source") \o Payments!Do("make")
        <5>1. Follows(gateway, Payments!Plan(c), c) BY <2>5, <2>m, <4>2 DEF Follows
        <5>2. Payments!Plan(c) = <<[does |-> "source", keyed |-> no], [does |-> "make", keyed |-> no]>> BY <1>d, <4>2, Joined
        <5>3. Payments!Plan(c)[1].does = "source" /\ "source" \notin LastReads BY <5>2 DEF LastReads
        <5>. QED BY <5>1, <5>3
      <4>. QED BY <1>d, <1>m, <2>m, <4>1, <4>2
    <3>3. CASE c.op \in {"refund", "retrieve", "capture"}
      <4>1. Payments!Plan(c) \in {Payments!Do("read"), Payments!Do("capture"), Payments!Do("refundPart"), Payments!Do("refund")}
        BY <2>0, <2>5, <3>3 DEF Payments!Omise, Payments!OmiseCharges
      <4>2. {"read", "capture", "refundPart", "refund"} \subseteq Plain BY DEF Plain
      <4>. QED BY <1>d, <1>s, <3>3, <4>1, <4>2
    <3>. QED BY <3>1, <3>2, <3>3
  <2>6. CASE c.of = "links"
    <3>1. c.op \in {"create", "deactivate"} BY <2>6 DEF Usual
    <3>2. Payments!Plan(c) \in {Payments!Do("make"), Payments!Refuse} /\ (c.op # "create" => Payments!Plan(c) = Payments!Refuse)
      BY <2>0, <2>6, <3>1 DEF Payments!Omise, Payments!OmiseLinks, Payments!Reads
    <3>. QED BY <1>d, <1>m, <2>m, <3>2
  <2>. QED BY <1>u, <2>1, <2>2, <2>3, <2>4, <2>5, <2>6 DEF AnyOf, KeyedOf
<1>3. CASE gateway = "mock"
  <2>0. Payments!Plan(c) = Payments!Mock(c) BY <1>3 DEF Payments!Plan
  <2>m. c.of # "charges" => MakeFits(gateway, c, no) BY <1>3 DEF MakeFits, Honours
  <2>1. CASE c.of \in {"customers", "products", "prices", "checkout"}
    <3>1. c.op \in {"create", "retrieve", "delete"} /\ (c.of # "customers" => c.op = "create") BY <2>1 DEF Usual
    <3>2. Payments!Plan(c) = IF c.op = "create" THEN Payments!Do("make") ELSE IF c.op = "retrieve" THEN Payments!Do("read") ELSE Payments!Do("remove")
      BY <2>0, <2>1, <3>1 DEF Payments!Mock, Payments!MockCustomers, Payments!MockProducts, Payments!MockPrices, Payments!MockCheckout, Payments!Reads
    <3>3. {"read", "remove"} \subseteq Plain BY DEF Plain
    <3>. QED BY <1>d, <1>m, <1>s, <2>1, <2>m, <3>2, <3>3
  <2>2. CASE c.of = "subscriptions"
    <3>1. c.op \in {"create", "cancel", "update"} BY <2>2 DEF Usual
    <3>2. Payments!Plan(c) \in {Payments!Do("make"), Payments!Do("cancel"), Payments!Do("windDown"), Payments!Do("change")}
          /\ (c.op = "create" <=> Payments!Plan(c) = Payments!Do("make"))
      <4>1. Payments!Plan(c) = IF c.op = "create" THEN Payments!Do("make")
                               ELSE IF c.op = "cancel" THEN Payments!Do(IF "now" \in c.with THEN "cancel" ELSE "windDown") ELSE Payments!Do("change")
        BY <2>0, <2>2, <3>1 DEF Payments!Mock, Payments!MockSubscriptions, Payments!Reads
      <4>2. \A d, e : d # e => Payments!Do(d) # Payments!Do(e)
        <5> SUFFICES ASSUME NEW d, NEW e, Payments!Do(d) = Payments!Do(e) PROVE d = e OBVIOUS
        <5>1. Payments!Do(d)[1].does = d /\ Payments!Do(e)[1].does = e BY <1>d
        <5>. QED BY <5>1
      <4>. QED BY <3>1, <4>1, <4>2
    <3>3. {"cancel", "windDown", "change"} \subseteq Plain BY DEF Plain
    <3>. QED BY <1>d, <1>m, <1>s, <2>2, <2>m, <3>2, <3>3
  <2>3. CASE c.of \in {"methods", "invoices"}
    <3>1. c.op \in {"detach", "void"} BY <2>3 DEF Usual, KeyedOf
    <3>2. Payments!Plan(c) = Payments!Do("change") /\ "change" \in Plain
      BY <2>0, <2>3, <3>1 DEF Payments!Mock, Payments!MockMethods, Payments!MockInvoices, Payments!Reads, Plain
    <3>. QED BY <1>d, <1>s, <3>1, <3>2
  <2>4. CASE c.of = "charges"
    <3>1. c.op \in {"create", "refund", "retrieve", "capture"} BY <2>4 DEF Usual
    <3>2. CASE c.op = "create"
      <4>1. Payments!Plan(c) = Payments!Keyed("make") BY <2>0, <2>4, <3>2 DEF Payments!Mock, Payments!MockCharges
      <4>2. MakeFits(gateway, c, yes) BY <1>0, <1>3 DEF MakeFits
      <4>. QED BY <1>k, <1>m, <4>1, <4>2
    <3>3. CASE c.op = "retrieve"
      <4>1. Payments!Plan(c) = Payments!Do("read") /\ "read" \in Plain BY <2>0, <2>4, <3>3 DEF Payments!Mock, Payments!MockCharges, Plain
      <4>. QED BY <1>d, <1>s, <3>3, <4>1
    <3>4. CASE c.op \in {"refund", "capture"}
      <4>1. Payments!Plan(c) \in {Payments!Do("settle"), Payments!Do("settlePart"), Payments!Do("settleBack")}
        BY <2>0, <2>4, <3>4 DEF Payments!Mock, Payments!MockCharges
      <4>2. Settling = {"settle", "settlePart", "settleBack"} BY DEF Settling
      <4>. QED BY <1>3, <1>d, <1>t, <3>4, <4>1, <4>2
    <3>. QED BY <3>1, <3>2, <3>3, <3>4
  <2>5. CASE c.of = "links"
    <3>1. c.op \in {"create", "deactivate"} BY <2>5 DEF Usual
    <3>2. Payments!Plan(c) = IF c.op = "create" THEN Payments!Do("make") ELSE Payments!Do("windDown")
      BY <2>0, <2>5, <3>1 DEF Payments!Mock, Payments!MockLinks, Payments!Reads
    <3>3. "windDown" \in Plain BY DEF Plain
    <3>. QED BY <1>d, <1>m, <1>s, <2>5, <2>m, <3>2, <3>3
  <2>. QED BY <1>u, <2>1, <2>2, <2>3, <2>4, <2>5 DEF AnyOf, KeyedOf
<1>. QED BY <1>1, <1>2, <1>3

\* What the provider holds: one object for the key where keys are honoured, charges of the kinds the
\* driver has, and money that was taken at once stays accounted for.
KeyedOnce(g, q) == \A i, j \in DOMAIN q : q[i].of = q[j].of /\ q[i].keyed /\ q[j].keyed /\ Honours(g, q[i].of) => i = j
IntentFits(g, o) == /\ g = "stripe" /\ o.of = "charges" => o.kind \in Payments!StripeMethodKinds
                    /\ o.first = "taken" => o.state \in Funded
IntentsHold(g, q) == q \in Seq(IntentRow) /\ KeyedOnce(g, q) /\ \A i \in DOMAIN q : IntentFits(g, q[i])

\* What may become of an object: money that was taken stays taken or is given back, and where the
\* driver is not its own provider money that was given back stays so.
Became(g, o, n) ==
    /\ n.of = o.of /\ n.keyed = o.keyed /\ n.kind = o.kind /\ n.first = o.first
    /\ o.state \in Funded => n.state \in Funded
    /\ g # "mock" /\ o.state \in GaveBack => n.state \in GaveBack
Moves(g, q, n) == DOMAIN q \subseteq DOMAIN n /\ \A i \in DOMAIN q : Became(g, q[i], n[i])

\* A caller's next request has what it is about; what it was told is true.
CallFits(g, c, p, q) ==
    /\ c \in CallRow
    /\ \/ p = <<>>
       \/ /\ c.of \in AnyOf /\ Follows(g, p, c)
          /\ \/ p[1].does \in {"make", "source"}
             \/ c.target \in DOMAIN q /\ (p[1].does \in LastReads => q[c.target].of = c.of)
NextKnown(g, next) == /\ g = "stripe" => Payments!StripeDeclares("next", next)
                      /\ g = "omise" => Payments!OmiseDeclares("next", next)
AnswerTrue(g, r, st) == /\ r.status = "succeeded" => st \in Funded
                        /\ r.status = "refunded" /\ g # "mock" => st \in GaveBack
                        /\ r.next # "none" => NextKnown(g, r.next)
AnswerFits(g, r, q) == r.is = "answered" => r.id \in DOMAIN q /\ (q[r.id].of = "charges" => AnswerTrue(g, r, q[r.id].state))

\* Sources are counted against charges, losses and the callers that are about to charge one.
SourcesOf(q) == {i \in DOMAIN q : q[i].of = "sources"}
ChargesOf(q) == {i \in DOMAIN q : q[i].of = "charges"}
Holders == {a \in Payer : payCall[a].of = "charges" /\ payLeft[a] = Payments!Do("make")}

PayTyped ==
    /\ gateway \in {"stripe", "omise", "mock"}
    /\ Usual(order) /\ order.op = "create" /\ order.of \in KeyedOf /\ order.key = FALSE
    /\ customer \in DOMAIN intents \cup {0} /\ payLost \in Nat
    /\ DOMAIN payCall = Payer /\ DOMAIN payLeft = Payer /\ DOMAIN payAnswer = Payer
CallersHold == \A a \in Payer : CallFits(gateway, payCall[a], payLeft[a], intents) /\ AnswerFits(gateway, payAnswer[a], intents)
SourcesCounted == Cardinality(SourcesOf(intents)) <= Cardinality(ChargesOf(intents)) + payLost + Cardinality(Holders)
PayIInv == PayTyped /\ IntentsHold(gateway, intents) /\ CallersHold /\ SourcesCounted

\* A plan that is followed has one or two requests; the second makes something only behind a source.
Shaped(g, p, c) ==
  /\ p # <<>> /\ Head(p) = p[1] /\ Len(p) \in {1, 2} /\ p[1].keyed \in BOOLEAN
  /\ p[1].does \in Plain \cup LastReads \cup {"make", "source"} \/ (g = "mock" /\ p[1].does \in Settling)
  /\ p[1].does = "make" => MakeFits(g, c, p[1].keyed)
  /\ p[1].does = "source" => c.of = "charges" /\ Unkeyed(g, c) /\ Len(p) = 2 /\ Tail(p) = Payments!Do("make")
  /\ Len(p) = 2 => Follows(g, Tail(p), c) /\ (Tail(p)[1].does = "make" => p[1].does = "source")
  /\ p = Payments!Do("make") => p[1].does = "make" /\ p[1].keyed = FALSE

\* Whatever plan it is.
LEMMA FollowsShape == ASSUME NEW g, NEW p, NEW c, Follows(g, p, c) PROVE Shaped(g, p, c)
<1> USE DEF Shaped
<1>0. PICK no \in BOOLEAN : no = FALSE OBVIOUS
<1>d. \A d : Payments!Do(d) = <<[does |-> d, keyed |-> no]>> BY <1>0 DEF Payments!Do, Payments!Request
<1>m. p = Payments!Do("make") => p[1].does = "make" /\ p[1].keyed = FALSE BY <1>0, <1>d
<1>1. \A x : <<x>> # <<>> /\ Head(<<x>>) = x /\ Len(<<x>>) = 1 /\ <<x>>[1] = x OBVIOUS
<1>2. ASSUME NEW x, NEW y PROVE <<x, y>> # <<>> /\ Head(<<x, y>>) = x /\ Len(<<x, y>>) = 2 /\ <<x, y>>[1] = x /\ Tail(<<x, y>>) = <<y>>
  <2>1. PICK s, t : s = <<x, y>> /\ t = <<y>> OBVIOUS
  <2>2. s \in Seq({x, y}) /\ t \in Seq({x, y}) /\ Len(s) = 2 /\ Len(t) = 1 /\ s # <<>> /\ t[1] = y /\ s[2] = y /\ s[1] = x /\ Head(s) = x BY <2>1
  <2>3. Tail(s) \in Seq({x, y}) /\ Len(Tail(s)) = 1 /\ \A i \in 1 .. Len(Tail(s)) : Tail(s)[i] = s[i + 1] BY <2>2, HeadTailProperties
  <2>6. Tail(s)[1] = s[1 + 1] /\ 1 + 1 = 2 BY <2>3
  <2>4. \A i \in 1 .. Len(Tail(s)) : Tail(s)[i] = t[i]
    <3> SUFFICES ASSUME NEW i \in 1 .. 1 PROVE Tail(s)[i] = t[i] BY <2>3
    <3>1. i = 1 OBVIOUS
    <3>. QED BY <2>2, <2>6, <3>1
  <2>5. Tail(s) = t BY <2>2, <2>3, <2>4, SeqEqual
  <2>. QED BY <2>1, <2>2, <2>5
<1>n. "make" \notin LastReads \cup Plain \cup Settling /\ "source" \notin LastReads \cup Plain \cup Settling BY DEF LastReads, Plain, Settling
<1>s. \A d \in Plain \cup LastReads, k \in BOOLEAN : \A u : u = <<[does |-> d, keyed |-> k]>> => Follows(g, u, c) /\ u[1].does = d
  <2> SUFFICES ASSUME NEW d \in Plain \cup LastReads, NEW k \in BOOLEAN, NEW u, u = <<[does |-> d, keyed |-> k]>>
               PROVE  Follows(g, u, c) /\ u[1].does = d
    OBVIOUS
  <2>1. Follows(g, u, c) BY Zenon DEF Follows
  <2>2. u[1] = [does |-> d, keyed |-> k] BY <1>1
  <2>. QED BY <2>1, <2>2
<1>3. CASE \E d \in Plain \cup LastReads, k \in BOOLEAN : p = <<[does |-> d, keyed |-> k]>>
  <2>1. PICK d \in Plain \cup LastReads, k \in BOOLEAN : p = <<[does |-> d, keyed |-> k]>> BY <1>3
  <2>. QED BY <1>1, <1>m, <1>n, <2>1
<1>4. CASE g = "mock" /\ \E d \in Settling, k \in BOOLEAN : p = <<[does |-> d, keyed |-> k]>>
  <2>1. PICK d \in Settling, k \in BOOLEAN : p = <<[does |-> d, keyed |-> k]>> BY <1>4
  <2>. QED BY <1>1, <1>m, <1>n, <1>4, <2>1
<1>5. CASE \E k \in BOOLEAN : MakeFits(g, c, k) /\ p = <<[does |-> "make", keyed |-> k]>>
  <2>1. PICK k \in BOOLEAN : MakeFits(g, c, k) /\ p = <<[does |-> "make", keyed |-> k]>> BY <1>5
  <2>. QED BY <1>1, <1>m, <1>n, <2>1
<1>6. CASE \E k, l \in BOOLEAN : MakeFits(g, c, k) /\ p = <<[does |-> "make", keyed |-> k], [does |-> "readIfSettled", keyed |-> l]>>
  <2>1. PICK k, l \in BOOLEAN : MakeFits(g, c, k) /\ p = <<[does |-> "make", keyed |-> k], [does |-> "readIfSettled", keyed |-> l]>> BY <1>6
  <2>2. Tail(p) = <<[does |-> "readIfSettled", keyed |-> l]>> BY <1>2, <2>1
  <2>5. "readIfSettled" \in Plain \cup LastReads BY DEF Plain, LastReads
  <2>3. Follows(g, Tail(p), c) /\ Tail(p)[1].does # "make" BY <1>s, <2>2, <2>5
  <2>4. p[1].does = "make" /\ p[1].keyed = k /\ p # <<>> /\ Head(p) = p[1] /\ Len(p) = 2 BY <1>2, <2>1
  <2>. QED BY <1>m, <2>1, <2>3, <2>4
<1>7. CASE \E k, l \in BOOLEAN : p = <<[does |-> "read", keyed |-> k], [does |-> "change", keyed |-> l]>>
  <2>1. PICK k, l \in BOOLEAN : p = <<[does |-> "read", keyed |-> k], [does |-> "change", keyed |-> l]>> BY <1>7
  <2>2. Tail(p) = <<[does |-> "change", keyed |-> l]>> BY <1>2, <2>1
  <2>5. "change" \in Plain \cup LastReads BY DEF Plain, LastReads
  <2>3. Follows(g, Tail(p), c) /\ Tail(p)[1].does # "make" BY <1>s, <2>2, <2>5
  <2>4. p[1].does = "read" /\ p[1].keyed = k /\ p # <<>> /\ Head(p) = p[1] /\ Len(p) = 2 /\ "read" \in Plain BY <1>2, <2>1 DEF Plain
  <2>. QED BY <1>m, <2>1, <2>3, <2>4
<1>8. CASE \E k, l \in BOOLEAN : p = <<[does |-> "remove", keyed |-> k], [does |-> "readIfUnanswered", keyed |-> l]>>
  <2>1. PICK k, l \in BOOLEAN : p = <<[does |-> "remove", keyed |-> k], [does |-> "readIfUnanswered", keyed |-> l]>> BY <1>8
  <2>2. Tail(p) = <<[does |-> "readIfUnanswered", keyed |-> l]>> BY <1>2, <2>1
  <2>5. "readIfUnanswered" \in Plain \cup LastReads BY DEF Plain, LastReads
  <2>3. Follows(g, Tail(p), c) /\ Tail(p)[1].does # "make" BY <1>s, <2>2, <2>5
  <2>4. p[1].does = "remove" /\ p[1].keyed = k /\ p # <<>> /\ Head(p) = p[1] /\ Len(p) = 2 /\ "remove" \in Plain BY <1>2, <2>1 DEF Plain
  <2>. QED BY <1>m, <2>1, <2>3, <2>4
<1>9. CASE c.of = "charges" /\ Unkeyed(g, c) /\ p = Payments!Do("source") \o Payments!Do("make")
  <2>1. p = <<[does |-> "source", keyed |-> no], [does |-> "make", keyed |-> no]>> BY <1>d, <1>9, Joined
  <2>2. Tail(p) = <<[does |-> "make", keyed |-> no]>> BY <1>2, <2>1
  <2>3. MakeFits(g, c, no) BY <1>0, <1>9 DEF Unkeyed
  <2>4. Follows(g, Tail(p), c) BY <2>2, <2>3 DEF Follows
  <2>5. p[1].does = "source" /\ p[1].keyed = no /\ p # <<>> /\ Head(p) = p[1] /\ Len(p) = 2 BY <1>2, <2>1
  <2>6. Tail(p) = Payments!Do("make") BY <1>d, <2>2
  <2>. QED BY <1>m, <1>9, <2>4, <2>5, <2>6
<1>. QED BY <1>3, <1>4, <1>5, <1>6, <1>7, <1>8, <1>9 DEF Follows

\* Behind a source comes the charge.
LEMMA FollowsSource ==
  ASSUME NEW g, NEW p, NEW c, Follows(g, p, c), p[1].does = "source"
  PROVE  c.of = "charges" /\ Tail(p) = Payments!Do("make") /\ p # Payments!Do("make") /\ Len(p) = 2
<1>1. Shaped(g, p, c) BY FollowsShape
<1>. QED BY <1>1 DEF Shaped

\* A plan does not look at the object a call is about.
LEMMA FollowsOn ==
  ASSUME NEW g, NEW p, NEW c, Follows(g, p, c), NEW d, d.of = c.of, d.key = c.key, d.kind = c.kind
  PROVE  Follows(g, p, d)
<1>1. \A k : MakeFits(g, c, k) => MakeFits(g, d, k) BY DEF MakeFits
<1>2. Unkeyed(g, c) => Unkeyed(g, d) BY DEF Unkeyed, MakeFits
<1>. QED BY <1>1, <1>2 DEF Follows

\* What holds of a caller goes on holding.
LEMMA MovesFit ==
  ASSUME NEW g, NEW q, NEW n, Moves(g, q, n)
  PROVE  /\ \A c, p : CallFits(g, c, p, q) => CallFits(g, c, p, n)
         /\ \A r : AnswerFits(g, r, q) => AnswerFits(g, r, n)
<1>1. \A i \in DOMAIN q : i \in DOMAIN n /\ n[i].of = q[i].of /\ (q[i].state \in Funded => n[i].state \in Funded)
                          /\ (g # "mock" /\ q[i].state \in GaveBack => n[i].state \in GaveBack)
  BY DEF Moves, Became
<1>2. ASSUME NEW c, NEW p, CallFits(g, c, p, q) PROVE CallFits(g, c, p, n) BY <1>1, <1>2 DEF CallFits
<1>3. ASSUME NEW r, AnswerFits(g, r, q) PROVE AnswerFits(g, r, n) BY <1>1, <1>3 DEF AnswerFits, AnswerTrue
<1>. QED BY <1>2, <1>3

\* The call goes on to its next request, about the object of the last.
LEMMA TailFits ==
  ASSUME NEW g, NEW c, NEW p, NEW q, CallFits(g, c, p, q), Len(p) > 1, NEW i \in Nat, NEW n, i \in DOMAIN n,
         p[1].does # "source" => n[i].of = c.of
  PROVE  CallFits(g, [c EXCEPT !.target = i], Tail(p), n)
<1>0. p # <<>>
  <2>1. Len(<<>>) = 0 OBVIOUS
  <2>. QED BY <2>1
<1>1. c \in CallRow /\ c.of \in AnyOf /\ Follows(g, p, c) BY <1>0 DEF CallFits
<1>2. Len(p) = 2 /\ Follows(g, Tail(p), c) /\ (Tail(p)[1].does = "make" => p[1].does = "source")
      /\ (p[1].does = "source" => Tail(p) = Payments!Do("make"))
  <2>1. Shaped(g, p, c) BY <1>1, FollowsShape
  <2>2. Len(p) \in {1, 2} BY <2>1, Zenon DEF Shaped
  <2>3. Len(p) = 2 BY <2>2
  <2>. QED BY <2>1, <2>3, Zenon DEF Shaped
<1>3. PICK d : d = [c EXCEPT !.target = i] OBVIOUS
<1>4. d \in CallRow /\ d.of = c.of /\ d.key = c.key /\ d.kind = c.kind /\ d.target = i BY <1>1, <1>3 DEF CallRow
<1>5. Follows(g, Tail(p), d) BY <1>2, <1>4, FollowsOn
<1>6. CASE p[1].does = "source"
  <2>1. Tail(p)[1].does = "make"
    <3>1. Tail(p) = Payments!Do("make") BY <1>2, <1>6
    <3>2. Shaped(g, Tail(p), d) BY <1>5, FollowsShape
    <3>. QED BY <3>1, <3>2 DEF Shaped
  <2>. QED BY <1>1, <1>3, <1>4, <1>5, <2>1 DEF CallFits
<1>7. CASE p[1].does # "source"
  <2>1. n[d.target].of = d.of /\ d.target \in DOMAIN n BY <1>4, <1>7
  <2>. QED BY <1>1, <1>3, <1>4, <1>5, <2>1 DEF CallFits
<1>. QED BY <1>6, <1>7

\* A request leaves an object in a state it may be in; money that was taken is not forgotten.
LEMMA EffectKeeps ==
  ASSUME NEW does \in Plain \cup Settling, NEW st, st \in Payments!Effect(does).from,
         NEW to, to = IF Payments!Effect(does).to = "same" THEN st ELSE Payments!Effect(does).to
  PROVE  /\ to \in IntentState /\ (st \in Funded => to \in Funded)
         /\ does \in Plain /\ st \in GaveBack => to \in GaveBack
<1> DEFINE Is(from, into) == Payments!Effect(does).from = from /\ Payments!Effect(does).to = into
<1>1. CASE does \in {"read", "change"}
  <2>1. Is({"live", "ending", "taken", "held", "awaiting", "declined", "refunded", "partly", "reversed"}, "same") BY <1>1 DEF Payments!Effect
  <2>. QED BY <2>1 DEF IntentState, FirstState
<1>2. CASE does = "remove"
  <2>1. Is({"live", "ending"}, "gone") BY <1>2 DEF Payments!Effect
  <2>. QED BY <2>1 DEF IntentState, FirstState, Funded, GaveBack
<1>3. CASE does \in {"cancel", "windDown"}
  <2>1. Is({"live", "ending"}, "ending") BY <1>3 DEF Payments!Effect
  <2>. QED BY <2>1 DEF IntentState, FirstState, Funded, GaveBack
<1>4. CASE does = "capture"
  <2>1. Is({"held"}, "taken") BY <1>4 DEF Payments!Effect
  <2>. QED BY <2>1 DEF IntentState, FirstState, Funded, GaveBack
<1>5. CASE does = "refund"
  <2>1. Is({"taken", "partly"}, "refunded") BY <1>5 DEF Payments!Effect
  <2>. QED BY <2>1 DEF IntentState, FirstState, Funded, GaveBack
<1>6. CASE does = "refundPart"
  <2>1. Is({"taken", "partly"}, "partly") BY <1>6 DEF Payments!Effect
  <2>. QED BY <2>1 DEF IntentState, FirstState, Funded, GaveBack
<1>7. CASE does \in Settling
  <2>1. Payments!Effect(does).to \in Funded /\ Payments!Effect(does).to # "same" BY <1>7 DEF Payments!Effect, Settling, Funded
  <2>2. to \in Funded /\ to \in IntentState BY <2>1 DEF Funded, IntentState, FirstState
  <2>3. does \notin Plain BY <1>7 DEF Plain, Settling
  <2>. QED BY <2>2, <2>3
<1>. QED BY <1>1, <1>2, <1>3, <1>4, <1>5, <1>6, <1>7 DEF Plain

\* The status of a charge says what became of the money.
LEMMA StatusTells ==
  ASSUME gateway \in {"stripe", "omise", "mock"}, NEW st
  PROVE  /\ Payments!Status(st) = "succeeded" => st \in {"taken", "partly"}
         /\ Payments!Status(st) = "refunded" /\ gateway # "mock" => st \in GaveBack
<1>1. CASE gateway = "stripe"
  <2>1. Payments!Status(st) = Payments!StripeStatus(st) BY <1>1 DEF Payments!Status
  <2>. QED BY <2>1 DEF Payments!StripeStatus, GaveBack
<1>2. CASE gateway = "omise"
  <2>1. Payments!Status(st) = Payments!OmiseStatus(st) BY <1>2 DEF Payments!Status
  <2>. QED BY <2>1 DEF Payments!OmiseStatus, GaveBack
<1>3. CASE gateway = "mock"
  <2>1. Payments!Status(st) = Payments!MockStatus(st) BY <1>3 DEF Payments!Status
  <2>. QED BY <1>3, <2>1 DEF Payments!MockStatus
<1>. QED BY <1>1, <1>2, <1>3

\* What the payer is asked to do next is something the driver declares.
LEMMA NextTells ==
  ASSUME gateway \in {"stripe", "omise", "mock"}, NEW c, NEW st, NEW next \in Payments!NextActions(c, st),
         c.of = "charges" /\ gateway = "stripe" => c.kind \in Payments!StripeMethodKinds
  PROVE  next # "none" => NextKnown(gateway, next)
<1>1. CASE c.of # "charges" \/ st # "awaiting"
  <2>1. next = "none" BY <1>1 DEF Payments!NextActions
  <2>. QED BY <2>1
<1>2. CASE c.of = "charges" /\ st = "awaiting"
  <2>1. CASE gateway = "stripe"
    <3>1. \E b \in BOOLEAN : next = Payments!StripeNext(c.kind, b) BY <1>2, <2>1 DEF Payments!NextActions
    <3>2. PICK b \in BOOLEAN : next = Payments!StripeNext(c.kind, b) BY <3>1
    <3>3. next \in {"display_qr", "redirect", "authorize", "voucher", "wait"}
      BY <1>2, <2>1, <3>2 DEF Payments!StripeNext, Payments!StripeMethodKinds
    <3>4. Payments!StripeDeclares("next", next) BY <3>3 DEF Payments!StripeDeclares
    <3>. QED BY <2>1, <3>4 DEF NextKnown
  <2>2. CASE gateway = "omise"
    <3>1. \E b \in BOOLEAN : next = Payments!OmiseNext(c.kind, b) BY <1>2, <2>2 DEF Payments!NextActions
    <3>2. PICK b \in BOOLEAN : next = Payments!OmiseNext(c.kind, b) BY <3>1
    <3>3. next \in {"display_qr", "redirect", "wait"} BY <3>2 DEF Payments!OmiseNext
    <3>4. Payments!OmiseDeclares("next", next) BY <3>3 DEF Payments!OmiseDeclares
    <3>. QED BY <2>2, <3>4 DEF NextKnown
  <2>3. CASE gateway = "mock" BY <2>3 DEF NextKnown
  <2>. QED BY <2>1, <2>2, <2>3
<1>. QED BY <1>1, <1>2

\* How a caller comes out of a step: the others are where they were.
Turns(a, c, p, r) ==
    /\ DOMAIN payCall' = Payer /\ DOMAIN payLeft' = Payer /\ DOMAIN payAnswer' = Payer
    /\ payCall'[a] = c /\ payLeft'[a] = p /\ payAnswer'[a] = r
    /\ \A b \in Payer \ {a} : payCall'[b] = payCall[b] /\ payLeft'[b] = payLeft[b] /\ payAnswer'[b] = payAnswer[b]

\* A call that is over fits whatever is held.
LEMMA NoCallFits == ASSUME NEW g, NEW q PROVE CallFits(g, Payments!NoCall, <<>>, q) /\ Payments!NoCall.of = "none"
<1>0. PICK no \in BOOLEAN, sort \in KindName, having \in Withs : no = FALSE /\ sort = "none" /\ having = {} BY DEF KindName, Withs
<1>1. Payments!NoCall = [of |-> "none", op |-> "none", kind |-> sort, with |-> having, key |-> no, target |-> 0]
  BY <1>0 DEF Payments!NoCall, Payments!Call
<1>2. Payments!NoCall \in CallRow BY <1>1 DEF CallRow, OpName
<1>3. Payments!NoCall.of = "none" BY <1>1
<1>. QED BY <1>2, <1>3 DEF CallFits

\* A failed call leaves no answer.
LEMMA FailsTurns ==
  ASSUME PayTyped, NEW a \in Payer, Payments!Fails(a), NEW q
  PROVE  \E r : Turns(a, Payments!NoCall, <<>>, r) /\ AnswerFits(gateway, r, q) /\ customer' = customer
<1>1. /\ payAnswer' = [payAnswer EXCEPT ![a] = [Payments!Nothing EXCEPT !.is = "failed"]] /\ customer' = customer
      /\ payCall' = [payCall EXCEPT ![a] = Payments!NoCall] /\ payLeft' = [payLeft EXCEPT ![a] = <<>>]
  BY DEF Payments!Fails
<1>2. PICK r : r = [Payments!Nothing EXCEPT !.is = "failed"] OBVIOUS
<1>3. r.is = "failed" BY <1>2 DEF Payments!Nothing
<1>4. Turns(a, Payments!NoCall, <<>>, r) BY <1>1, <1>2 DEF Turns, PayTyped
<1>. QED BY <1>1, <1>3, <1>4 DEF AnswerFits

\* A DTO is true of the object it was made from.
LEMMA AnswerTurns ==
  ASSUME PayTyped, NEW a \in Payer, NEW i, NEW st, Payments!Answer(a, i, st),
         IntentsHold(gateway, intents'), Moves(gateway, intents, intents'), i \in DOMAIN intents', intents'[i].of = payCall[a].of,
         payCall[a] \in CallRow,
         st \in {"taken", "partly"} => intents'[i].state \in Funded, st \in GaveBack => intents'[i].state \in GaveBack
  PROVE  \E r : /\ Turns(a, Payments!NoCall, <<>>, r) /\ AnswerFits(gateway, r, intents')
                /\ customer' \in DOMAIN intents' \cup {0}
<1>1. PICK next \in Payments!NextActions([payCall[a] EXCEPT !.kind = intents'[i].kind], st) :
        /\ payAnswer' = [payAnswer EXCEPT ![a] = [is |-> "answered", next |-> next, id |-> i,
                                        status |-> IF payCall[a].of = "charges" THEN Payments!Status(st) ELSE st]]
        /\ customer' = IF "billable" \in payCall[a].with /\ payCall[a].op = "create" THEN i ELSE customer
        /\ payCall' = [payCall EXCEPT ![a] = Payments!NoCall] /\ payLeft' = [payLeft EXCEPT ![a] = <<>>]
  BY Zenon DEF Payments!Answer
<1>2. PICK r : r = [is |-> "answered", next |-> next, id |-> i, status |-> IF payCall[a].of = "charges" THEN Payments!Status(st) ELSE st] OBVIOUS
<1>3. r.is = "answered" /\ r.next = next /\ r.id = i /\ (payCall[a].of = "charges" => r.status = Payments!Status(st)) BY <1>2
<1>4. Turns(a, Payments!NoCall, <<>>, r) BY <1>1, <1>2 DEF Turns, PayTyped
<1>5. customer' \in DOMAIN intents' \cup {0} BY <1>1 DEF PayTyped, Moves
<1>6. ASSUME intents'[i].of = "charges" PROVE AnswerTrue(gateway, r, intents'[i].state)
  <2>1. payCall[a].of = "charges" BY <1>6
  <2>2. PICK c : c = [payCall[a] EXCEPT !.kind = intents'[i].kind] OBVIOUS
  <2>3. c.of = "charges" /\ c.kind = intents'[i].kind BY <2>1, <2>2 DEF CallRow
  <2>4. gateway = "stripe" => c.kind \in Payments!StripeMethodKinds BY <1>6, <2>3 DEF IntentsHold, IntentFits
  <2>5. gateway \in {"stripe", "omise", "mock"} BY DEF PayTyped
  <2>6. next \in Payments!NextActions(c, st) BY <1>1, <2>2
  <2>7. next # "none" => NextKnown(gateway, next) BY <2>4, <2>5, <2>6, NextTells
  <2>8. r.status = Payments!Status(st) /\ r.next = next BY <1>3, <2>1
  <2>9. r.status = "succeeded" => intents'[i].state \in Funded BY <2>5, <2>8, StatusTells
  <2>10. r.status = "refunded" /\ gateway # "mock" => intents'[i].state \in GaveBack BY <2>5, <2>8, StatusTells
  <2>. QED BY <2>7, <2>8, <2>9, <2>10 DEF AnswerTrue
<1>7. AnswerFits(gateway, r, intents') BY <1>3, <1>6 DEF AnswerFits
<1>. QED BY <1>4, <1>5, <1>7

\* Counting: what adds a source has a charge, a loss or a holder for it.
Covered(S, S2, C, C2, H, H2, l, l2, a) ==
    /\ IsFiniteSet(S) /\ IsFiniteSet(C) /\ IsFiniteSet(C2) /\ IsFiniteSet(H) /\ IsFiniteSet(H2)
    /\ C \subseteq C2 /\ l <= l2 /\ H \ {a} \subseteq H2 /\ Cardinality(S) <= Cardinality(C) + l + Cardinality(H)
    /\ \/ S2 = S /\ (a \notin H \/ l2 = l + 1 \/ \E n : n \notin C /\ C2 = C \cup {n})
       \/ a \notin H /\ (\E n : S2 = S \cup {n}) /\ (l2 = l + 1 \/ a \in H2)
\* Covered, in the numbers it is about.
LEMMA Counted ==
  ASSUME NEW S, NEW S2, NEW C, NEW C2, NEW H, NEW H2, NEW l \in Nat, NEW l2 \in Nat, NEW a, Covered(S, S2, C, C2, H, H2, l, l2, a)
  PROVE  Cardinality(S2) <= Cardinality(C2) + l2 + Cardinality(H2)
<1> USE DEF Covered
<1>1. Cardinality(S) \in Nat /\ Cardinality(C) \in Nat /\ Cardinality(C2) \in Nat /\ Cardinality(H) \in Nat /\ Cardinality(H2) \in Nat
  BY FS_CardinalityType
<1>2. Cardinality(C) <= Cardinality(C2) BY FS_Subset
<1>3. Cardinality(H \ {a}) \in Nat /\ Cardinality(H \ {a}) = (IF a \in H THEN Cardinality(H) - 1 ELSE Cardinality(H)) /\ IsFiniteSet(H \ {a})
  BY FS_RemoveElement, FS_CardinalityType
<1>4. Cardinality(H \ {a}) <= Cardinality(H2) BY <1>3, FS_Subset
<1>5. Cardinality(H) <= Cardinality(H2) + 1 /\ (a \notin H => Cardinality(H) <= Cardinality(H2)) BY <1>1, <1>3, <1>4
<1>6. CASE S2 = S /\ a \notin H BY <1>1, <1>2, <1>5, <1>6
<1>7. CASE S2 = S /\ l2 = l + 1 BY <1>1, <1>2, <1>5, <1>7
<1>8. CASE S2 = S /\ \E n : n \notin C /\ C2 = C \cup {n}
  <2>1. PICK n : n \notin C /\ C2 = C \cup {n} BY <1>8
  <2>2. Cardinality(C2) = Cardinality(C) + 1 BY <2>1, FS_AddElement
  <2>. QED BY <1>1, <1>5, <1>8, <2>2
<1>9. CASE a \notin H /\ (\E n : S2 = S \cup {n}) /\ (l2 = l + 1 \/ a \in H2)
  <2>1. PICK n : S2 = S \cup {n} BY <1>9
  <2>2. Cardinality(S2) \in Nat /\ Cardinality(S2) <= Cardinality(S) + 1
    <3>1. IsFiniteSet(S2) /\ Cardinality(S2) = IF n \in S THEN Cardinality(S) ELSE Cardinality(S) + 1 BY <2>1, FS_AddElement
    <3>2. Cardinality(S2) \in Nat BY <3>1, FS_CardinalityType
    <3>. QED BY <1>1, <3>1, <3>2
  <2>3. CASE l2 = l + 1 BY <1>1, <1>2, <1>5, <1>9, <2>2, <2>3
  <2>4. CASE a \in H2
    <3>1. H \subseteq H2 \ {a} BY <1>9
    <3>2. IsFiniteSet(H2 \ {a}) /\ Cardinality(H2 \ {a}) = Cardinality(H2) - 1 BY <2>4, FS_RemoveElement
    <3>3. Cardinality(H) <= Cardinality(H2 \ {a}) BY <3>1, <3>2, FS_Subset
    <3>4. Cardinality(H) <= Cardinality(H2) - 1 BY <3>2, <3>3
    <3>. QED BY <1>1, <1>2, <2>2, <3>4
  <2>. QED BY <1>9, <2>3, <2>4
<1>. QED BY <1>6, <1>7, <1>8, <1>9

\* What is held is finite, and its places are numbers.
LEMMA IntentsFinite ==
  ASSUME NEW g, NEW q, IntentsHold(g, q)
  PROVE  IsFiniteSet(SourcesOf(q)) /\ IsFiniteSet(ChargesOf(q)) /\ DOMAIN q = 1..Len(q) /\ Len(q) \in Nat /\ Moves(g, q, q)
<1>1. q \in Seq(IntentRow) BY DEF IntentsHold
<1>2. DOMAIN q = 1..Len(q) /\ Len(q) \in Nat BY <1>1
<1>3. IsFiniteSet(DOMAIN q) BY <1>2, FS_Interval
<1>4. IsFiniteSet(SourcesOf(q)) /\ IsFiniteSet(ChargesOf(q)) BY <1>3, FS_Subset DEF SourcesOf, ChargesOf
<1>5. Moves(g, q, q) BY DEF Moves, Became
<1>. QED BY <1>2, <1>4, <1>5

\* A step of one caller keeps the invariant when what it leaves the caller with fits, and the
\* count of sources is made up for.
LEMMA TurnKeeps ==
  ASSUME PayGiven, PayIInv, NEW a \in Payer, gateway' = gateway, order' = order, payLost' \in Nat, payLost <= payLost',
         IntentsHold(gateway, intents'), Moves(gateway, intents, intents'), customer' \in DOMAIN intents' \cup {0},
         NEW c, NEW p, NEW r, Turns(a, c, p, r), CallFits(gateway, c, p, intents'), AnswerFits(gateway, r, intents'),
         \/ /\ SourcesOf(intents') = SourcesOf(intents)
            /\ \/ a \notin Holders
               \/ payLost' = payLost + 1
               \/ \E n : n \notin ChargesOf(intents) /\ ChargesOf(intents') = ChargesOf(intents) \cup {n}
         \/ /\ a \notin Holders /\ \E n : SourcesOf(intents') = SourcesOf(intents) \cup {n}
            /\ payLost' = payLost + 1 \/ (c.of = "charges" /\ p = Payments!Do("make"))
  PROVE  PayIInv'
<1>1. PayTyped' BY DEF PayTyped, PayIInv, Turns
<1>2. IntentsHold(gateway, intents)' BY DEF IntentsHold, KeyedOnce, IntentFits
<1>3. CallersHold'
  <2>1. ASSUME NEW b \in Payer PROVE CallFits(gateway, payCall'[b], payLeft'[b], intents') /\ AnswerFits(gateway, payAnswer'[b], intents')
    <3>1. CASE b = a BY <3>1 DEF Turns
    <3>2. CASE b # a
      <4>1. payCall'[b] = payCall[b] /\ payLeft'[b] = payLeft[b] /\ payAnswer'[b] = payAnswer[b] BY <3>2 DEF Turns
      <4>2. CallFits(gateway, payCall[b], payLeft[b], intents) /\ AnswerFits(gateway, payAnswer[b], intents) BY DEF PayIInv, CallersHold
      <4>. QED BY <4>1, <4>2, MovesFit
    <3>. QED BY <3>1, <3>2
  <2>. QED BY <2>1 DEF CallersHold
<1>4. SourcesCounted'
  <2>1. IsFiniteSet(SourcesOf(intents)) /\ IsFiniteSet(ChargesOf(intents)) /\ IsFiniteSet(ChargesOf(intents'))
    BY IntentsFinite DEF PayIInv
  <2>2. ChargesOf(intents) \subseteq ChargesOf(intents') BY DEF ChargesOf, Moves, Became
  <2>3. PICK H : H = {b \in Payer : payCall'[b].of = "charges" /\ payLeft'[b] = Payments!Do("make")} OBVIOUS
  <2>4. Holders \ {a} \subseteq H BY <2>3 DEF Holders, Turns
  <2>5. c.of = "charges" /\ p = Payments!Do("make") => a \in H BY <2>3 DEF Turns
  <2>6. IsFiniteSet(Holders) /\ IsFiniteSet(H) BY <2>3, FS_Subset DEF Holders, PayGiven
  <2>7. payLost \in Nat /\ Cardinality(SourcesOf(intents)) <= Cardinality(ChargesOf(intents)) + payLost + Cardinality(Holders)
    BY DEF PayIInv, PayTyped, SourcesCounted
  <2>8. Cardinality(SourcesOf(intents')) <= Cardinality(ChargesOf(intents')) + payLost' + Cardinality(H)
    <3>1. \/ /\ SourcesOf(intents') = SourcesOf(intents)
             /\ a \notin Holders \/ payLost' = payLost + 1 \/ \E n : n \notin ChargesOf(intents) /\ ChargesOf(intents') = ChargesOf(intents) \cup {n}
          \/ a \notin Holders /\ (\E n : SourcesOf(intents') = SourcesOf(intents) \cup {n}) /\ (payLost' = payLost + 1 \/ a \in H)
      BY <2>5
    <3>2. PICK S, S2, C, C2, K : S = SourcesOf(intents) /\ S2 = SourcesOf(intents') /\ C = ChargesOf(intents) /\ C2 = ChargesOf(intents') /\ K = Holders
      OBVIOUS
    <3>3. PICK l \in Nat, l2 \in Nat : l = payLost /\ l2 = payLost' BY <2>7
    <3>4. Covered(S, S2, C, C2, K, H, l, l2, a) BY <2>1, <2>2, <2>4, <2>6, <2>7, <3>1, <3>2, <3>3 DEF Covered
    <3>5. Cardinality(S2) <= Cardinality(C2) + l2 + Cardinality(H) BY <3>4, Counted
    <3>. QED BY <3>2, <3>3, <3>5
  <2>. QED BY <2>3, <2>8 DEF SourcesCounted, Holders
<1>. QED BY <1>1, <1>2, <1>3, <1>4 DEF PayIInv

\* A request that fails, or whose answer is lost.
LEMMA FailKeeps ==
  ASSUME PayGiven, PayIInv, NEW a \in Payer, gateway' = gateway, order' = order, payLost' \in Nat, payLost <= payLost',
         IntentsHold(gateway, intents'), Moves(gateway, intents, intents'), Payments!Fails(a),
         \/ /\ SourcesOf(intents') = SourcesOf(intents)
            /\ \/ a \notin Holders
               \/ payLost' = payLost + 1
               \/ \E n : n \notin ChargesOf(intents) /\ ChargesOf(intents') = ChargesOf(intents) \cup {n}
         \/ a \notin Holders /\ (\E n : SourcesOf(intents') = SourcesOf(intents) \cup {n}) /\ payLost' = payLost + 1
  PROVE  PayIInv'
<1>0. PayTyped BY DEF PayIInv
<1>1. PICK r : Turns(a, Payments!NoCall, <<>>, r) /\ AnswerFits(gateway, r, intents') /\ customer' = customer BY <1>0, FailsTurns
<1>2. customer' \in DOMAIN intents' \cup {0} BY <1>0, <1>1 DEF PayTyped, Moves
<1>3. CallFits(gateway, Payments!NoCall, <<>>, intents') BY NoCallFits
<1>. QED BY <1>1, <1>2, <1>3, TurnKeeps

\* A request that was the last is answered.
LEMMA AnswerKeeps ==
  ASSUME PayGiven, PayIInv, NEW a \in Payer, gateway' = gateway, order' = order, payLost' = payLost,
         IntentsHold(gateway, intents'), Moves(gateway, intents, intents'),
         NEW i, NEW st, Payments!Answer(a, i, st), i \in DOMAIN intents', intents'[i].of = payCall[a].of,
         st \in {"taken", "partly"} => intents'[i].state \in Funded, st \in GaveBack => intents'[i].state \in GaveBack,
         SourcesOf(intents') = SourcesOf(intents),
         a \notin Holders \/ \E n : n \notin ChargesOf(intents) /\ ChargesOf(intents') = ChargesOf(intents) \cup {n}
  PROVE  PayIInv'
<1>0. PayTyped /\ payCall[a] \in CallRow /\ payLost \in Nat BY DEF PayIInv, PayTyped, CallersHold, CallFits
<1>1. PICK r : Turns(a, Payments!NoCall, <<>>, r) /\ AnswerFits(gateway, r, intents') /\ customer' \in DOMAIN intents' \cup {0}
  BY <1>0, AnswerTurns
<1>2. CallFits(gateway, Payments!NoCall, <<>>, intents') BY NoCallFits
<1>3. payLost' \in Nat /\ payLost <= payLost' BY <1>0
<1>. QED BY <1>1, <1>2, <1>3, TurnKeeps

\* The next request goes out.
GoesOn(a, i) == /\ payLeft' = [payLeft EXCEPT ![a] = Tail(@)] /\ payCall' = [payCall EXCEPT ![a].target = i]
                /\ payAnswer' = payAnswer /\ customer' = customer
\* The caller waits for it, about the object the last one was about.
LEMMA GoesOnKeeps ==
  ASSUME PayGiven, PayIInv, NEW a \in Payer, gateway' = gateway, order' = order, payLost' = payLost, payLeft[a] # <<>>,
         IntentsHold(gateway, intents'), Moves(gateway, intents, intents'),
         NEW i, GoesOn(a, i), i \in DOMAIN intents', Len(payLeft[a]) > 1,
         payLeft[a][1].does # "source" => intents'[i].of = payCall[a].of,
         \/ /\ SourcesOf(intents') = SourcesOf(intents)
            /\ a \notin Holders \/ \E n : n \notin ChargesOf(intents) /\ ChargesOf(intents') = ChargesOf(intents) \cup {n}
         \/ payLeft[a][1].does = "source" /\ \E n : SourcesOf(intents') = SourcesOf(intents) \cup {n}
  PROVE  PayIInv'
<1>0. PayTyped /\ payLost \in Nat /\ CallFits(gateway, payCall[a], payLeft[a], intents) /\ AnswerFits(gateway, payAnswer[a], intents)
  BY DEF PayIInv, PayTyped, CallersHold
<1>1. PICK c, p, r, d, u : c = payCall[a] /\ p = payLeft[a] /\ r = payAnswer[a] /\ d = [c EXCEPT !.target = i] /\ u = Tail(p) OBVIOUS
<1>2. Turns(a, d, u, r) BY <1>0, <1>1 DEF Turns, GoesOn, PayTyped
<1>3. i \in Nat BY IntentsFinite
<1>4. CallFits(gateway, d, u, intents') BY <1>0, <1>1, <1>3, TailFits
<1>5. AnswerFits(gateway, r, intents') BY <1>0, <1>1, MovesFit
<1>6. customer' \in DOMAIN intents' \cup {0} BY <1>0 DEF PayTyped, Moves, GoesOn
<1>7. Follows(gateway, p, c) /\ c \in CallRow BY <1>0, <1>1 DEF CallFits
<1>8. ASSUME p[1].does = "source" PROVE a \notin Holders /\ d.of = "charges" /\ u = Payments!Do("make")
  <2>1. c.of = "charges" /\ Tail(p) = Payments!Do("make") /\ p # Payments!Do("make") BY <1>7, <1>8, FollowsSource
  <2>3. d.of = c.of BY <1>1, <1>7 DEF CallRow
  <2>. QED BY <1>1, <2>1, <2>3 DEF Holders
<1>9. payLost' \in Nat /\ payLost <= payLost' BY <1>0
<1>10. CASE p[1].does = "source" /\ \E n : SourcesOf(intents') = SourcesOf(intents) \cup {n}
  BY <1>2, <1>4, <1>5, <1>6, <1>8, <1>9, <1>10, TurnKeeps
<1>11. CASE /\ SourcesOf(intents') = SourcesOf(intents)
            /\ a \notin Holders \/ \E n : n \notin ChargesOf(intents) /\ ChargesOf(intents') = ChargesOf(intents) \cup {n}
  BY <1>2, <1>4, <1>5, <1>6, <1>9, <1>11, TurnKeeps
<1>. QED BY <1>1, <1>10, <1>11

\* The provider makes an object.
Appended(g, q, n, o) ==
    /\ IntentsHold(g, n) /\ Moves(g, q, n) /\ Len(q) + 1 \in DOMAIN n /\ n[Len(q) + 1] = o /\ Len(q) + 1 \notin ChargesOf(q)
    /\ SourcesOf(n) = IF o.of = "sources" THEN SourcesOf(q) \cup {Len(q) + 1} ELSE SourcesOf(q)
    /\ ChargesOf(n) = IF o.of = "charges" THEN ChargesOf(q) \cup {Len(q) + 1} ELSE ChargesOf(q)
\* What a request makes joins what is held.
LEMMA AppendHolds ==
  ASSUME NEW g, NEW q, IntentsHold(g, q), NEW o \in IntentRow, IntentFits(g, o), NEW n, n = Append(q, o),
         o.keyed /\ Honours(g, o.of) => \A i \in DOMAIN q : ~(q[i].of = o.of /\ q[i].keyed)
  PROVE  Appended(g, q, n, o)
<1>1. q \in Seq(IntentRow) /\ DOMAIN q = 1..Len(q) /\ Len(q) \in Nat BY IntentsFinite DEF IntentsHold
<1>2. n \in Seq(IntentRow) /\ Len(n) = Len(q) + 1 /\ (\A i \in 1..Len(q) : n[i] = q[i]) /\ n[Len(q) + 1] = o BY <1>1, AppendProperties
<1>3. DOMAIN n = 1..(Len(q) + 1) BY <1>2
<1>4. DOMAIN n = DOMAIN q \cup {Len(q) + 1} /\ Len(q) + 1 \notin DOMAIN q BY <1>1, <1>3
<1>5. PICK m : m = Len(q) + 1 OBVIOUS
<1>6. DOMAIN n = DOMAIN q \cup {m} /\ m \notin DOMAIN q /\ n[m] = o /\ \A i \in DOMAIN q : n[i] = q[i] BY <1>1, <1>2, <1>4, <1>5
<1>7. Moves(g, q, n) BY <1>6 DEF Moves, Became
<1>8. KeyedOnce(g, n) BY <1>6 DEF IntentsHold, KeyedOnce
<1>9. \A i \in DOMAIN n : IntentFits(g, n[i]) BY <1>6 DEF IntentsHold
<1>10. SourcesOf(n) = IF o.of = "sources" THEN SourcesOf(q) \cup {m} ELSE SourcesOf(q)
  <2>1. CASE o.of = "sources" BY <1>6, <2>1 DEF SourcesOf
  <2>2. CASE o.of # "sources" BY <1>6, <2>2 DEF SourcesOf
  <2>. QED BY <2>1, <2>2
<1>11. ChargesOf(n) = IF o.of = "charges" THEN ChargesOf(q) \cup {m} ELSE ChargesOf(q)
  <2>1. CASE o.of = "charges" BY <1>6, <2>1 DEF ChargesOf
  <2>2. CASE o.of # "charges" BY <1>6, <2>2 DEF ChargesOf
  <2>. QED BY <2>1, <2>2
<1>12. m \notin ChargesOf(q) BY <1>6 DEF ChargesOf
<1>13. IntentsHold(g, n) BY <1>2, <1>8, <1>9 DEF IntentsHold
<1>. QED BY <1>5, <1>6, <1>7, <1>10, <1>11, <1>12, <1>13 DEF Appended

\* The provider changes one.
Changed(g, q, n, i, to) ==
    /\ IntentsHold(g, n) /\ Moves(g, q, n) /\ DOMAIN n = DOMAIN q /\ n[i].of = q[i].of /\ n[i].state = to
    /\ SourcesOf(n) = SourcesOf(q) /\ ChargesOf(n) = ChargesOf(q)
\* What a request finds changes where it is.
LEMMA ChangeHolds ==
  ASSUME NEW g, NEW q, IntentsHold(g, q), NEW i \in DOMAIN q, NEW to \in IntentState, NEW n, n = [q EXCEPT ![i].state = to],
         q[i].state \in Funded => to \in Funded, g # "mock" /\ q[i].state \in GaveBack => to \in GaveBack
  PROVE  Changed(g, q, n, i, to)
<1>1. q \in Seq(IntentRow) /\ DOMAIN q = 1..Len(q) /\ Len(q) \in Nat BY IntentsFinite DEF IntentsHold
<1>2. q[i] \in IntentRow BY <1>1
<1>3. PICK o : o = [q[i] EXCEPT !.state = to] OBVIOUS
<1>4. o \in IntentRow /\ o.of = q[i].of /\ o.keyed = q[i].keyed /\ o.kind = q[i].kind /\ o.first = q[i].first /\ o.state = to
  BY <1>2, <1>3 DEF IntentRow
<1>5. n = [q EXCEPT ![i] = o] BY <1>3
<1>6. DOMAIN n = DOMAIN q /\ n[i] = o /\ (\A j \in DOMAIN q : j # i => n[j] = q[j]) /\ n \in Seq(IntentRow) BY <1>1, <1>4, <1>5
<1>7. \A j \in DOMAIN q : n[j].of = q[j].of /\ n[j].keyed = q[j].keyed /\ n[j].kind = q[j].kind /\ n[j].first = q[j].first BY <1>4, <1>6
<1>8. \A j \in DOMAIN q : (q[j].state \in Funded => n[j].state \in Funded) /\ (g # "mock" /\ q[j].state \in GaveBack => n[j].state \in GaveBack)
  BY <1>4, <1>6
<1>9. Moves(g, q, n) BY <1>6, <1>7, <1>8 DEF Moves, Became
<1>10. SourcesOf(n) = SourcesOf(q) /\ ChargesOf(n) = ChargesOf(q) BY <1>6, <1>7 DEF SourcesOf, ChargesOf
<1>11. KeyedOnce(g, n) BY <1>6, <1>7 DEF IntentsHold, KeyedOnce
<1>12. \A j \in DOMAIN n : IntentFits(g, n[j]) BY <1>6, <1>7, <1>8 DEF IntentsHold, IntentFits
<1>. QED BY <1>4, <1>6, <1>9, <1>10, <1>11, <1>12 DEF IntentsHold, Changed

\* What is known of a caller that has a request to send.
LEMMA AboutToSend ==
  ASSUME PayIInv, NEW a \in Payer, payLeft[a] # <<>>
  PROVE  /\ payCall[a] \in CallRow /\ payCall[a].of \in AnyOf /\ Follows(gateway, payLeft[a], payCall[a])
         /\ Head(payLeft[a]) = payLeft[a][1]
         /\ \/ payLeft[a][1].does \in {"make", "source"}
            \/ payCall[a].target \in DOMAIN intents /\ (payLeft[a][1].does \in LastReads => intents[payCall[a].target].of = payCall[a].of)
         /\ payLeft[a][1].does # "make" \/ payLeft[a][1].keyed => a \notin Holders
<1>1. CallFits(gateway, payCall[a], payLeft[a], intents) BY DEF PayIInv, CallersHold
<1>2. PICK c, p : c = payCall[a] /\ p = payLeft[a] OBVIOUS
<1>3. c \in CallRow /\ c.of \in AnyOf /\ Follows(gateway, p, c) BY <1>1, <1>2 DEF CallFits
<1>4. Head(p) = p[1] BY <1>3, FollowsShape DEF Shaped
<1>5. p = Payments!Do("make") => p[1].does = "make" /\ p[1].keyed = FALSE
  <2>1. PICK no \in BOOLEAN : no = FALSE OBVIOUS
  <2>2. Payments!Do("make") = <<[does |-> "make", keyed |-> no]>> BY <2>1 DEF Payments!Do, Payments!Request
  <2>. QED BY <2>1, <2>2
<1>6. p[1].does # "make" \/ p[1].keyed => a \notin Holders BY <1>2, <1>5 DEF Holders
<1>. QED BY <1>1, <1>2, <1>3, <1>4, <1>6 DEF CallFits

\* A request that finds what was made with its key is answered with that.
LEMMA TwinKeeps ==
  ASSUME PayGiven, PayIInv, NEW a \in Payer, gateway' = gateway, order' = order, payLost' \in Nat, payLost <= payLost', payLeft[a] # <<>>,
         payLeft[a][1].does = "make", payLeft[a][1].keyed, intents' = intents,
         NEW i \in Payments!Twin(payCall[a]),
         \/ Payments!Fails(a)
         \/ payLost' = payLost /\ Len(payLeft[a]) > 1 /\ GoesOn(a, i)
         \/ payLost' = payLost /\ Payments!Answer(a, i, intents[i].first)
  PROVE  PayIInv'
<1>1. IntentsHold(gateway, intents') /\ Moves(gateway, intents, intents') /\ SourcesOf(intents') = SourcesOf(intents)
  <2>1. IntentsHold(gateway, intents) BY DEF PayIInv
  <2>. QED BY <2>1, IntentsFinite
<1>2. a \notin Holders BY AboutToSend
<1>3. i \in DOMAIN intents' /\ intents'[i].of = payCall[a].of BY DEF Payments!Twin
<1>4. intents[i].first \in FirstState
  <2>1. intents \in Seq(IntentRow) /\ i \in DOMAIN intents BY DEF PayIInv, IntentsHold, Payments!Twin
  <2>2. intents[i] \in IntentRow BY <2>1
  <2>. QED BY <2>2 DEF IntentRow
<1>5. intents[i].first \notin GaveBack /\ intents[i].first # "partly" BY <1>4 DEF FirstState, GaveBack
<1>6. CASE Payments!Fails(a) BY <1>1, <1>2, <1>6, FailKeeps
<1>7. CASE payLost' = payLost /\ Len(payLeft[a]) > 1 /\ GoesOn(a, i) BY <1>1, <1>2, <1>3, <1>7, GoesOnKeeps
<1>8. CASE payLost' = payLost /\ Payments!Answer(a, i, intents[i].first)
  <2>1. intents[i].first = "taken" => intents'[i].state \in Funded BY <1>3 DEF PayIInv, IntentsHold, IntentFits
  <2>. QED BY <1>1, <1>2, <1>3, <1>5, <1>8, <2>1, AnswerKeeps
<1>. QED BY <1>6, <1>7, <1>8

\* A request makes an object of its own.
LEMMA MakeKeeps ==
  ASSUME PayGiven, PayIInv, NEW a \in Payer, gateway' = gateway, order' = order, payLost' \in Nat, payLost <= payLost', payLeft[a] # <<>>,
         payLeft[a][1].does = "make",
         payLeft[a][1].keyed /\ payCall[a].key => Payments!Twin(payCall[a]) = {},
         NEW st \in Payments!Fresh(payCall[a]),
         intents' = Append(intents, [of |-> payCall[a].of, keyed |-> payCall[a].key, kind |-> payCall[a].kind, first |-> st, state |-> st]),
         \/ Payments!Fails(a)
         \/ payLost' = payLost /\ Len(payLeft[a]) > 1 /\ GoesOn(a, Len(intents) + 1)
         \/ payLost' = payLost /\ Payments!Answer(a, Len(intents) + 1, st)
  PROVE  PayIInv'
<1>1. payCall[a] \in CallRow /\ payCall[a].of \in AnyOf /\ Follows(gateway, payLeft[a], payCall[a]) BY AboutToSend
<1>2. PICK c, p, g, q, n : c = payCall[a] /\ p = payLeft[a] /\ g = gateway /\ q = intents /\ n = intents' OBVIOUS
<1>3. PICK o : o = [of |-> c.of, keyed |-> c.key, kind |-> c.kind, first |-> st, state |-> st] OBVIOUS
<1>4. st \in FirstState BY DEF Payments!Fresh, FirstState
<1>5. c \in CallRow /\ c.of \in AnyOf /\ Follows(g, p, c) /\ p[1].does = "make" BY <1>1, <1>2
<1>6. c.key \in BOOLEAN /\ c.kind \in KindName /\ c.of \in AnyOf /\ c.of # "sources" BY <1>5 DEF CallRow, AnyOf, KeyedOf
<1>7. o \in IntentRow /\ o.of = c.of /\ o.keyed = c.key /\ o.kind = c.kind /\ o.first = st /\ o.state = st
  BY <1>3, <1>4, <1>6 DEF IntentRow, IntentState
<1>8. MakeFits(g, c, p[1].keyed) BY <1>5, FollowsShape DEF Shaped
<1>9. IntentFits(g, o) BY <1>7, <1>8 DEF IntentFits, MakeFits, Funded
<1>10. IntentsHold(g, q) /\ n = Append(q, o) BY <1>2, <1>3 DEF PayIInv
<1>11. ASSUME o.keyed, Honours(g, o.of), NEW i \in DOMAIN q, q[i].of = o.of, q[i].keyed PROVE FALSE
  <2>1. c.key /\ p[1].keyed BY <1>7, <1>8, <1>11 DEF MakeFits
  <2>2. i \in Payments!Twin(payCall[a]) BY <1>2, <1>7, <1>11 DEF Payments!Twin
  <2>. QED BY <1>2, <2>1, <2>2
<1>12. /\ IntentsHold(g, n) /\ Moves(g, q, n) /\ Len(q) + 1 \in DOMAIN n /\ n[Len(q) + 1] = o /\ Len(q) + 1 \notin ChargesOf(q)
       /\ SourcesOf(n) = IF o.of = "sources" THEN SourcesOf(q) \cup {Len(q) + 1} ELSE SourcesOf(q)
       /\ ChargesOf(n) = IF o.of = "charges" THEN ChargesOf(q) \cup {Len(q) + 1} ELSE ChargesOf(q)
  <2>1. o.keyed /\ Honours(g, o.of) => \A i \in DOMAIN q : ~(q[i].of = o.of /\ q[i].keyed) BY <1>11
  <2>2. Appended(g, q, n, o) BY <1>7, <1>9, <1>10, <2>1, AppendHolds
  <2>. QED BY <2>2 DEF Appended
<1>13. SourcesOf(intents') = SourcesOf(intents) BY <1>2, <1>6, <1>7, <1>12
<1>14. a \notin Holders \/ \E m : m \notin ChargesOf(intents) /\ ChargesOf(intents') = ChargesOf(intents) \cup {m}
  <2>1. CASE c.of = "charges" BY <1>2, <1>7, <1>12, <2>1
  <2>2. CASE c.of # "charges" BY <1>2, <2>2 DEF Holders
  <2>. QED BY <2>1, <2>2
<1>15. IntentsHold(gateway, intents') /\ Moves(gateway, intents, intents') BY <1>2, <1>12
<1>16. Len(intents) + 1 \in DOMAIN intents' /\ intents'[Len(intents) + 1].of = payCall[a].of /\ intents'[Len(intents) + 1].state = st
  BY <1>2, <1>7, <1>12
<1>17. CASE Payments!Fails(a) BY <1>13, <1>14, <1>15, <1>17, FailKeeps
<1>18. PICK i : i = Len(intents) + 1 OBVIOUS
<1>19. CASE payLost' = payLost /\ Len(payLeft[a]) > 1 /\ GoesOn(a, Len(intents) + 1)
  BY <1>13, <1>14, <1>15, <1>16, <1>18, <1>19, GoesOnKeeps
<1>20. CASE payLost' = payLost /\ Payments!Answer(a, Len(intents) + 1, st)
  <2>1. st \in {"taken", "partly"} => intents'[i].state \in Funded BY <1>16, <1>18 DEF Funded
  <2>2. st \in GaveBack => intents'[i].state \in GaveBack BY <1>16, <1>18
  <2>3. Payments!Answer(a, i, st) /\ payLost' = payLost /\ i \in DOMAIN intents' /\ intents'[i].of = payCall[a].of BY <1>16, <1>18, <1>20
  <2>. QED BY <1>13, <1>14, <1>15, <2>1, <2>2, <2>3, AnswerKeeps
<1>. QED BY <1>17, <1>19, <1>20

\* A source is taken before the charge.
LEMMA SourceKeeps ==
  ASSUME PayGiven, PayIInv, NEW a \in Payer, gateway' = gateway, order' = order, payLost' \in Nat, payLost <= payLost', payLeft[a] # <<>>,
         payLeft[a][1].does = "source",
         intents' = Append(intents, [of |-> "sources", keyed |-> FALSE, kind |-> payCall[a].kind, first |-> "live", state |-> "live"]),
         \/ payLost' = payLost + 1 /\ Payments!Fails(a)
         \/ payLost' = payLost /\ GoesOn(a, Len(intents) + 1)
  PROVE  PayIInv'
<1>1. payCall[a] \in CallRow /\ Follows(gateway, payLeft[a], payCall[a]) /\ a \notin Holders BY AboutToSend
<1>2. PICK c, p, g, q, n : c = payCall[a] /\ p = payLeft[a] /\ g = gateway /\ q = intents /\ n = intents' OBVIOUS
<1>3. PICK no \in BOOLEAN : no = FALSE OBVIOUS
<1>4. PICK o : o = [of |-> "sources", keyed |-> no, kind |-> c.kind, first |-> "live", state |-> "live"] OBVIOUS
<1>5. c.kind \in KindName BY <1>1, <1>2 DEF CallRow
<1>6. o \in IntentRow /\ o.of = "sources" /\ o.keyed = no /\ o.first = "live" BY <1>4, <1>5 DEF IntentRow, IntentState, FirstState
<1>7. IntentFits(g, o) BY <1>6 DEF IntentFits
<1>8. IntentsHold(g, q) /\ n = Append(q, o) BY <1>2, <1>3, <1>4 DEF PayIInv
<1>9. ~o.keyed BY <1>3, <1>6
<1>10. /\ IntentsHold(g, n) /\ Moves(g, q, n) /\ Len(q) + 1 \in DOMAIN n
       /\ SourcesOf(n) = IF o.of = "sources" THEN SourcesOf(q) \cup {Len(q) + 1} ELSE SourcesOf(q)
  <2>1. Appended(g, q, n, o) BY <1>6, <1>7, <1>8, <1>9, AppendHolds
  <2>. QED BY <2>1 DEF Appended
<1>11. \E m : SourcesOf(intents') = SourcesOf(intents) \cup {m} BY <1>2, <1>6, <1>10
<1>12. IntentsHold(gateway, intents') /\ Moves(gateway, intents, intents') /\ Len(intents) + 1 \in DOMAIN intents' BY <1>2, <1>10
<1>13. Len(payLeft[a]) > 1
  <2>1. Len(p) = 2 BY <1>1, <1>2, FollowsSource
  <2>. QED BY <1>2, <2>1
<1>14. CASE payLost' = payLost + 1 /\ Payments!Fails(a) BY <1>1, <1>11, <1>12, <1>14, FailKeeps
<1>15. PICK i : i = Len(intents) + 1 OBVIOUS
<1>16. CASE payLost' = payLost /\ GoesOn(a, Len(intents) + 1) BY <1>11, <1>12, <1>13, <1>15, <1>16, GoesOnKeeps
<1>. QED BY <1>14, <1>16

\* A read that waits on the request before it, of the object that one was about.
LEMMA LastReadKeeps ==
  ASSUME PayGiven, PayIInv, NEW a \in Payer, gateway' = gateway, order' = order, payLost' \in Nat, payLost <= payLost', payLeft[a] # <<>>,
         payLeft[a][1].does \in LastReads, intents' = intents,
         \/ Payments!Fails(a)
         \/ payLost' = payLost /\ Payments!Answer(a, payCall[a].target, intents[payCall[a].target].state)
  PROVE  PayIInv'
<1>1. a \notin Holders /\ payCall[a].target \in DOMAIN intents /\ intents[payCall[a].target].of = payCall[a].of
  BY AboutToSend DEF LastReads
<1>2. IntentsHold(gateway, intents') /\ Moves(gateway, intents, intents') /\ SourcesOf(intents') = SourcesOf(intents)
  <2>1. IntentsHold(gateway, intents) BY DEF PayIInv
  <2>. QED BY <2>1, IntentsFinite
<1>3. CASE Payments!Fails(a) BY <1>1, <1>2, <1>3, FailKeeps
<1>4. CASE payLost' = payLost /\ Payments!Answer(a, payCall[a].target, intents[payCall[a].target].state)
  <2>1. PICK i, st : i = payCall[a].target /\ st = intents[i].state OBVIOUS
  <2>2. payLost' = payLost /\ Payments!Answer(a, i, st) /\ i \in DOMAIN intents' /\ intents'[i].of = payCall[a].of /\ intents'[i].state = st
    BY <1>1, <1>4, <2>1
  <2>3. st \in {"taken", "partly"} => intents'[i].state \in Funded BY <2>2 DEF Funded
  <2>4. st \in GaveBack => intents'[i].state \in GaveBack BY <2>2
  <2>. QED BY <1>1, <1>2, <2>2, <2>3, <2>4, AnswerKeeps
<1>. QED BY <1>3, <1>4

\* A request about an object that is in a state for it.
LEMMA ChangeKeeps ==
  ASSUME PayGiven, PayIInv, NEW a \in Payer, gateway' = gateway, order' = order, payLost' \in Nat, payLost <= payLost', payLeft[a] # <<>>,
         payLeft[a][1].does \notin {"make", "source"} \cup LastReads,
         NEW i, i = payCall[a].target, intents[i].of = payCall[a].of, intents[i].state \in Payments!Effect(payLeft[a][1].does).from,
         NEW to, to = IF Payments!Effect(payLeft[a][1].does).to = "same" THEN intents[i].state ELSE Payments!Effect(payLeft[a][1].does).to,
         intents' = [intents EXCEPT ![i].state = to],
         \/ Payments!Fails(a)
         \/ payLost' = payLost /\ Len(payLeft[a]) > 1 /\ GoesOn(a, i)
         \/ payLost' = payLost /\ Payments!Answer(a, i, intents'[i].state)
  PROVE  PayIInv'
<1>1. Follows(gateway, payLeft[a], payCall[a]) /\ a \notin Holders /\ i \in DOMAIN intents BY AboutToSend
<1>2. PICK c, p, g, q, n : c = payCall[a] /\ p = payLeft[a] /\ g = gateway /\ q = intents /\ n = intents' OBVIOUS
<1>3. p[1].does \in Plain \/ (g = "mock" /\ p[1].does \in Settling)
  <2>1. p[1].does \in Plain \cup LastReads \cup {"make", "source"} \/ (g = "mock" /\ p[1].does \in Settling) BY <1>1, <1>2, FollowsShape DEF Shaped
  <2>. QED BY <1>2, <2>1
<1>4. PICK does : does = p[1].does OBVIOUS
<1>5. does \in Plain \cup Settling /\ q[i].state \in Payments!Effect(does).from
      /\ to = IF Payments!Effect(does).to = "same" THEN q[i].state ELSE Payments!Effect(does).to
  BY <1>2, <1>3, <1>4
<1>6. /\ to \in IntentState /\ (q[i].state \in Funded => to \in Funded)
      /\ does \in Plain /\ q[i].state \in GaveBack => to \in GaveBack
  BY <1>5, EffectKeeps
<1>7. g # "mock" /\ q[i].state \in GaveBack => to \in GaveBack BY <1>3, <1>4, <1>6
<1>8. IntentsHold(g, q) /\ i \in DOMAIN q /\ n = [q EXCEPT ![i].state = to] BY <1>1, <1>2 DEF PayIInv
<1>9. /\ IntentsHold(g, n) /\ Moves(g, q, n) /\ DOMAIN n = DOMAIN q /\ n[i].of = q[i].of /\ n[i].state = to
      /\ SourcesOf(n) = SourcesOf(q) /\ ChargesOf(n) = ChargesOf(q)
  <2>1. Changed(g, q, n, i, to) BY <1>6, <1>7, <1>8, ChangeHolds
  <2>. QED BY <2>1 DEF Changed
<1>10. /\ IntentsHold(gateway, intents') /\ Moves(gateway, intents, intents') /\ i \in DOMAIN intents' /\ intents'[i].of = payCall[a].of
       /\ SourcesOf(intents') = SourcesOf(intents) /\ intents'[i].state = to
  BY <1>2, <1>8, <1>9
<1>11. CASE Payments!Fails(a) BY <1>1, <1>10, <1>11, FailKeeps
<1>12. CASE payLost' = payLost /\ Len(payLeft[a]) > 1 /\ GoesOn(a, i) BY <1>1, <1>10, <1>12, GoesOnKeeps
<1>13. CASE payLost' = payLost /\ Payments!Answer(a, i, intents'[i].state)
  <2>1. to \in {"taken", "partly"} => intents'[i].state \in Funded BY <1>10 DEF Funded
  <2>. QED BY <1>1, <1>10, <1>13, <2>1, AnswerKeeps, Zenon
<1>. QED BY <1>11, <1>12, <1>13

\* A request is served, whatever it is.
LEMMA ServeKeeps ==
  ASSUME PayGiven, PayIInv, NEW a \in Payer, NEW reply \in BOOLEAN, payLeft[a] # <<>>, Payments!Serve(a, reply),
         gateway' = gateway, order' = order, payLost' \in Nat, payLost <= payLost',
         reply => payLost' = payLost, ~reply => payLost' = payLost + 1
  PROVE  PayIInv'
<1> DEFINE c == payCall[a]
           r == Head(payLeft[a])
           rest == Len(payLeft[a]) > 1
           twins == IF r.keyed /\ c.key THEN Payments!Twin(c) ELSE {}
           Found ==
         /\ UNCHANGED intents
         /\ LET i == CHOOSE i \in twins : TRUE IN
            IF reply /\ intents[i].first # "declined" THEN Payments!Goes(a, i, intents[i].first, rest /\ intents[i].first = "taken")
            ELSE Payments!Fails(a)
           Makes ==
         /\ Len(intents) < MaxIntents
         /\ \E s \in Payments!Fresh(c) :
              /\ intents' = Append(intents, [of |-> c.of, keyed |-> c.key, kind |-> c.kind, first |-> s, state |-> s])
              /\ IF reply /\ ~(gateway = "stripe" /\ s = "declined") THEN Payments!Goes(a, Len(intents) + 1, s, rest /\ s = "taken")
                 ELSE Payments!Fails(a)
           Sources ==
         /\ Len(intents) < MaxIntents
         /\ intents' = Append(intents, [of |-> "sources", keyed |-> FALSE, kind |-> c.kind, first |-> "live", state |-> "live"])
         /\ IF reply THEN Payments!Goes(a, Len(intents) + 1, "live", TRUE) ELSE Payments!Fails(a)
           Reads ==
         UNCHANGED intents /\ IF reply THEN Payments!Answer(a, c.target, intents[c.target].state) ELSE Payments!Fails(a)
           Changes ==
         IF c.of \in {"charges", "customers", "subscriptions", "links"} /\ intents[c.target].of = c.of
            /\ intents[c.target].state \in Payments!Effect(r.does).from
            /\ ~(gateway = "stripe" /\ intents[c.target].state = "awaiting")
         THEN /\ intents' = [intents EXCEPT ![c.target].state = IF Payments!Effect(r.does).to = "same" THEN @ ELSE Payments!Effect(r.does).to]
              /\ IF reply THEN \E again \in (IF rest THEN (IF payLeft[a][2].does = "change" THEN {TRUE} ELSE BOOLEAN) ELSE {FALSE}) :
                                 Payments!Goes(a, c.target, intents'[c.target].state, again)
                 ELSE Payments!Fails(a)
         ELSE UNCHANGED intents /\ Payments!Fails(a)
<1>1. (CASE r.does = "make" /\ twins # {} -> Found
        [] r.does = "make" /\ twins = {} -> Makes
        [] r.does = "source" -> Sources
        [] r.does \in {"readIfSettled", "readIfUnanswered"} -> Reads
        [] OTHER -> Changes)
  BY Zenon DEF Payments!Serve
<1>2. r = payLeft[a][1] /\ payCall[a] \in CallRow BY AboutToSend
<1> HIDE DEF Found, Makes, Sources, Reads, Changes
<1>3. PICK does : does = r.does OBVIOUS
<1>4. /\ does = "make" /\ twins # {} => Found
      /\ does = "make" /\ twins = {} => Makes
      /\ does = "source" => Sources
      /\ does \in LastReads => Reads
      /\ does \notin {"make", "source"} \cup LastReads => Changes
  BY <1>1, <1>3 DEF LastReads
<1>5. CASE does = "make" /\ twins # {}
  <2>1. Found BY <1>4, <1>5
  <2>2. PICK i : i = CHOOSE j \in twins : TRUE OBVIOUS
  <2>3. i \in twins BY <1>5, <2>2
  <2>4. payLeft[a][1].keyed /\ i \in Payments!Twin(payCall[a]) /\ payLeft[a][1].does = "make" BY <1>2, <1>3, <1>5, <2>3
  <2>5. /\ intents' = intents
        /\ IF reply /\ intents[i].first # "declined" THEN Payments!Goes(a, i, intents[i].first, rest /\ intents[i].first = "taken")
           ELSE Payments!Fails(a)
    BY <2>1, <2>2, Zenon DEF Found
  <2>6. \/ Payments!Fails(a)
        \/ reply /\ rest /\ GoesOn(a, i)
        \/ reply /\ Payments!Answer(a, i, intents[i].first)
    <3>1. CASE ~(reply /\ intents[i].first # "declined")
      <4>1. Payments!Fails(a) BY <2>5, <3>1, Zenon
      <4>. QED BY <4>1, Zenon
    <3>2. CASE reply /\ intents[i].first # "declined"
      <4>1. Payments!Goes(a, i, intents[i].first, rest /\ intents[i].first = "taken") BY <2>5, <3>2, Zenon
      <4>2. CASE rest /\ intents[i].first = "taken"
        <5>1. GoesOn(a, i) BY <4>1, <4>2, Zenon DEF Payments!Goes, GoesOn
        <5>. QED BY <3>2, <4>2, <5>1, Zenon
      <4>3. CASE ~(rest /\ intents[i].first = "taken")
        <5>1. Payments!Answer(a, i, intents[i].first) BY <4>1, <4>3, Zenon DEF Payments!Goes
        <5>. QED BY <3>2, <5>1, Zenon
      <4>. QED BY <4>2, <4>3
    <3>. QED BY <3>1, <3>2
  <2>. QED BY <2>4, <2>5, <2>6, TwinKeeps
<1>6. CASE does = "make" /\ twins = {}
  <2>1. Makes BY <1>4, <1>6
  <2>2. PICK s \in Payments!Fresh(c) :
              /\ intents' = Append(intents, [of |-> c.of, keyed |-> c.key, kind |-> c.kind, first |-> s, state |-> s])
              /\ IF reply /\ ~(gateway = "stripe" /\ s = "declined") THEN Payments!Goes(a, Len(intents) + 1, s, rest /\ s = "taken")
                 ELSE Payments!Fails(a)
    BY <2>1, Zenon DEF Makes
  <2>3. \/ Payments!Fails(a)
        \/ reply /\ rest /\ GoesOn(a, Len(intents) + 1)
        \/ reply /\ Payments!Answer(a, Len(intents) + 1, s)
    <3>1. CASE ~(reply /\ ~(gateway = "stripe" /\ s = "declined"))
      <4>1. Payments!Fails(a) BY <2>2, <3>1, Zenon
      <4>. QED BY <4>1, Zenon
    <3>2. CASE reply /\ ~(gateway = "stripe" /\ s = "declined")
      <4>1. Payments!Goes(a, Len(intents) + 1, s, rest /\ s = "taken") BY <2>2, <3>2, Zenon
      <4>2. CASE rest /\ s = "taken"
        <5>1. GoesOn(a, Len(intents) + 1) BY <4>1, <4>2, Zenon DEF Payments!Goes, GoesOn
        <5>. QED BY <3>2, <4>2, <5>1, Zenon
      <4>3. CASE ~(rest /\ s = "taken")
        <5>1. Payments!Answer(a, Len(intents) + 1, s) BY <4>1, <4>3, Zenon DEF Payments!Goes
        <5>. QED BY <3>2, <5>1, Zenon
      <4>. QED BY <4>2, <4>3
    <3>. QED BY <3>1, <3>2
  <2>4. payLeft[a][1].keyed /\ payCall[a].key => Payments!Twin(payCall[a]) = {} BY <1>2, <1>6
  <2>5. payLeft[a][1].does = "make" BY <1>2, <1>3, <1>6
  <2>. QED BY <2>2, <2>3, <2>4, <2>5, MakeKeeps
<1>7. CASE does = "source"
  <2>1. Sources BY <1>4, <1>7
  <2>2. intents' = Append(intents, [of |-> "sources", keyed |-> FALSE, kind |-> payCall[a].kind, first |-> "live", state |-> "live"]) BY <2>1 DEF Sources
  <2>3. IF reply THEN Payments!Goes(a, Len(intents) + 1, "live", TRUE) ELSE Payments!Fails(a) BY <2>1, Zenon DEF Sources
  <2>4. (~reply /\ Payments!Fails(a)) \/ (reply /\ GoesOn(a, Len(intents) + 1)) BY <2>3, Zenon DEF Payments!Goes, GoesOn
  <2>5. payLeft[a][1].does = "source" BY <1>2, <1>3, <1>7
  <2>. QED BY <2>2, <2>4, <2>5, SourceKeeps
<1>8. CASE does \in LastReads
  <2>1. Reads BY <1>4, <1>8
  <2>2. intents' = intents /\ IF reply THEN Payments!Answer(a, c.target, intents[c.target].state) ELSE Payments!Fails(a) BY <2>1, Zenon DEF Reads
  <2>3. payLeft[a][1].does \in LastReads BY <1>2, <1>3, <1>8
  <2>. QED BY <2>2, <2>3, LastReadKeeps
<1>9. CASE does \notin {"make", "source"} \cup LastReads
  <2>1. Changes BY <1>4, <1>9
  <2>2. payLeft[a][1].does \notin {"make", "source"} \cup LastReads /\ r.does = payLeft[a][1].does BY <1>2, <1>3, <1>9
  <2> DEFINE Ready == /\ c.of \in {"charges", "customers", "subscriptions", "links"} /\ intents[c.target].of = c.of
                      /\ intents[c.target].state \in Payments!Effect(r.does).from
                      /\ ~(gateway = "stripe" /\ intents[c.target].state = "awaiting")
  <2>3. CASE Ready
    <3>1. /\ intents' = [intents EXCEPT ![c.target].state = IF Payments!Effect(r.does).to = "same" THEN @ ELSE Payments!Effect(r.does).to]
          /\ IF reply THEN \E again \in (IF rest THEN (IF payLeft[a][2].does = "change" THEN {TRUE} ELSE BOOLEAN) ELSE {FALSE}) :
                                 Payments!Goes(a, c.target, intents'[c.target].state, again)
                 ELSE Payments!Fails(a)
      BY <2>1, <2>3, Zenon DEF Changes
    <3>2. PICK i, to : i = payCall[a].target /\ to = IF Payments!Effect(payLeft[a][1].does).to = "same" THEN intents[i].state ELSE Payments!Effect(payLeft[a][1].does).to
      OBVIOUS
    <3>3. intents' = [intents EXCEPT ![i].state = to]
      <4>1. i \in DOMAIN intents BY <2>2, <3>2, AboutToSend
      <4>. QED BY <2>2, <3>1, <3>2, <4>1
    <3>4. ASSUME reply PROVE (rest /\ GoesOn(a, i)) \/ Payments!Answer(a, i, intents'[i].state)
      <4>1. PICK again \in (IF rest THEN (IF payLeft[a][2].does = "change" THEN {TRUE} ELSE BOOLEAN) ELSE {FALSE}) :
              Payments!Goes(a, c.target, intents'[c.target].state, again)
        BY <3>1, <3>4, Zenon
      <4>2. (again = TRUE /\ rest) \/ again = FALSE BY <4>1, Zenon
      <4>3. CASE again = TRUE /\ rest
        <5>1. GoesOn(a, c.target) BY <4>1, <4>3, Zenon DEF Payments!Goes, GoesOn
        <5>. QED BY <3>2, <4>3, <5>1
      <4>4. CASE again = FALSE
        <5>1. Payments!Answer(a, c.target, intents'[c.target].state) BY <4>1, <4>4, Zenon DEF Payments!Goes
        <5>. QED BY <3>2, <5>1, Zenon
      <4>. QED BY <4>2, <4>3, <4>4
    <3>5. \/ Payments!Fails(a)
          \/ payLost' = payLost /\ Len(payLeft[a]) > 1 /\ GoesOn(a, i)
          \/ payLost' = payLost /\ Payments!Answer(a, i, intents'[i].state)
      <4>1. CASE reply BY <3>4, <4>1
      <4>2. CASE ~reply BY <3>1, <4>2, Zenon
      <4>. QED BY <4>1, <4>2
    <3>6. intents[i].of = payCall[a].of /\ intents[i].state \in Payments!Effect(payLeft[a][1].does).from BY <2>2, <2>3, <3>2
    <3>. QED BY <2>2, <3>2, <3>3, <3>5, <3>6, ChangeKeeps
  <2>4. CASE ~Ready
    <3>1. intents' = intents /\ Payments!Fails(a) BY <2>1, <2>4, Zenon DEF Changes
    <3>2. a \notin Holders BY <2>2, AboutToSend
    <3>3. IntentsHold(gateway, intents) BY DEF PayIInv
    <3>4. IntentsHold(gateway, intents') /\ Moves(gateway, intents, intents') /\ SourcesOf(intents') = SourcesOf(intents)
      BY <3>1, <3>3, IntentsFinite
    <3>. QED BY <3>1, <3>2, <3>4, FailKeeps
  <2>. QED BY <2>3, <2>4
<1>. QED BY <1>5, <1>6, <1>7, <1>8, <1>9

\* A call starts with a plan for it, or is refused.
LEMMA StartKeepsPay ==
  ASSUME PayGiven, PayIInv, NEW a \in Payer, NEW c, NEW p, payCall[a].of = "none", c \in CallRow, c.of \in AnyOf,
         p = Payments!Refuse \/ Follows(gateway, p, c),
         p = Payments!Refuse \/ p[1].does \in {"make", "source"} \/ (c.target \in DOMAIN intents /\ p[1].does \notin LastReads),
         Payments!Start(a, c, p)
  PROVE  PayIInv'
<1>1. /\ gateway' = gateway /\ order' = order /\ intents' = intents /\ customer' = customer /\ payLost' = payLost
      /\ IF p = Payments!Refuse
         THEN payAnswer' = [payAnswer EXCEPT ![a] = [Payments!Nothing EXCEPT !.is = "unsupported", !.status = c.op]] /\ UNCHANGED <<payCall, payLeft>>
         ELSE /\ payCall' = [payCall EXCEPT ![a] = c] /\ payLeft' = [payLeft EXCEPT ![a] = p]
              /\ payAnswer' = [payAnswer EXCEPT ![a] = Payments!Nothing]
  BY Zenon DEF Payments!Start
<1>2. PayTyped /\ payLost \in Nat /\ customer \in DOMAIN intents \cup {0} /\ IntentsHold(gateway, intents) BY DEF PayIInv, PayTyped
<1>3. IntentsHold(gateway, intents') /\ Moves(gateway, intents, intents') /\ SourcesOf(intents') = SourcesOf(intents)
      /\ customer' \in DOMAIN intents' \cup {0} /\ payLost' \in Nat /\ payLost <= payLost'
  BY <1>1, <1>2, IntentsFinite
<1>4. a \notin Holders BY DEF Holders
<1>5. CASE p = Payments!Refuse
  <2>1. PICK r : r = [Payments!Nothing EXCEPT !.is = "unsupported", !.status = c.op] OBVIOUS
  <2>2. payAnswer' = [payAnswer EXCEPT ![a] = r] /\ payCall' = payCall /\ payLeft' = payLeft BY <1>1, <1>5, <2>1
  <2>3. Turns(a, payCall[a], payLeft[a], r) BY <1>2, <2>2 DEF Turns, PayTyped
  <2>4. r.is = "unsupported" BY <2>1 DEF Payments!Nothing
  <2>5. AnswerFits(gateway, r, intents') BY <2>4 DEF AnswerFits
  <2>6. CallFits(gateway, payCall[a], payLeft[a], intents') BY <1>1 DEF PayIInv, CallersHold
  <2>. QED BY <1>1, <1>3, <1>4, <2>3, <2>5, <2>6, TurnKeeps
<1>6. CASE p # Payments!Refuse
  <2>1. PICK r : r = Payments!Nothing OBVIOUS
  <2>2. payAnswer' = [payAnswer EXCEPT ![a] = r] /\ payCall' = [payCall EXCEPT ![a] = c] /\ payLeft' = [payLeft EXCEPT ![a] = p] BY <1>1, <1>6, <2>1
  <2>3. Turns(a, c, p, r) BY <1>2, <2>2 DEF Turns, PayTyped
  <2>4. r.is = "none" BY <2>1 DEF Payments!Nothing
  <2>5. AnswerFits(gateway, r, intents') BY <2>4 DEF AnswerFits
  <2>6. CallFits(gateway, c, p, intents') BY <1>1, <1>6 DEF CallFits
  <2>. QED BY <1>1, <1>3, <1>4, <2>3, <2>5, <2>6, TurnKeeps
<1>. QED BY <1>5, <1>6

\* The order is sent, or its customer read.
LEMMA OrderKeeps == ASSUME PayGiven, PayIInv, NEW a \in Payer, Payments!Order(a) PROVE PayIInv'
<1>1. PayTyped /\ gateway \in {"stripe", "omise", "mock"} /\ Usual(order) /\ order.op = "create" /\ order.of \in KeyedOf /\ customer \in DOMAIN intents \cup {0}
  BY DEF PayIInv, PayTyped
<1>2. PICK yes \in BOOLEAN : yes = TRUE OBVIOUS
<1>3. PICK c : c = [order EXCEPT !.key = yes] OBVIOUS
<1>4. payCall[a] = Payments!NoCall BY DEF Payments!Order, Payments!Idle
<1>5. payCall[a].of = "none" BY <1>4, NoCallFits
<1>6. IF "billable" \in c.with /\ customer # 0
      THEN Payments!Start(a, [c EXCEPT !.op = "retrieve", !.target = customer], Payments!Do("read"))
      ELSE Payments!Start(a, c, Payments!Plan(c))
  <2>1. c = [order EXCEPT !.key = TRUE] BY <1>2, <1>3
  <2>. QED BY <2>1, Zenon DEF Payments!Order
<1>7. order \in CallRow BY <1>1 DEF Usual
<1>8. c \in CallRow /\ c.of = order.of /\ c.op = order.op /\ c.kind = order.kind BY <1>3, <1>7 DEF CallRow
<1>9. Usual(c) /\ c.of \in AnyOf BY <1>1, <1>8 DEF Usual, AnyOf
<1>10. CASE "billable" \in c.with /\ customer # 0
  <2>1. PICK d, p : d = [c EXCEPT !.op = "retrieve", !.target = customer] /\ p = Payments!Do("read") OBVIOUS
  <2>2. customer \in DOMAIN intents /\ customer \in Nat
    <3>1. IntentsHold(gateway, intents) BY DEF PayIInv
    <3>. QED BY <1>1, <1>10, <3>1, IntentsFinite
  <2>3. d \in CallRow /\ d.of = c.of /\ d.target = customer BY <1>8, <2>1, <2>2 DEF CallRow, OpName
  <2>4. Payments!Start(a, d, p) BY <1>6, <1>10, <2>1
  <2>5. Follows(gateway, p, d) /\ p[1].does \notin LastReads
    <3>1. PICK no \in BOOLEAN : no = FALSE OBVIOUS
    <3>2. p = <<[does |-> "read", keyed |-> no]>> BY <2>1, <3>1 DEF Payments!Do, Payments!Request
    <3>3. "read" \in Plain BY DEF Plain
    <3>4. Follows(gateway, p, d) BY <3>2, <3>3 DEF Follows
    <3>5. p[1].does = "read" BY <3>2
    <3>. QED BY <3>4, <3>5 DEF LastReads
  <2>. QED BY <1>5, <1>9, <2>2, <2>3, <2>4, <2>5, StartKeepsPay
<1>11. CASE ~("billable" \in c.with /\ customer # 0)
  <2>1. PICK p : p = Payments!Plan(c) OBVIOUS
  <2>2. Payments!Start(a, c, p) BY <1>6, <1>11, <2>1
  <2>3. p = Payments!Refuse \/ (Follows(gateway, p, c) /\ p[1].does \in {"make", "source"})
    <3>1. \/ Payments!Plan(c) = Payments!Refuse
          \/ /\ Follows(gateway, Payments!Plan(c), c)
             /\ c.op = "create" => Payments!Plan(c)[1].does \in {"make", "source"}
      BY <1>1, <1>9, PlanKnown
    <3>. QED BY <1>1, <1>8, <2>1, <3>1
  <2>. QED BY <1>5, <1>8, <1>9, <2>2, <2>3, StartKeepsPay
<1>. QED BY <1>10, <1>11

\* A call on what was made.
LEMMA UseKeeps ==
  ASSUME PayGiven, PayIInv, NEW a \in Payer, NEW c \in Payments!OtherCalls, NEW i \in DOMAIN intents, Payments!Use(a, c, i)
  PROVE  PayIInv'
<1>1. gateway \in {"stripe", "omise", "mock"} BY DEF PayIInv, PayTyped
<1>2. Usual(c) BY AllUsual
<1>3. c \in CallRow /\ c.of \in AnyOf BY <1>2 DEF Usual, CallRow
<1>4. payCall[a] = Payments!NoCall BY DEF Payments!Use, Payments!Idle
<1>5. payCall[a].of = "none" BY <1>4, NoCallFits
<1>6. PICK d, p : d = [c EXCEPT !.target = i] /\ p = Payments!Plan(c) OBVIOUS
<1>7. Payments!Start(a, d, p) BY <1>6, Zenon DEF Payments!Use
<1>8. i \in Nat
  <2>1. IntentsHold(gateway, intents) BY DEF PayIInv
  <2>. QED BY <2>1, IntentsFinite
<1>9. d \in CallRow /\ d.of = c.of /\ d.key = c.key /\ d.kind = c.kind /\ d.target = i BY <1>3, <1>6, <1>8 DEF CallRow
<1>10. p = Payments!Refuse \/ (Follows(gateway, p, d) /\ p[1].does \notin LastReads)
  <2>1. \/ Payments!Plan(c) = Payments!Refuse
        \/ Follows(gateway, Payments!Plan(c), c) /\ Payments!Plan(c)[1].does \notin LastReads
    BY <1>1, <1>2, PlanKnown
  <2>. QED BY <1>6, <1>9, <2>1, FollowsOn
<1>. QED BY <1>3, <1>5, <1>7, <1>9, <1>10, StartKeepsPay

\* A request is sent, its answer is lost, or it is lost itself.
LEMMA SentKeeps ==
  ASSUME PayGiven, PayIInv, NEW a \in Payer, Payments!Sent(a) \/ Payments!AnswerLost(a) \/ Payments!RequestLost(a)
  PROVE  PayIInv'
<1>1. payLost \in Nat BY DEF PayIInv, PayTyped
<1>2. PICK yes, no \in BOOLEAN : yes = TRUE /\ no = FALSE OBVIOUS
<1>3. CASE Payments!Sent(a)
  <2>1. payLeft[a] # <<>> /\ Payments!Serve(a, yes) /\ gateway' = gateway /\ order' = order /\ payLost' = payLost BY <1>2, <1>3 DEF Payments!Sent
  <2>2. payLost' \in Nat /\ payLost <= payLost' /\ (yes => payLost' = payLost) /\ (~yes => payLost' = payLost + 1) BY <1>1, <1>2, <2>1
  <2>. QED BY <2>1, <2>2, ServeKeeps
<1>4. CASE Payments!AnswerLost(a)
  <2>1. payLeft[a] # <<>> /\ Payments!Serve(a, no) /\ gateway' = gateway /\ order' = order /\ payLost' = payLost + 1
    BY <1>2, <1>4 DEF Payments!AnswerLost
  <2>2. payLost' \in Nat /\ payLost <= payLost' /\ (no => payLost' = payLost) /\ (~no => payLost' = payLost + 1) BY <1>1, <1>2, <2>1
  <2>. QED BY <2>1, <2>2, ServeKeeps
<1>5. CASE Payments!RequestLost(a)
  <2>1. Payments!Fails(a) /\ gateway' = gateway /\ order' = order /\ payLost' = payLost + 1 /\ intents' = intents BY <1>5 DEF Payments!RequestLost
  <2>2. IntentsHold(gateway, intents) BY DEF PayIInv
  <2>3. IntentsHold(gateway, intents') /\ Moves(gateway, intents, intents') /\ SourcesOf(intents') = SourcesOf(intents) BY <2>1, <2>2, IntentsFinite
  <2>4. payLost' \in Nat /\ payLost <= payLost' BY <1>1, <2>1
  <2>. QED BY <2>1, <2>3, <2>4, FailKeeps
<1>. QED BY <1>3, <1>4, <1>5

\* The payer pays or does not, a hold runs out; or nothing happens.
LEMMA RestKeeps ==
  ASSUME PayGiven, PayIInv, IntentsHold(gateway, intents'), Moves(gateway, intents, intents'),
         SourcesOf(intents') = SourcesOf(intents), ChargesOf(intents') = ChargesOf(intents),
         UNCHANGED <<gateway, order, customer, payCall, payLeft, payAnswer, payLost>>
  PROVE  PayIInv'
<1>1. PayTyped' BY DEF PayIInv, PayTyped, Moves
<1>2. IntentsHold(gateway, intents)' BY DEF IntentsHold, KeyedOnce, IntentFits
<1>3. CallersHold'
  <2>1. ASSUME NEW b \in Payer PROVE CallFits(gateway, payCall[b], payLeft[b], intents') /\ AnswerFits(gateway, payAnswer[b], intents')
    BY MovesFit DEF PayIInv, CallersHold
  <2>. QED BY <2>1 DEF CallersHold
<1>4. SourcesCounted' BY DEF PayIInv, SourcesCounted, Holders
<1>. QED BY <1>1, <1>2, <1>3, <1>4 DEF PayIInv

\* The payer pays or does not; a hold runs out.
LEMMA SettleKeeps == ASSUME PayGiven, PayIInv, NEW i \in DOMAIN intents, Payments!Settle(i) PROVE PayIInv'
<1>1. IntentsHold(gateway, intents) BY DEF PayIInv
<1>2. PICK to \in (CASE intents[i].state = "awaiting" -> {"taken", "declined"} [] intents[i].state = "held" -> {"reversed"} [] OTHER -> {}) :
        intents' = [intents EXCEPT ![i].state = to]
  BY Zenon DEF Payments!Settle
<1>3. UNCHANGED <<gateway, order, customer, payCall, payLeft, payAnswer, payLost>> BY Zenon DEF Payments!Settle
<1>4. intents[i].state \in {"awaiting", "held"} /\ to \in {"taken", "declined", "reversed"} BY <1>2
<1>5. to \in IntentState BY <1>4 DEF IntentState, FirstState
<1>6. intents[i].state \notin Funded /\ intents[i].state \notin GaveBack BY <1>4 DEF Funded, GaveBack
<1>7. PICK g, q, n : g = gateway /\ q = intents /\ n = intents' OBVIOUS
<1>8. IntentsHold(g, q) /\ i \in DOMAIN q /\ n = [q EXCEPT ![i].state = to] /\ q[i].state \notin Funded /\ q[i].state \notin GaveBack
  BY <1>1, <1>2, <1>6, <1>7
<1>9. Changed(g, q, n, i, to) BY <1>5, <1>8, ChangeHolds
<1>10. IntentsHold(gateway, intents') /\ Moves(gateway, intents, intents') /\ SourcesOf(intents') = SourcesOf(intents) /\ ChargesOf(intents') = ChargesOf(intents)
  BY <1>7, <1>9 DEF Changed
<1>. QED BY <1>3, <1>10, RestKeeps

\* Before the first call.
LEMMA PayStarts == ASSUME PayGiven, Payments!Init PROVE PayIInv
<1>1. /\ gateway \in Gateway /\ order \in Payments!KeyedCalls /\ intents = <<>> /\ customer = 0 /\ payLost = 0
      /\ payCall = [a \in Payer |-> Payments!NoCall] /\ payLeft = [a \in Payer |-> <<>>] /\ payAnswer = [a \in Payer |-> Payments!Nothing]
  BY DEF Payments!Init
<1>2. Usual(order) /\ order.op = "create" /\ order.of \in KeyedOf /\ order.key = FALSE BY <1>1, AllUsual
<1>3. PayTyped BY <1>1, <1>2 DEF PayTyped, PayGiven
<1>4. DOMAIN intents = {} /\ intents \in Seq(IntentRow) BY <1>1
<1>5. IntentsHold(gateway, intents) BY <1>4 DEF IntentsHold, KeyedOnce
<1>6. ASSUME NEW a \in Payer PROVE CallFits(gateway, payCall[a], payLeft[a], intents) /\ AnswerFits(gateway, payAnswer[a], intents)
  <2>1. payCall[a] = Payments!NoCall /\ payLeft[a] = <<>> /\ payAnswer[a] = Payments!Nothing BY <1>1
  <2>2. AnswerFits(gateway, payAnswer[a], intents)
    <3>1. payAnswer[a].is = "none" BY <2>1 DEF Payments!Nothing
    <3>. QED BY <3>1 DEF AnswerFits
  <2>. QED BY <2>1, <2>2, NoCallFits
<1>7. SourcesCounted
  <2>1. SourcesOf(intents) = {} /\ ChargesOf(intents) = {} BY <1>4 DEF SourcesOf, ChargesOf
  <2>2. IsFiniteSet(Holders) BY FS_Subset DEF Holders, PayGiven
  <2>3. Cardinality({}) = 0 /\ Cardinality(Holders) \in Nat BY <2>2, FS_EmptySet, FS_CardinalityType
  <2>4. Cardinality(SourcesOf(intents)) = 0 /\ Cardinality(ChargesOf(intents)) = 0 BY <2>1, <2>3, Zenon
  <2>. QED BY <1>1, <2>3, <2>4 DEF SourcesCounted
<1>. QED BY <1>3, <1>5, <1>6, <1>7 DEF PayIInv, CallersHold

\* Every step.
LEMMA PayKept == ASSUME PayGiven, PayIInv, [Payments!Next]_payVars PROVE PayIInv'
<1>1. CASE UNCHANGED payVars
  <2>1. IntentsHold(gateway, intents) BY DEF PayIInv
  <2>2. IntentsHold(gateway, intents') /\ Moves(gateway, intents, intents') /\ SourcesOf(intents') = SourcesOf(intents) /\ ChargesOf(intents') = ChargesOf(intents)
    BY <1>1, <2>1, IntentsFinite DEF payVars
  <2>. QED BY <1>1, <2>2, RestKeeps DEF payVars
<1>2. CASE Payments!Next
  <2>1. ASSUME NEW a \in Payer, Payments!Order(a) PROVE PayIInv' BY <2>1, OrderKeeps
  <2>2. ASSUME NEW a \in Payer, Payments!Sent(a) \/ Payments!AnswerLost(a) \/ Payments!RequestLost(a) PROVE PayIInv' BY <2>2, SentKeeps
  <2>3. ASSUME NEW a \in Payer, NEW c \in Payments!OtherCalls, NEW i \in DOMAIN intents, Payments!Use(a, c, i) PROVE PayIInv' BY <2>3, UseKeeps
  <2>4. ASSUME NEW i \in DOMAIN intents, Payments!Settle(i) PROVE PayIInv' BY <2>4, SettleKeeps
  <2>. QED BY <1>2, <2>1, <2>2, <2>3, <2>4 DEF Payments!Next
<1>. QED BY <1>1, <1>2

\* Plans that are no refusal.
LEMMA NotRefused ==
  /\ \A d : d # "refuse" => Payments!Do(d) # Payments!Refuse /\ Payments!Keyed(d) # Payments!Refuse
  /\ \A d, e : Payments!Do(d) \o Payments!Do(e) # Payments!Refuse /\ Payments!Keyed(d) \o Payments!Do(e) # Payments!Refuse
<1>0. PICK no, yes \in BOOLEAN : no = FALSE /\ yes = TRUE OBVIOUS
<1>1. \A d : Payments!Do(d) = <<[does |-> d, keyed |-> no]>> /\ Payments!Keyed(d) = <<[does |-> d, keyed |-> yes]>>
  BY <1>0 DEF Payments!Do, Payments!Keyed, Payments!Request
<1>2. Payments!Refuse = <<[does |-> "refuse", keyed |-> no]>> BY <1>0 DEF Payments!Refuse, Payments!Request
<1>3. ASSUME NEW d, d # "refuse" PROVE Payments!Do(d) # Payments!Refuse /\ Payments!Keyed(d) # Payments!Refuse
  <2>1. Payments!Do(d)[1].does = d /\ Payments!Keyed(d)[1].does = d BY <1>1
  <2>2. Payments!Refuse[1].does = "refuse" BY <1>2
  <2>. QED BY <1>3, <2>1, <2>2
<1>4. ASSUME NEW d, NEW e PROVE Payments!Do(d) \o Payments!Do(e) # Payments!Refuse /\ Payments!Keyed(d) \o Payments!Do(e) # Payments!Refuse
  <2>1. PICK x, y, z : x = [does |-> d, keyed |-> no] /\ y = [does |-> d, keyed |-> yes] /\ z = [does |-> e, keyed |-> no] OBVIOUS
  <2>2. Payments!Do(d) \o Payments!Do(e) = <<x, z>> /\ Payments!Keyed(d) \o Payments!Do(e) = <<y, z>> BY <1>1, <2>1, Joined
  <2>3. Len(<<x, z>>) = 2 /\ Len(<<y, z>>) = 2 OBVIOUS
  <2>4. Len(Payments!Refuse) = 1 BY <1>2
  <2>. QED BY <2>2, <2>3, <2>4
<1>. QED BY <1>3, <1>4

\* A call has what it was made with.
LEMMA CallIs ==
  ASSUME NEW f, NEW o, NEW k, NEW w, NEW x, x = Payments!Call(f, o, k, w)
  PROVE  x.of = f /\ x.op = o /\ x.kind = k /\ x.with = w
<1>1. PICK no \in BOOLEAN : no = FALSE OBVIOUS
<1>2. x = [of |-> f, op |-> o, kind |-> k, with |-> w, key |-> no, target |-> 0] BY <1>1 DEF Payments!Call
<1>. QED BY <1>2

\* The operations Omise has not; what it and Stripe refuse for the input, and nothing else.
Shut(c) == c.of \in {"products", "prices", "invoices", "checkout"} \/ (c.of = "subscriptions" /\ c.op = "update")
           \/ (c.of = "links" /\ c.op = "deactivate")
\* Stripe refuses a kind of payment method and a link without prices, and nothing else.
LEMMA StripeRefuses ==
  ASSUME gateway = "stripe", NEW c, Usual(c)
  PROVE  \/ Payments!Plan(c) # Payments!Refuse
         \/ c.of = "charges" /\ c.op = "create" /\ c.kind # "card"
         \/ c.of = "links" /\ c.op = "create" /\ "prices" \notin c.with
<1>0. Payments!Plan(c) = Payments!Stripe(c) /\ c.of \in AnyOf BY DEF Payments!Plan, Usual, CallRow
<1>1. CASE c.of = "customers" BY <1>0, <1>1, NotRefused DEF Payments!Stripe, Payments!StripeCustomers
<1>2. CASE c.of = "products" BY <1>0, <1>2, NotRefused DEF Payments!Stripe, Payments!StripeProducts
<1>3. CASE c.of = "prices" BY <1>0, <1>3, NotRefused DEF Payments!Stripe, Payments!StripePrices
<1>4. CASE c.of = "subscriptions"
  <2>1. c.op \in {"create", "cancel", "update"} BY <1>4 DEF Usual
  <2>2. Payments!Plan(c) \in {Payments!Keyed("make"), Payments!Do("remove"), Payments!Do("windDown"), Payments!Do("read") \o Payments!Do("change")}
    BY <1>0, <1>4, <2>1 DEF Payments!Stripe, Payments!StripeSubscriptions, Payments!Reads
  <2>. QED BY <2>2, NotRefused
<1>5. CASE c.of = "methods" BY <1>0, <1>5, NotRefused DEF Payments!Stripe, Payments!StripeMethods
<1>6. CASE c.of = "charges"
  <2>1. c.op \in {"create", "refund", "retrieve", "capture"} BY <1>6 DEF Usual
  <2>2. CASE c.op = "create"
    <3>1. c.kind = "card" => Payments!Plan(c) = Payments!Keyed("make") \o Payments!Do("readIfSettled")
      BY <1>0, <1>6, <2>2 DEF Payments!Stripe, Payments!StripeCharges
    <3>. QED BY <1>6, <2>2, <3>1, NotRefused
  <2>3. CASE c.op \in {"refund", "retrieve", "capture"}
    <3>1. Payments!Plan(c) \in {Payments!Do("read"), Payments!Do("capture"), Payments!Keyed("refundPart"), Payments!Keyed("refund")}
      BY <1>0, <1>6, <2>3 DEF Payments!Stripe, Payments!StripeCharges
    <3>. QED BY <3>1, NotRefused
  <2>. QED BY <2>1, <2>2, <2>3
<1>7. CASE c.of = "invoices" BY <1>0, <1>7, NotRefused DEF Payments!Stripe, Payments!StripeInvoices
<1>8. CASE c.of = "checkout" BY <1>0, <1>8, NotRefused DEF Payments!Stripe, Payments!StripeCheckout
<1>9. CASE c.of = "links"
  <2>1. c.op \in {"create", "deactivate"} BY <1>9 DEF Usual
  <2>2. c.op = "create" /\ "prices" \in c.with => Payments!Plan(c) = Payments!Keyed("make")
    BY <1>0, <1>9 DEF Payments!Stripe, Payments!StripeLinks, Payments!Reads
  <2>3. c.op = "deactivate" => Payments!Plan(c) = Payments!Do("windDown")
    BY <1>0, <1>9 DEF Payments!Stripe, Payments!StripeLinks, Payments!Reads
  <2>. QED BY <1>9, <2>1, <2>2, <2>3, NotRefused
<1>. QED BY <1>0, <1>1, <1>2, <1>3, <1>4, <1>5, <1>6, <1>7, <1>8, <1>9 DEF AnyOf, KeyedOf

\* Omise refuses what it has no operation for, and for the input what is listed here.
LEMMA OmiseRefuses ==
  ASSUME gateway = "omise", NEW c, Usual(c)
  PROVE  /\ Shut(c) => Payments!Plan(c) = Payments!Refuse
         /\ \/ Shut(c) \/ Payments!Plan(c) # Payments!Refuse
            \/ c.of = "methods" /\ "owner" \notin c.with
            \/ c.of = "subscriptions" /\ c.op = "create" /\ ("trial" \in c.with \/ "prices" \in c.with)
            \/ c.of = "charges" /\ c.op = "create" /\ c.kind # "card"
            \/ c.of = "links" /\ c.op = "create" /\ "prices" \in c.with
<1>0. Payments!Plan(c) = Payments!Omise(c) /\ c.of \in AnyOf BY DEF Payments!Plan, Usual, CallRow
<1>1. CASE c.of = "customers"
  <2>1. ~Shut(c) BY <1>1 DEF Shut
  <2>. QED BY <1>0, <1>1, <2>1, NotRefused DEF Payments!Omise, Payments!OmiseCustomers
<1>2. CASE c.of \in {"products", "prices", "invoices", "checkout"}
  <2>1. Payments!Plan(c) = Payments!Refuse BY <1>0, <1>2 DEF Payments!Omise, Payments!OmiseCatalogue, Payments!OmiseHosted
  <2>. QED BY <1>2, <2>1 DEF Shut
<1>3. CASE c.of = "subscriptions"
  <2>1. c.op \in {"create", "cancel", "update"} BY <1>3 DEF Usual
  <2>2. CASE c.op = "create"
    <3>1. ~Shut(c) BY <1>3, <2>2 DEF Shut
    <3>2. ~("trial" \in c.with \/ "prices" \in c.with) => Payments!Plan(c) = Payments!Do("make")
      BY <1>0, <1>3, <2>2 DEF Payments!Omise, Payments!OmiseSubscriptions, Payments!Reads
    <3>. QED BY <1>3, <2>2, <3>1, <3>2, NotRefused
  <2>3. CASE c.op = "cancel"
    <3>1. ~Shut(c) BY <1>3, <2>3 DEF Shut
    <3>2. Payments!Plan(c) = Payments!Do("remove") \o Payments!Do("readIfUnanswered")
      BY <1>0, <1>3, <2>3 DEF Payments!Omise, Payments!OmiseSubscriptions, Payments!Reads
    <3>. QED BY <3>1, <3>2, NotRefused
  <2>4. CASE c.op = "update"
    <3>1. Shut(c) BY <1>3, <2>4 DEF Shut
    <3>2. Payments!Plan(c) = Payments!Refuse BY <1>0, <1>3, <2>4 DEF Payments!Omise, Payments!OmiseSubscriptions, Payments!Reads
    <3>. QED BY <3>1, <3>2
  <2>. QED BY <2>1, <2>2, <2>3, <2>4
<1>4. CASE c.of = "methods"
  <2>1. ~Shut(c) BY <1>4 DEF Shut
  <2>2. "owner" \in c.with => Payments!Plan(c) \in {Payments!Do("read"), Payments!Do("change")}
    BY <1>0, <1>4 DEF Payments!Omise, Payments!OmiseMethods
  <2>. QED BY <1>4, <2>1, <2>2, NotRefused
<1>5. CASE c.of = "charges"
  <2>0. ~Shut(c) BY <1>5 DEF Shut
  <2>1. c.op \in {"create", "refund", "retrieve", "capture"} BY <1>5 DEF Usual
  <2>2. CASE c.op = "create"
    <3>1. c.kind = "card" => Payments!Plan(c) = Payments!Do("make") BY <1>0, <1>5, <2>2 DEF Payments!Omise, Payments!OmiseCharges
    <3>. QED BY <1>5, <2>0, <2>2, <3>1, NotRefused
  <2>3. CASE c.op \in {"refund", "retrieve", "capture"}
    <3>1. Payments!Plan(c) \in {Payments!Do("read"), Payments!Do("capture"), Payments!Do("refundPart"), Payments!Do("refund")}
      BY <1>0, <1>5, <2>3 DEF Payments!Omise, Payments!OmiseCharges
    <3>. QED BY <2>0, <3>1, NotRefused
  <2>. QED BY <2>1, <2>2, <2>3
<1>6. CASE c.of = "links"
  <2>1. c.op \in {"create", "deactivate"} BY <1>6 DEF Usual
  <2>2. CASE c.op = "create"
    <3>1. ~Shut(c) BY <1>6, <2>2 DEF Shut
    <3>2. "prices" \notin c.with => Payments!Plan(c) = Payments!Do("make") BY <1>0, <1>6, <2>2 DEF Payments!Omise, Payments!OmiseLinks, Payments!Reads
    <3>. QED BY <1>6, <2>2, <3>1, <3>2, NotRefused
  <2>3. CASE c.op = "deactivate"
    <3>1. Shut(c) BY <1>6, <2>3 DEF Shut
    <3>2. Payments!Plan(c) = Payments!Refuse BY <1>0, <1>6, <2>3 DEF Payments!Omise, Payments!OmiseLinks, Payments!Reads
    <3>. QED BY <3>1, <3>2
  <2>. QED BY <2>1, <2>2, <2>3
<1>. QED BY <1>0, <1>1, <1>2, <1>3, <1>4, <1>5, <1>6 DEF AnyOf, KeyedOf

\* The mock driver refuses nothing.
LEMMA MockRefusesNothing == ASSUME gateway = "mock", NEW c, Usual(c) PROVE Payments!Plan(c) # Payments!Refuse
<1>0. Payments!Plan(c) = Payments!Mock(c) /\ c.of \in AnyOf BY DEF Payments!Plan, Usual, CallRow
<1>1. CASE c.of = "customers" BY <1>0, <1>1, NotRefused DEF Payments!Mock, Payments!MockCustomers
<1>2. CASE c.of = "products" BY <1>0, <1>2, NotRefused DEF Payments!Mock, Payments!MockProducts
<1>3. CASE c.of = "prices" BY <1>0, <1>3, NotRefused DEF Payments!Mock, Payments!MockPrices
<1>4. CASE c.of = "subscriptions"
  <2>1. Payments!Plan(c) \in {Payments!Do("make"), Payments!Do("read"), Payments!Do("cancel"), Payments!Do("windDown"), Payments!Do("change")}
    BY <1>0, <1>4 DEF Payments!Mock, Payments!MockSubscriptions
  <2>. QED BY <2>1, NotRefused
<1>5. CASE c.of = "methods" BY <1>0, <1>5, NotRefused DEF Payments!Mock, Payments!MockMethods
<1>6. CASE c.of = "charges"
  <2>1. c.op \in {"create", "refund", "retrieve", "capture"} BY <1>6 DEF Usual
  <2>2. Payments!Plan(c) \in {Payments!Keyed("make"), Payments!Do("read"), Payments!Do("settle"), Payments!Do("settlePart"), Payments!Do("settleBack")}
    BY <1>0, <1>6, <2>1 DEF Payments!Mock, Payments!MockCharges
  <2>. QED BY <2>2, NotRefused
<1>7. CASE c.of = "invoices" BY <1>0, <1>7, NotRefused DEF Payments!Mock, Payments!MockInvoices
<1>8. CASE c.of = "checkout" BY <1>0, <1>8, NotRefused DEF Payments!Mock, Payments!MockCheckout
<1>9. CASE c.of = "links" BY <1>0, <1>9, NotRefused DEF Payments!Mock, Payments!MockLinks
<1>. QED BY <1>0, <1>1, <1>2, <1>3, <1>4, <1>5, <1>6, <1>7, <1>8, <1>9 DEF AnyOf, KeyedOf

\* What a driver declares.
LEMMA Declared ==
  ASSUME gateway \in {"stripe", "omise", "mock"}, NEW c, Usual(c), c.op # "retrieve"
  PROVE  Payments!Declares(c.of, c.op) <=> ~(gateway = "omise" /\ Shut(c))
<1>u. c.of \in AnyOf BY DEF Usual, CallRow
<1>1. CASE gateway = "mock" BY <1>1 DEF Payments!Declares
<1>2. CASE gateway = "stripe"
  <2>0. Payments!Declares(c.of, c.op) <=> Payments!StripeDeclares(c.of, c.op) BY <1>2 DEF Payments!Declares
  <2>1. Payments!StripeDeclares(c.of, c.op)
    <3>1. CASE c.of = "customers" BY <3>1 DEF Usual, Payments!StripeDeclares
    <3>2. CASE c.of = "products" BY <3>2 DEF Usual, Payments!StripeDeclares
    <3>3. CASE c.of = "prices" BY <3>3 DEF Usual, Payments!StripeDeclares
    <3>4. CASE c.of = "subscriptions" BY <3>4 DEF Usual, Payments!StripeDeclares
    <3>5. CASE c.of = "methods" BY <3>5 DEF Usual, Payments!StripeDeclares, KeyedOf
    <3>6. CASE c.of = "charges" BY <3>6 DEF Usual, Payments!StripeDeclares
    <3>7. CASE c.of = "invoices" BY <3>7 DEF Usual, Payments!StripeDeclares, KeyedOf
    <3>8. CASE c.of = "checkout" BY <3>8 DEF Usual, Payments!StripeDeclares
    <3>9. CASE c.of = "links" BY <3>9 DEF Usual, Payments!StripeDeclares
    <3>. QED BY <1>u, <3>1, <3>2, <3>3, <3>4, <3>5, <3>6, <3>7, <3>8, <3>9 DEF AnyOf, KeyedOf
  <2>. QED BY <1>2, <2>0, <2>1
<1>3. CASE gateway = "omise"
  <2>0. Payments!Declares(c.of, c.op) <=> Payments!OmiseDeclares(c.of, c.op) BY <1>3 DEF Payments!Declares
  <2>1. Payments!OmiseDeclares(c.of, c.op) <=> ~Shut(c)
    <3>1. CASE c.of = "customers" BY <3>1 DEF Usual, Payments!OmiseDeclares, Shut
    <3>2. CASE c.of \in {"products", "prices", "invoices", "checkout"} BY <3>2 DEF Payments!OmiseDeclares, Shut
    <3>4. CASE c.of = "subscriptions" BY <3>4 DEF Usual, Payments!OmiseDeclares, Shut
    <3>5. CASE c.of = "methods" BY <3>5 DEF Usual, Payments!OmiseDeclares, KeyedOf, Shut
    <3>6. CASE c.of = "charges" BY <3>6 DEF Usual, Payments!OmiseDeclares, Shut
    <3>9. CASE c.of = "links" BY <3>9 DEF Usual, Payments!OmiseDeclares, Shut
    <3>. QED BY <1>u, <3>1, <3>2, <3>4, <3>5, <3>6, <3>9 DEF AnyOf, KeyedOf
  <2>. QED BY <1>3, <2>0, <2>1
<1>. QED BY <1>1, <1>2, <1>3

\* Objects of one make that bear the key number at most one where keys are honoured.
LEMMA OncePerKeyHolds == ASSUME PayIInv PROVE Payments!OncePerKey
<1>1. KeyedOnce(gateway, intents) /\ gateway \in {"stripe", "omise", "mock"} BY DEF PayIInv, IntentsHold, PayTyped
<1> SUFFICES ASSUME NEW of \in KeyedOf, Payments!Idempotent, gateway = "mock" => of = "charges"
             PROVE  Payments!Cardinality({i \in DOMAIN intents : intents[i].of = of /\ intents[i].keyed}) <= 1
  BY Zenon DEF Payments!OncePerKey, KeyedOf
<1>2. gateway # "omise" BY DEF Payments!Idempotent
<1>3. Honours(gateway, of) BY <1>1, <1>2 DEF Honours
<1>4. PICK S : S = {i \in DOMAIN intents : intents[i].of = of /\ intents[i].keyed} OBVIOUS
<1>5. \A i, j \in S : i = j BY <1>1, <1>3, <1>4 DEF KeyedOnce
<1>6. S = {} \/ \E x : S = {x}
  <2>1. ASSUME NEW x \in S PROVE S = {x} BY <1>5
  <2>. QED BY <2>1
<1>7. Cardinality(S) \in {0, 1} BY <1>6, FS_EmptySet, FS_Singleton
<1>8. Payments!Cardinality(S) = Cardinality(S) BY Zenon DEF Payments!Cardinality, Cardinality
<1>9. Payments!Cardinality(S) <= 1 BY <1>7, <1>8
<1>. QED BY <1>4, <1>9

\* A caller that is about to charge a source is busy.
LEMMA SourcesBounded == ASSUME PayGiven, PayIInv PROVE Payments!NoMoreThanAsked
<1>1. SourcesCounted /\ PayTyped BY DEF PayIInv
<1> DEFINE busy == {a \in Payer : ~Payments!Idle(a)}
<1>2. Holders \subseteq busy
  <2> SUFFICES ASSUME NEW a \in Holders, Payments!Idle(a) PROVE FALSE BY DEF Holders
  <2>1. payCall[a] = Payments!NoCall /\ payCall[a].of = "charges" BY DEF Payments!Idle, Holders
  <2>2. Payments!NoCall.of = "none" BY NoCallFits
  <2>. QED BY <2>1, <2>2
<1>3. IsFiniteSet(busy) BY FS_Subset DEF PayGiven
<1>4. Cardinality(Holders) <= Cardinality(busy) /\ IsFiniteSet(Holders) BY <1>2, <1>3, FS_Subset
<1>5. Cardinality(Holders) \in Nat /\ Cardinality(busy) \in Nat BY <1>3, <1>4, FS_CardinalityType
<1>6. IsFiniteSet(SourcesOf(intents)) /\ IsFiniteSet(ChargesOf(intents))
  <2>1. IntentsHold(gateway, intents) BY DEF PayIInv
  <2>. QED BY <2>1, IntentsFinite
<1>7. Cardinality(SourcesOf(intents)) \in Nat /\ Cardinality(ChargesOf(intents)) \in Nat BY <1>6, FS_CardinalityType
<1>8. payLost \in Nat BY <1>1 DEF PayTyped
<1>9. Cardinality(SourcesOf(intents)) <= Cardinality(ChargesOf(intents)) + payLost + Cardinality(busy)
  <2>1. Cardinality(SourcesOf(intents)) <= Cardinality(ChargesOf(intents)) + payLost + Cardinality(Holders) BY <1>1 DEF SourcesCounted
  <2>. QED BY <2>1, <1>4, <1>5, <1>7, <1>8
<1>10. \A S : Payments!Cardinality(S) = Cardinality(S) BY Zenon DEF Payments!Cardinality, Cardinality
<1>11. Payments!Cardinality(SourcesOf(intents)) <= Payments!Cardinality(ChargesOf(intents)) + payLost + Payments!Cardinality(busy)
  <2>1. Payments!Cardinality(SourcesOf(intents)) = Cardinality(SourcesOf(intents)) BY <1>10
  <2>2. Payments!Cardinality(ChargesOf(intents)) = Cardinality(ChargesOf(intents)) BY <1>10
  <2>3. Payments!Cardinality(busy) = Cardinality(busy) BY <1>10
  <2> HIDE DEF busy
  <2>. QED BY <1>9, <2>1, <2>2, <2>3
<1>. QED BY <1>11, Zenon DEF Payments!NoMoreThanAsked, SourcesOf, ChargesOf

\* What is told of a charge is true of it.
LEMMA AnswersTold == ASSUME PayIInv PROVE Payments!AnswersAreTrue
<1>1. gateway \in {"stripe", "omise", "mock"} BY DEF PayIInv, PayTyped
<1> SUFFICES ASSUME NEW a \in Payer, payAnswer[a].is = "answered", intents[payAnswer[a].id].of = "charges"
             PROVE  /\ payAnswer[a].status = "succeeded" => intents[payAnswer[a].id].state \in Funded
                    /\ payAnswer[a].status = "refunded" /\ gateway # "mock" => intents[payAnswer[a].id].state \in GaveBack
                    /\ payAnswer[a].next # "none" => Payments!Declares("next", payAnswer[a].next)
  BY Zenon DEF Payments!AnswersAreTrue, Funded, GaveBack
<1>2. AnswerTrue(gateway, payAnswer[a], intents[payAnswer[a].id].state) BY DEF PayIInv, CallersHold, AnswerFits
<1>3. ASSUME NEW next, NextKnown(gateway, next) PROVE Payments!Declares("next", next)
  <2>1. CASE gateway = "stripe" BY <1>3, <2>1 DEF NextKnown, Payments!Declares
  <2>2. CASE gateway = "omise" BY <1>3, <2>2 DEF NextKnown, Payments!Declares
  <2>3. CASE gateway = "mock" BY <2>3 DEF Payments!Declares
  <2>. QED BY <1>1, <2>1, <2>2, <2>3
<1>. QED BY <1>2, <1>3 DEF AnswerTrue

\* A kind of payment method is refused, return URL and all, when the driver does not declare it.
LEMMA KindsDeclared ==
  ASSUME gateway \in {"stripe", "omise", "mock"}, NEW k \in Payments!AllKinds, NEW w, "returnUrl" \in w,
         NEW c, c = Payments!Call("charges", "create", k, w), Usual(c)
  PROVE  Payments!Declares("charges", k) <=> Payments!Plan(c) # Payments!Refuse
<1>1. c.of = "charges" /\ c.op = "create" /\ c.kind = k /\ c.with = w BY CallIs
<1>2. CASE gateway = "mock"
  <2>1. Payments!Declares("charges", k) BY <1>2 DEF Payments!Declares
  <2>. QED BY <1>2, <2>1, MockRefusesNothing
<1>3. CASE gateway = "stripe"
  <2>1. Payments!Declares("charges", k) <=> Payments!StripeDeclares("charges", k) BY <1>3 DEF Payments!Declares
  <2>2. Payments!Plan(c) = Payments!StripeCharges(c) BY <1>1, <1>3 DEF Payments!Plan, Payments!Stripe
  <2>3. CASE k = "card" \/ k \in Payments!StripeTypes
    <3>1. Payments!StripeDeclares("charges", k)
      BY <2>3 DEF Payments!StripeDeclares, Payments!StripeTypes, Payments!StripeMethodKinds
    <3>2. Payments!Plan(c) = Payments!Keyed("make") \o Payments!Do("readIfSettled") BY <1>1, <2>2, <2>3 DEF Payments!StripeCharges
    <3>. QED BY <2>1, <3>1, <3>2, NotRefused
  <2>4. CASE k # "card" /\ k \notin Payments!StripeTypes
    <3>1. ~Payments!StripeDeclares("charges", k)
      BY <2>4 DEF Payments!StripeDeclares, Payments!StripeTypes, Payments!StripeMethodKinds, Payments!AllKinds
    <3>2. Payments!Plan(c) = Payments!Refuse BY <1>1, <2>2, <2>4 DEF Payments!StripeCharges
    <3>. QED BY <2>1, <3>1, <3>2
  <2>. QED BY <2>3, <2>4
<1>4. CASE gateway = "omise"
  <2>1. Payments!Declares("charges", k) <=> Payments!OmiseDeclares("charges", k) BY <1>4 DEF Payments!Declares
  <2>2. Payments!Plan(c) = Payments!OmiseCharges(c) BY <1>1, <1>4 DEF Payments!Plan, Payments!Omise
  <2>3. CASE k = "card" \/ k \in Payments!OmiseTypes
    <3>1. Payments!OmiseDeclares("charges", k)
      BY <2>3 DEF Payments!OmiseDeclares, Payments!OmiseTypes, Payments!OmiseMethodKinds
    <3>2. Payments!Plan(c) \in {Payments!Do("make"), Payments!Do("source") \o Payments!Do("make")}
      BY <1>1, <2>2, <2>3 DEF Payments!OmiseCharges
    <3>. QED BY <2>1, <3>1, <3>2, NotRefused
  <2>4. CASE k # "card" /\ k \notin Payments!OmiseTypes
    <3>1. ~Payments!OmiseDeclares("charges", k)
      BY <2>4 DEF Payments!OmiseDeclares, Payments!OmiseTypes, Payments!OmiseMethodKinds, Payments!AllKinds
    <3>2. Payments!Plan(c) = Payments!Refuse BY <1>1, <2>2, <2>4 DEF Payments!OmiseCharges
    <3>. QED BY <2>1, <3>1, <3>2
  <2>. QED BY <2>3, <2>4
<1>. QED BY <1>2, <1>3, <1>4

\* So a kind is declared exactly when a charge of it goes through.
LEMMA RefusalsDeclared == ASSUME PayIInv PROVE Payments!RefusalIsDeclared
<1>1. gateway \in {"stripe", "omise", "mock"} BY DEF PayIInv, PayTyped
<1> SUFFICES ASSUME NEW k \in Payments!AllKinds, NEW w \in SUBSET {"hold"}
             PROVE  Payments!Declares("charges", k) <=> Payments!Plan(Payments!Call("charges", "create", k, w \cup {"returnUrl"})) # Payments!Refuse
  BY Zenon DEF Payments!RefusalIsDeclared
<1>2. PICK v : v = w \cup {"returnUrl"} OBVIOUS
<1>3. "returnUrl" \in v /\ v \in Withs BY <1>2 DEF Withs, WithName
<1>4. PICK c : c = Payments!Call("charges", "create", k, v) OBVIOUS
<1>5. Usual(c)
  <2>1. PICK no \in BOOLEAN, o \in OpName, f \in AnyOf : no = FALSE /\ o = "create" /\ f = "charges" BY DEF OpName, AnyOf, KeyedOf
  <2>2. c = [of |-> f, op |-> o, kind |-> k, with |-> v, key |-> no, target |-> 0] BY <1>4, <2>1 DEF Payments!Call
  <2>3. c \in CallRow BY <1>3, <2>2 DEF CallRow, KindName
  <2>4. c.of = "charges" /\ c.op = "create" BY <1>4, CallIs
  <2>. QED BY <2>3, <2>4 DEF Usual, KeyedOf
<1>6. Payments!Declares("charges", k) <=> Payments!Plan(c) # Payments!Refuse BY <1>1, <1>3, <1>4, <1>5, KindsDeclared
<1>. QED BY <1>2, <1>4, <1>6

\* An operation a driver does not close to everyone has an input that goes through.
LEMMA SomeGetThrough ==
  ASSUME PayGiven, gateway \in {"stripe", "omise"}, NEW c \in Payments!KeyedCalls \cup Payments!OtherCalls, Usual(c),
         ~(gateway = "omise" /\ Shut(c))
  PROVE  \E d \in Payments!KeyedCalls \cup Payments!OtherCalls :
           d.of = c.of /\ d.op = c.op /\ Payments!Plan(d) # Payments!Refuse
<1>u. \A d \in Payments!KeyedCalls \cup Payments!OtherCalls : Usual(d) BY AllUsual
<1>1. CASE c.of = "charges" /\ c.op = "create"
  <2>1. PICK d : d = Payments!Call("charges", "create", "card", {}) OBVIOUS
  <2>2. d \in Payments!KeyedCalls BY <2>1 DEF Payments!KeyedCalls, PayGiven
  <2>3. d.of = c.of /\ d.op = c.op /\ d.kind = "card" BY <1>1, <2>1, CallIs
  <2>4. Usual(d) /\ d.of = "charges" BY <1>u, <1>1, <2>2, <2>3
  <2>5. CASE gateway = "stripe" BY <2>2, <2>3, <2>4, <2>5, StripeRefuses
  <2>6. CASE gateway = "omise"
    <3>1. ~Shut(d) BY <2>4 DEF Shut
    <3>. QED BY <2>2, <2>3, <2>4, <2>6, <3>1, OmiseRefuses
  <2>. QED BY <2>5, <2>6
<1>2. CASE c.of = "links" /\ c.op = "create"
  <2>1. PICK w \in SUBSET {"prices"} : w = IF gateway = "stripe" THEN {"prices"} ELSE {} OBVIOUS
  <2>2. PICK d : d = Payments!Call("links", "create", "none", w) OBVIOUS
  <2>3. d \in Payments!KeyedCalls BY <2>2 DEF Payments!KeyedCalls
  <2>4. d.of = c.of /\ d.op = c.op /\ d.with = w BY <1>2, <2>2, CallIs
  <2>5. Usual(d) /\ d.of = "links" /\ d.op = "create" BY <1>u, <1>2, <2>3, <2>4
  <2>6. CASE gateway = "stripe"
    <3>1. "prices" \in d.with BY <2>1, <2>4, <2>6
    <3>. QED BY <2>3, <2>4, <2>5, <2>6, <3>1, StripeRefuses
  <2>7. CASE gateway = "omise"
    <3>1. ~Shut(d) BY <2>5 DEF Shut
    <3>2. "prices" \notin d.with BY <2>1, <2>4, <2>7
    <3>. QED BY <2>3, <2>4, <2>5, <2>7, <3>1, <3>2, OmiseRefuses
  <2>. QED BY <2>6, <2>7
<1>3. CASE c.of = "subscriptions" /\ c.op = "create"
  <2>1. PICK w \in SUBSET {"trial", "prices"} : w = {} OBVIOUS
  <2>2. PICK d : d = Payments!Call("subscriptions", "create", "none", w) OBVIOUS
  <2>3. d \in Payments!KeyedCalls BY <2>2 DEF Payments!KeyedCalls
  <2>4. d.of = c.of /\ d.op = c.op /\ d.with = w BY <1>3, <2>2, CallIs
  <2>5. Usual(d) /\ d.of = "subscriptions" /\ d.op = "create" BY <1>u, <1>3, <2>3, <2>4
  <2>6. CASE gateway = "stripe" BY <2>3, <2>4, <2>5, <2>6, StripeRefuses
  <2>7. CASE gateway = "omise"
    <3>1. ~Shut(d) BY <2>5 DEF Shut
    <3>2. "prices" \notin d.with /\ "trial" \notin d.with BY <2>1, <2>4
    <3>. QED BY <2>3, <2>4, <2>5, <2>7, <3>1, <3>2, OmiseRefuses
  <2>. QED BY <2>6, <2>7
<1>4. CASE c.of = "methods"
  <2>1. PICK w : w = {"owner"} OBVIOUS
  <2>2. PICK d : d = Payments!Call("methods", "detach", "none", w) OBVIOUS
  <2>3. d \in Payments!OtherCalls BY <2>1, <2>2 DEF Payments!OtherCalls
  <2>4. d.of = c.of /\ d.op = c.op /\ d.with = w
    <3>1. c.op = "detach" BY <1>4 DEF Usual, KeyedOf
    <3>. QED BY <1>4, <2>2, <3>1, CallIs
  <2>5. Usual(d) /\ d.of = "methods" BY <1>u, <1>4, <2>3, <2>4
  <2>6. CASE gateway = "stripe" BY <2>3, <2>4, <2>5, <2>6, StripeRefuses
  <2>7. CASE gateway = "omise"
    <3>1. ~Shut(d) BY <2>5 DEF Shut
    <3>2. "owner" \in d.with BY <2>1, <2>4
    <3>. QED BY <2>3, <2>4, <2>5, <2>7, <3>1, <3>2, OmiseRefuses
  <2>. QED BY <2>6, <2>7
<1>5. CASE c.of # "methods" /\ ~(c.op = "create" /\ c.of \in {"charges", "links", "subscriptions"})
  <2>1. CASE gateway = "stripe"
    <3>1. Payments!Plan(c) # Payments!Refuse BY <1>5, <2>1, StripeRefuses
    <3>. QED BY <3>1
  <2>2. CASE gateway = "omise"
    <3>1. Payments!Plan(c) # Payments!Refuse BY <1>5, <2>2, OmiseRefuses
    <3>. QED BY <3>1
  <2>. QED BY <2>1, <2>2
<1>. QED BY <1>1, <1>2, <1>3, <1>4, <1>5

\* And an operation is declared exactly when some input of it goes through.
LEMMA OperationsDeclared == ASSUME PayGiven, PayIInv PROVE Payments!OperationIsDeclared
<1>1. gateway \in {"stripe", "omise", "mock"} BY DEF PayIInv, PayTyped
<1> DEFINE offered == Payments!KeyedCalls \cup Payments!OtherCalls
<1> SUFFICES ASSUME NEW c \in offered, c.op \notin {"retrieve"}
             PROVE  Payments!Declares(c.of, c.op) <=> \E d \in {e \in offered : e.of = c.of /\ e.op = c.op} : Payments!Plan(d) # Payments!Refuse
  BY Zenon DEF Payments!OperationIsDeclared
<1>u. \A d \in offered : Usual(d) BY AllUsual
<1>2. Payments!Declares(c.of, c.op) <=> ~(gateway = "omise" /\ Shut(c))
  <2>1. Usual(c) /\ c.op # "retrieve" BY <1>u
  <2>. QED BY <1>1, <2>1, Declared
<1>3. ASSUME gateway = "omise", Shut(c), NEW d \in offered, d.of = c.of, d.op = c.op PROVE Payments!Plan(d) = Payments!Refuse
  <2>1. Usual(d) /\ Shut(d) BY <1>u, <1>3 DEF Shut
  <2>. QED BY <1>3, <2>1, OmiseRefuses
<1>4. ASSUME ~(gateway = "omise" /\ Shut(c))
      PROVE  \E d \in offered : d.of = c.of /\ d.op = c.op /\ Payments!Plan(d) # Payments!Refuse
  <2>1. Usual(c) BY <1>u
  <2>2. CASE gateway = "mock" BY <2>1, <2>2, MockRefusesNothing
  <2>3. CASE gateway \in {"stripe", "omise"} BY <1>4, <2>1, <2>3, SomeGetThrough
  <2>. QED BY <1>1, <2>2, <2>3
<1> HIDE DEF offered
<1>. QED BY <1>2, <1>3, <1>4

\* However callers, retries and losses interleave, and whatever the provider makes of a request: a key
\* pays for one charge where the driver declares "idempotency", a source without a charge is a lost
\* request or a caller on its way, a refusal and an operation are what the driver declares, and a DTO
\* says of the money what became of it.
THEOREM ChargedOncePerKey ==
  ASSUME PayGiven
  PROVE  Payments!Init /\ [][Payments!Next]_payVars => []Payments!PaymentDriversInv
<1>1. Payments!Init => PayIInv BY PayStarts
<1>2. PayIInv /\ [Payments!Next]_payVars => PayIInv' BY PayKept
<1>3. PayIInv => Payments!PaymentDriversInv
  BY OncePerKeyHolds, SourcesBounded, RefusalsDeclared, OperationsDeclared, AnswersTold DEF Payments!PaymentDriversInv
<1>. QED BY <1>1, <1>2, <1>3, PTL
==============================================================================
