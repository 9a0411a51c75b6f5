--------------------------- MODULE PaymentDrivers ---------------------------
(***************************************************************************)
(* The drivers of @strav/payment and the billable that calls them.  A       *)
(* method of a driver is the sequence of requests it makes, known once the  *)
(* input is: none when it refuses the input, two where the provider needs   *)
(* two.  A request may be lost, or its answer; the caller then calls again. *)
(* The provider's side (what Stripe and Omise make of a request) is         *)
(* external; the mock driver is its own provider.                           *)
(***************************************************************************)
EXTENDS Naturals, Sequences, FiniteSets

CONSTANTS Caller,
          Drivers,     \* the drivers tried, of "stripe", "omise", "mock"
          Kinds,       \* the kinds of payment method charged
          MaxObjects,  \* bounds: what a provider holds,
          MaxCalls,    \* the calls made,
          MaxLost      \* and the requests lost

VARIABLES driver,   \* the driver config.payment names
          order,    \* the call that carries the idempotency key
          objects,  \* the provider's objects, in the order made: [of, keyed, kind, first: the state it
            \*          was made in, state]
          customer, \* the id the billable's row stores, 0: none
          call,     \* caller -> the call it is in
          left,     \* caller -> the requests the method still makes
          answer,   \* caller -> what its last call came to: [is, status, next, id]
          lost, made

vars == <<driver, order, objects, customer, call, left, answer, lost, made>>

(***************************************************************************)
(* Calls.  "with" holds what the input carries: "returnUrl", "hold"         *)
(* (capture: false), "partial" (an amount), "trial", "prices" (ids of the   *)
(* catalogue), "owner" (a customer id), "now", "billable" (through it).     *)
(***************************************************************************)
Call(of, op, kind, with) == [of |-> of, op |-> op, kind |-> kind, with |-> with, key |-> FALSE, target |-> 0]
NoCall == Call("none", "none", "none", {})
AllKinds == {"card", "promptpay", "paynow", "fps", "truemoney", "alipay", "wechat_pay", "grabpay", "kakaopay",
             "rabbit_linepay", "konbini"}
KeyedCalls ==
  {Call("charges", "create", k, w) : k \in Kinds, w \in SUBSET {"returnUrl", "hold"}}
  \cup {Call("subscriptions", "create", "none", w) : w \in SUBSET {"trial", "prices"}}
  \cup {Call("customers", "create", "none", w) : w \in {{}, {"billable"}}}
  \cup {Call("links", "create", "none", w) : w \in SUBSET {"prices"}}
  \cup {Call("checkout", "create", "none", {})}
OtherCalls ==
  {Call("charges", "refund", "none", w) : w \in SUBSET {"partial"}}
  \cup {Call("charges", op, "none", {}) : op \in {"retrieve", "capture"}}
  \cup {Call("customers", op, "none", {}) : op \in {"retrieve", "delete"}}
  \cup {Call("subscriptions", "cancel", "none", w) : w \in SUBSET {"now"}}
  \cup {Call("subscriptions", "update", "none", {}), Call("links", "deactivate", "none", {}),
        Call("methods", "detach", "none", {}), Call("methods", "detach", "none", {"owner"}),
        Call("products", "create", "none", {}), Call("prices", "create", "none", {}),
        Call("invoices", "void", "none", {})}

Request(does, keyed) == [does |-> does, keyed |-> keyed]
Do(does) == <<Request(does, FALSE)>>
Keyed(does) == <<Request(does, TRUE)>>   \* with the caller's key in the Idempotency-Key header
Refuse == <<Request("refuse", FALSE)>>   \* ProviderUnsupportedError
Reads == {"retrieve", "list"}

(***************************************************************************)
(* Stripe.                                                                 *)
(***************************************************************************)
StripeTypes == {"promptpay", "paynow", "alipay", "wechat_pay", "grabpay", "kakaopay", "konbini"}
StripeMethodKinds == {"card", "promptpay", "paynow", "alipay", "wechat_pay", "grabpay", "kakaopay", "konbini"}
StripeDeclares(of, op) ==
  op \in CASE of = "customers" -> {"create", "update", "retrieve", "list", "delete"}
           [] of = "products" -> {"create", "update", "list"}
           [] of = "prices" -> {"create", "list"}
           [] of = "subscriptions" -> {"create", "retrieve", "update", "cancel", "changePlan", "trials"}
           [] of = "methods" -> {"attach", "detach", "list"}
           [] of = "charges" -> {"create", "refund", "capture"} \cup StripeMethodKinds
           [] of = "next" -> {"display_qr", "redirect", "authorize", "voucher", "wait"}
           [] of = "invoices" -> {"list", "retrieve", "finalize", "void"}
           [] of = "checkout" -> {"create", "retrieve"}
           [] of = "links" -> {"create", "deactivate"}

StripeCustomers(c) == IF c.op = "create" THEN Keyed("make") ELSE
                      IF c.op \in Reads THEN Do("read") ELSE IF c.op = "delete" THEN Do("remove") ELSE Do("change")
StripeProducts(c) == IF c.op = "create" THEN Do("make") ELSE IF c.op \in Reads THEN Do("read") ELSE Do("change")
StripePrices(c) == IF c.op = "create" THEN Do("make") ELSE Do("read")
StripeSubscriptions(c) ==
  CASE c.op = "create" -> Keyed("make")
    [] c.op \in Reads -> Do("read")
    [] c.op = "update" -> Do("read") \o Do("change")
    [] c.op = "cancel" -> IF "now" \in c.with THEN Do("remove") ELSE Do("windDown")
StripeMethods(c) == IF c.op = "list" THEN Do("read") ELSE Do("change")
\* Mutation of StripeCharges: the key is left off the intent.
StripeChargesUnkeyed(c) ==
  CASE c.op = "create" ->
         IF c.kind # "card" /\ (c.kind \notin StripeTypes \/ "returnUrl" \notin c.with) THEN Refuse
         ELSE Do("make") \o Do("readIfSettled")
    [] c.op = "retrieve" -> Do("read")
    [] c.op = "capture" -> Do("capture")
    [] c.op = "refund" -> Keyed(IF "partial" \in c.with THEN "refundPart" ELSE "refund")
\* create() makes and confirms an intent, and reads its charge when one succeeded.
StripeCharges(c) ==
  CASE c.op = "create" ->
         IF c.kind # "card" /\ (c.kind \notin StripeTypes \/ "returnUrl" \notin c.with) THEN Refuse
         ELSE Keyed("make") \o Do("readIfSettled")
    [] c.op = "retrieve" -> Do("read")
    [] c.op = "capture" -> Do("capture")
    [] c.op = "refund" -> Keyed(IF "partial" \in c.with THEN "refundPart" ELSE "refund")
StripeInvoices(c) == IF c.op \in Reads THEN Do("read") ELSE Do("change")
StripeCheckout(c) == IF c.op = "create" THEN Keyed("make") ELSE Do("read")
StripeLinks(c) ==
  CASE c.op = "create" -> IF "prices" \in c.with THEN Keyed("make") ELSE Refuse
    [] c.op \in Reads -> Do("read")
    [] c.op = "deactivate" -> Do("windDown")

Stripe(c) == CASE c.of = "customers" -> StripeCustomers(c) [] c.of = "products" -> StripeProducts(c)
               [] c.of = "prices" -> StripePrices(c) [] c.of = "subscriptions" -> StripeSubscriptions(c)
               [] c.of = "methods" -> StripeMethods(c) [] c.of = "charges" -> StripeCharges(c)
               [] c.of = "invoices" -> StripeInvoices(c) [] c.of = "checkout" -> StripeCheckout(c)
               [] c.of = "links" -> StripeLinks(c)

\* The DTO of a charge.  An intent that has no settled charge is answered by its own status;
\* the charge's "refunded" flag is up only when nothing is left of it.
StripeStatus(state) == CASE state = "unconfirmed" -> "requires_action" [] state = "awaiting" -> "requires_action"
                         [] state \in {"taken", "partly"} -> "succeeded" [] state = "refunded" -> "refunded"
                         [] OTHER -> "failed"
\* The next_action of an intent, by its type; without the detail it needs the app waits.
StripeNext(kind, complete) ==
  CASE kind \in {"promptpay", "paynow"} -> IF complete THEN "display_qr" ELSE "wait"
    [] kind = "wechat_pay" -> IF complete THEN "display_qr" ELSE "redirect"
    [] kind \in {"alipay", "grabpay", "kakaopay"} -> IF complete THEN "redirect" ELSE "wait"
    [] kind = "konbini" -> "voucher"
    [] kind = "card" -> IF complete THEN "authorize" ELSE "redirect"

(***************************************************************************)
(* Omise.                                                                  *)
(***************************************************************************)
OmiseTypes == {"promptpay", "truemoney", "alipay", "wechat_pay", "grabpay", "rabbit_linepay"}
OmiseMethodKinds == {"card", "promptpay", "truemoney", "alipay", "wechat_pay", "grabpay", "rabbit_linepay"}
OmiseDeclares(of, op) ==
  op \in CASE of = "customers" -> {"create", "update", "retrieve", "list", "delete"}
           [] of = "methods" -> {"attach", "detach", "list"}
           [] of = "charges" -> {"create", "refund", "capture"} \cup OmiseMethodKinds
           [] of = "next" -> {"display_qr", "redirect", "wait"}
           [] of = "subscriptions" -> {"create", "retrieve", "cancel"}
           [] of = "links" -> {"create"}
           [] OTHER -> {}

OmiseCustomers(c) == IF c.op = "create" THEN Do("make") ELSE
                     IF c.op \in Reads THEN Do("read") ELSE IF c.op = "delete" THEN Do("remove") ELSE Do("change")
OmiseCatalogue(c) == Refuse       \* products and prices
OmiseSubscriptions(c) ==          \* schedules, priced by a specification instead of a catalogue's id
  CASE c.op = "create" -> IF "trial" \in c.with \/ "prices" \in c.with THEN Refuse ELSE Do("make")
    [] c.op \in Reads -> Do("read")
    [] c.op = "update" -> Refuse
    [] c.op = "cancel" -> Do("remove") \o Do("readIfUnanswered")
OmiseHosted(c) == Refuse          \* invoices and checkout
OmiseMethods(c) == IF c.op = "list" THEN Do("read") ELSE
                   IF c.op = "detach" /\ "owner" \notin c.with THEN Refuse ELSE Do("change")
\* A method other than a card takes a source first, and drops "hold".
OmiseCharges(c) ==
  CASE c.op = "create" ->
         IF c.kind = "card" THEN Do("make")
         ELSE IF c.kind \notin OmiseTypes \/ (c.kind # "promptpay" /\ "returnUrl" \notin c.with) THEN Refuse
         ELSE Do("source") \o Do("make")
    [] c.op = "retrieve" -> Do("read")
    [] c.op = "capture" -> Do("capture")
    [] c.op = "refund" -> Do(IF "partial" \in c.with THEN "refundPart" ELSE "refund")
OmiseLinks(c) ==
  CASE c.op = "create" -> IF "prices" \in c.with THEN Refuse ELSE Do("make")
    [] c.op \in Reads -> Do("read")
    [] c.op = "deactivate" -> Refuse
Omise(c) == CASE c.of = "customers" -> OmiseCustomers(c) [] c.of \in {"products", "prices"} -> OmiseCatalogue(c)
              [] c.of = "subscriptions" -> OmiseSubscriptions(c) [] c.of \in {"invoices", "checkout"} -> OmiseHosted(c)
              [] c.of = "methods" -> OmiseMethods(c) [] c.of = "charges" -> OmiseCharges(c)
              [] c.of = "links" -> OmiseLinks(c)

OmiseStatus(state) == CASE state = "taken" -> "succeeded" [] state \in {"held", "awaiting"} -> "pending"
                        [] state = "partly" -> "partial_refunded" [] state \in {"refunded", "reversed"} -> "refunded"
                        [] OTHER -> "failed"
\* The QR image of the source before the charge's authorize_uri; neither yet: wait.
OmiseNext(kind, complete) ==
  CASE kind \in {"promptpay", "wechat_pay"} /\ complete -> "display_qr"
    [] kind \notin {"card", "promptpay"} /\ complete -> "redirect"
    [] kind = "card" -> "redirect"   \* 3-D Secure: authorize_uri, no source
    [] OTHER -> "wait"

(***************************************************************************)
(* The mock driver keeps its objects in maps and answers at once.          *)
(***************************************************************************)
MockCustomers(c) == IF c.op = "create" THEN Do("make") ELSE
                    IF c.op \in Reads THEN Do("read") ELSE IF c.op = "delete" THEN Do("remove") ELSE Do("change")
MockProducts(c) == IF c.op = "create" THEN Do("make") ELSE IF c.op \in Reads THEN Do("read") ELSE Do("change")
MockPrices(c) == IF c.op = "create" THEN Do("make") ELSE Do("read")
MockSubscriptions(c) == IF c.op = "create" THEN Do("make") ELSE IF c.op \in Reads THEN Do("read") ELSE
                        IF c.op = "cancel" THEN Do(IF "now" \in c.with THEN "cancel" ELSE "windDown") ELSE Do("change")
MockMethods(c) == IF c.op = "attach" THEN Do("make") ELSE IF c.op = "list" THEN Do("read") ELSE Do("change")
\* create() looks for a charge that bears the key; no other create() does.
MockCharges(c) ==
  CASE c.op = "create" -> Keyed("make")
    [] c.op = "retrieve" -> Do("read")
    [] c.op = "capture" -> Do("settle")
    [] c.op = "refund" -> Do(IF "partial" \in c.with THEN "settlePart" ELSE "settleBack")
MockInvoices(c) == IF c.op \in Reads THEN Do("read") ELSE Do("change")
MockCheckout(c) == IF c.op = "create" THEN Do("make") ELSE Do("read")
MockLinks(c) == IF c.op = "create" THEN Do("make") ELSE IF c.op \in Reads THEN Do("read") ELSE Do("windDown")
Mock(c) == CASE c.of = "customers" -> MockCustomers(c) [] c.of = "products" -> MockProducts(c)
             [] c.of = "prices" -> MockPrices(c) [] c.of = "subscriptions" -> MockSubscriptions(c)
             [] c.of = "methods" -> MockMethods(c) [] c.of = "charges" -> MockCharges(c)
             [] c.of = "invoices" -> MockInvoices(c) [] c.of = "checkout" -> MockCheckout(c)
             [] c.of = "links" -> MockLinks(c)
MockStatus(state) == CASE state = "taken" -> "succeeded" [] state = "partly" -> "partial_refunded"
                       [] state = "refunded" -> "refunded" [] OTHER -> "requires_action"
MockNext(kind) == CASE kind = "card" -> "none" [] kind \in {"promptpay", "paynow", "fps"} -> "display_qr"
                    [] kind = "konbini" -> "voucher" [] OTHER -> "redirect"

(***************************************************************************)
(* What the provider makes of a request.                                   *)
(***************************************************************************)
Plan(c) == CASE driver = "stripe" -> Stripe(c) [] driver = "omise" -> Omise(c) [] driver = "mock" -> Mock(c)
Declares(of, op) == CASE driver = "stripe" -> StripeDeclares(of, op) [] driver = "omise" -> OmiseDeclares(of, op)
                      [] driver = "mock" -> TRUE
Idempotent == driver # "omise"
Status(state) == CASE driver = "stripe" -> StripeStatus(state) [] driver = "omise" -> OmiseStatus(state)
                   [] driver = "mock" -> MockStatus(state)
NextActions(c, state) ==
  IF c.of # "charges" \/ state # "awaiting" THEN {"none"}
  ELSE CASE driver = "stripe" -> {StripeNext(c.kind, b) : b \in BOOLEAN}
         [] driver = "omise" -> {OmiseNext(c.kind, b) : b \in BOOLEAN}
         [] driver = "mock" -> {MockNext(c.kind)}

\* The state a made object starts in.  An intent that is not confirmed holds nothing.
Fresh(c) == IF c.of # "charges" THEN {"live"}
            ELSE IF driver = "stripe" /\ "hold" \in c.with THEN {"unconfirmed"}
            ELSE IF c.kind # "card" THEN {"awaiting"}
            ELSE IF driver = "mock" THEN {IF "hold" \in c.with THEN "held" ELSE "taken"}
            ELSE IF "hold" \in c.with THEN {"held", "declined", "awaiting"} ELSE {"taken", "declined", "awaiting"}
\* The states a request finds and the one it leaves, the same one where "same".
Effect(does) ==
  LET E(from, to) == [from |-> from, to |-> to] IN
  CASE does \in {"read", "change"} -> E({"live", "ending", "taken", "held", "awaiting", "declined", "refunded", "partly", "reversed"}, "same")
    [] does = "remove" -> E({"live", "ending"}, "gone")
    [] does = "cancel" -> E({"live", "ending"}, "ending")
    [] does = "windDown" -> E({"live", "ending"}, "ending")
    [] does = "capture" -> E({"held"}, "taken")
    [] does = "refund" -> E({"taken", "partly"}, "refunded")
    [] does = "refundPart" -> E({"taken", "partly"}, "partly")
    [] does = "settle" -> E({"taken", "held", "awaiting", "refunded", "partly"}, "taken")
    [] does = "settleBack" -> E({"taken", "held", "awaiting", "refunded", "partly"}, "refunded")
    [] does = "settlePart" -> E({"taken", "held", "awaiting", "refunded", "partly"}, "partly")

Idle(a) == call[a] = NoCall
Twin(c) == {i \in DOMAIN objects : objects[i].of = c.of /\ objects[i].keyed}
Nothing == [is |-> "none", status |-> "none", next |-> "none", id |-> 0]

Init == /\ driver \in Drivers /\ order \in KeyedCalls /\ objects = <<>> /\ customer = 0
        /\ call = [a \in Caller |-> NoCall] /\ left = [a \in Caller |-> <<>>]
        /\ answer = [a \in Caller |-> Nothing] /\ lost = 0 /\ made = 0

\* A call starts: refused before any request, or on its way.
Start(a, c, plan) ==
  /\ made < MaxCalls /\ made' = made + 1
  /\ IF plan = Refuse
     THEN answer' = [answer EXCEPT ![a] = [Nothing EXCEPT !.is = "unsupported", !.status = c.op]] /\ UNCHANGED <<call, left>>
     ELSE /\ call' = [call EXCEPT ![a] = c] /\ left' = [left EXCEPT ![a] = plan]
          /\ answer' = [answer EXCEPT ![a] = Nothing]
  /\ UNCHANGED <<driver, order, objects, customer, lost>>

\* The order, or the same order once more: a retry, a second submit.  Through the billable a
\* stored customer is read instead of made.
Order(a) ==
  /\ Idle(a)
  /\ LET c == [order EXCEPT !.key = TRUE] IN
     IF "billable" \in c.with /\ customer # 0
     THEN Start(a, [c EXCEPT !.op = "retrieve", !.target = customer], Do("read"))
     ELSE Start(a, c, Plan(c))

\* A call on an object that was made, or one that needs none.
Use(a, c, i) ==
  /\ Idle(a) /\ objects # <<>> /\ i \in DOMAIN objects
  /\ c.of = objects[i].of \/ c.op \in {"create", "void", "detach"}
  /\ Start(a, [c EXCEPT !.target = i], Plan(c))

\* The answer to the last request becomes the DTO; the billable stores a customer it made.
Answer(a, i, state) ==
  LET c == call[a] IN
  \E next \in NextActions([c EXCEPT !.kind = objects'[i].kind], state) :
    /\ answer' = [answer EXCEPT ![a] = [is |-> "answered", next |-> next, id |-> i,
                                        status |-> IF c.of = "charges" THEN Status(state) ELSE state]]
    /\ customer' = IF "billable" \in c.with /\ c.op = "create" THEN i ELSE customer
    /\ call' = [call EXCEPT ![a] = NoCall] /\ left' = [left EXCEPT ![a] = <<>>]

Fails(a) == /\ answer' = [answer EXCEPT ![a] = [Nothing EXCEPT !.is = "failed"]] /\ UNCHANGED customer
            /\ call' = [call EXCEPT ![a] = NoCall] /\ left' = [left EXCEPT ![a] = <<>>]

\* More requests follow the answered one, or none does.
Goes(a, i, state, again) ==
  IF again THEN /\ left' = [left EXCEPT ![a] = Tail(@)] /\ call' = [call EXCEPT ![a].target = i]
                /\ UNCHANGED <<answer, customer>>
  ELSE Answer(a, i, state)

\* The request is served: by what was answered to its key before, by a new object, or by the target.
Serve(a, reply) ==
  LET c == call[a] r == Head(left[a]) rest == Len(left[a]) > 1
      twins == IF r.keyed /\ c.key THEN Twin(c) ELSE {} IN
  CASE r.does = "make" /\ twins # {} ->
         /\ UNCHANGED objects
         /\ LET i == CHOOSE i \in twins : TRUE IN
            IF reply /\ objects[i].first # "declined" THEN Goes(a, i, objects[i].first, rest /\ objects[i].first = "taken")
            ELSE Fails(a)
    [] r.does = "make" /\ twins = {} ->
         /\ Len(objects) < MaxObjects
         /\ \E s \in Fresh(c) :
              /\ objects' = Append(objects, [of |-> c.of, keyed |-> c.key, kind |-> c.kind, first |-> s, state |-> s])
              /\ IF reply /\ ~(driver = "stripe" /\ s = "declined") THEN Goes(a, Len(objects) + 1, s, rest /\ s = "taken")
                 ELSE Fails(a)
    [] r.does = "source" ->
         /\ Len(objects) < MaxObjects
         /\ objects' = Append(objects, [of |-> "sources", keyed |-> FALSE, kind |-> c.kind, first |-> "live", state |-> "live"])
         /\ IF reply THEN Goes(a, Len(objects) + 1, "live", TRUE) ELSE Fails(a)
    [] r.does \in {"readIfSettled", "readIfUnanswered"} ->
         UNCHANGED objects /\ IF reply THEN Answer(a, c.target, objects[c.target].state) ELSE Fails(a)
    [] OTHER ->
         IF c.of \in {"charges", "customers", "subscriptions", "links"} /\ objects[c.target].of = c.of
            /\ objects[c.target].state \in Effect(r.does).from
            /\ ~(driver = "stripe" /\ objects[c.target].state = "awaiting")   \* an intent has no charge yet
         THEN /\ objects' = [objects EXCEPT ![c.target].state = IF Effect(r.does).to = "same" THEN @ ELSE Effect(r.does).to]
              /\ IF reply THEN \E again \in (IF rest THEN (IF left[a][2].does = "change" THEN {TRUE} ELSE BOOLEAN) ELSE {FALSE}) :
                                 Goes(a, c.target, objects'[c.target].state, again)
                 ELSE Fails(a)
         ELSE UNCHANGED objects /\ Fails(a)   \* the provider's error, or the mock's "not found"

Sent(a) == /\ left[a] # <<>> /\ Serve(a, TRUE) /\ UNCHANGED <<driver, order, lost, made>>

\* The answer is lost after the request was served, or the request before it.
AnswerLost(a) == /\ left[a] # <<>> /\ driver # "mock" /\ lost < MaxLost /\ lost' = lost + 1
                 /\ Serve(a, FALSE) /\ UNCHANGED <<driver, order, made>>
RequestLost(a) == /\ left[a] # <<>> /\ driver # "mock" /\ lost < MaxLost /\ lost' = lost + 1
                  /\ Fails(a) /\ UNCHANGED <<driver, order, objects, made>>

\* The payer pays or does not; a hold runs out.
Settle(i) ==
  /\ i \in DOMAIN objects /\ driver # "mock"
  /\ \E s \in CASE objects[i].state = "awaiting" -> {"taken", "declined"} [] objects[i].state = "held" -> {"reversed"} [] OTHER -> {} :
       objects' = [objects EXCEPT ![i].state = s]
  /\ UNCHANGED <<driver, order, customer, call, left, answer, lost, made>>

Next == \/ \E a \in Caller : \/ Order(a) \/ Sent(a) \/ AnswerLost(a) \/ RequestLost(a)
                             \/ \E c \in OtherCalls, i \in DOMAIN objects : Use(a, c, i)
        \/ \E i \in DOMAIN objects : Settle(i)

Spec == Init /\ [][Next]_vars

-----------------------------------------------------------------------------
(* A driver that declares "idempotency" makes one charge for a key, however   *)
(* many callers come with it and whatever is lost on the way; Stripe does so  *)
(* for all that takes a key (idem, stripe_driver.ts; MockDriver charges).     *)
OncePerKey == \A of \in {"charges", "customers", "subscriptions", "links", "checkout"} :
  Idempotent /\ (driver = "mock" => of = "charges") =>
    Cardinality({i \in DOMAIN objects : objects[i].of = of /\ objects[i].keyed}) <= 1

(* Without it each call makes at most one: duplicates are bounded by calls,   *)
(* and what has no charge to it (a source) by what was lost.                  *)
NoMoreThanAsked ==
  LET Made(of) == Cardinality({i \in DOMAIN objects : objects[i].of = of})
      Busy == Cardinality({a \in Caller : ~Idle(a)}) IN
  Made("sources") > 0 => Made("sources") <= Made("charges") + lost + Busy

(* What a call refuses as unsupported it refuses before any request, so it    *)
(* leaves nothing at the provider; a kind of payment method that is declared  *)
(* is not refused when its return URL is there, one that is not always is.    *)
RefusalIsDeclared == made = 0 =>
  \A k \in AllKinds, w \in SUBSET {"hold"} :
    Declares("charges", k) <=> Plan(Call("charges", "create", k, w \cup {"returnUrl"})) # Refuse

(* The same for whole operations: one that no input gets past a driver is not *)
(* declared by it, one that every input passes is.                            *)
OperationIsDeclared == made = 0 =>
  \A c \in KeyedCalls \cup OtherCalls : c.op \notin {"retrieve"} =>
    LET same == {d \in KeyedCalls \cup OtherCalls : d.of = c.of /\ d.op = c.op} IN
    Declares(c.of, c.op) <=> \E d \in same : Plan(d) # Refuse

(* "succeeded" was money taken, and "refunded" money given back or never      *)
(* taken; the next action of a pending charge is one the driver declares.     *)
AnswersAreTrue ==
  \A a \in Caller : answer[a].is = "answered" /\ objects[answer[a].id].of = "charges" =>
    /\ answer[a].status = "succeeded" => objects[answer[a].id].state \in {"taken", "partly", "refunded"}
    /\ answer[a].status = "refunded" /\ driver # "mock" => objects[answer[a].id].state \in {"refunded", "reversed"}
    /\ answer[a].next # "none" => Declares("next", answer[a].next)

PaymentDriversInv == OncePerKey /\ NoMoreThanAsked /\ RefusalIsDeclared /\ OperationIsDeclared /\ AnswersAreTrue
=============================================================================
