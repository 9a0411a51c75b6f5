---------------------------- MODULE DeliveryProofs ----------------------------
(***************************************************************************)
(* Proofs about what MCDelivery checks: a provider's webhook event that is   *)
(* retried (PaymentWebhook) and a run of a tool loop (ToolLoop), each for    *)
(* all values of its constants.  The two share no state; their proofs share  *)
(* no definition.                                                            *)
(***************************************************************************)
EXTENDS PaymentWebhook, ToolLoop, FiniteSetTheorems, TLAPS

(***************************************************************************)
(* WebhookInv of PaymentWebhook, for any events, requests, registrations    *)
(* and bounds.  The four properties are not inductive by themselves: that   *)
(* no handler runs twice rests on one request holding a claimed event       *)
(* (ClaimHeld) and on how far it has come (Progress); that events in order  *)
(* leave the newest row, on the request whose event may still change the    *)
(* ledger being alone with the object's newest event (InTurn).  ClaimInv    *)
(* joins them.  Each action first gets a lemma that says what it does to    *)
(* the tables and to its own request, then one that keeps ClaimInv.         *)
(***************************************************************************)

\* Registrations are numbered, so an event's handlers are a set of numbers.
LEMMA HandlerNumbers ==
    ASSUME NEW e PROVE /\ Handlers(e) \subseteq DOMAIN Registered
                       /\ DOMAIN Registered \subseteq Nat
<1>1. DOMAIN Registered = 1..Len(Registered) /\ Len(Registered) \in Nat
  BY WebhookAssumption
<1> QED BY <1>1 DEF Handlers

\* An event that reaches the ledger leaves its own version there.
LEMMA MirroredVersion ==
    ASSUME NEW e \in Event, NEW old PROVE /\ Mirrored(e) \in BOOLEAN
                                          /\ Mirrored(e) => ApplyEvent(old, e) = e.version
<1>1. CarriesFields(e) \in BOOLEAN
  BY DEF CarriesFields
<1>2. Mirrored(e) \in BOOLEAN
  BY <1>1, WebhookAssumption DEF Mirrored
<1>3. ASSUME Mirrored(e) PROVE ApplyEvent(old, e) = e.version
  <2>1. CarriesFields(e)
    BY <1>3 DEF Mirrored
  <2>2. Type(e) # "customer.deleted"
    BY <2>1 DEF CarriesFields, CustomerUpserts, SubscriptionUpserts, InvoiceUpserts
  <2> QED BY <2>1, <2>2 DEF ApplyEvent, Upsert
<1> QED BY <1>2, <1>3

\* The fields of a request.
LEMMA RequestFields ==
    ASSUME TypeOK, NEW r \in Request
    PROVE  /\ req[r] \in Requests /\ req[r].phase \in Phase /\ req[r].event \in Event \cup {NoEvent}
           /\ req[r].next \in Nat /\ req[r].draft \in Nat /\ req[r].wrote \in BOOLEAN
           /\ req[r].phase # "idle" =>
                 /\ req[r].event \in Event /\ req[r].event.object \in Objects
                 /\ req[r].event.version \in Nat /\ req[r].event.version # 0
<1>1. req[r] \in Requests
  BY DEF TypeOK
<1>2. req[r].phase = "idle" <=> req[r].event = NoEvent
  BY DEF TypeOK
<1> QED BY <1>1, <1>2, WebhookAssumption DEF Requests, Objects, NoRow

\* A request that is not served.
LEMMA IdleFields ==
    /\ Idle \in Requests /\ Idle.phase = "idle" /\ Idle.event = NoEvent
    /\ Idle.next = 1 /\ Idle.draft = 0 /\ Idle.wrote = FALSE
BY DEF Idle, Requests, Phase, NoRow

\* A step leaves the other requests alone, and what it makes of its own.
Others(r) == \A s \in Request \ {r} : req'[s] = req[s]
Fields(r, phase, event, next, draft, wrote) ==
    /\ req'[r].phase = phase /\ req'[r].event = event /\ req'[r].next = next
    /\ req'[r].draft = draft /\ req'[r].wrote = wrote

\* One request changes to a well-formed record; the types of the rest are given.
LEMMA TypesKept ==
    ASSUME TypeOK, NEW r \in Request, NEW new \in Requests, req' = [req EXCEPT ![r] = new],
           new.phase = "idle" <=> new.event = NoEvent,
           claim' \in [Event -> {"none", "received", "processed"}], row' \in [Objects -> Nat],
           runs' \in [Event -> [DOMAIN Registered -> Nat]],
           acked' \subseteq Event, reordered' \subseteq Objects,
           throws' \in 0..MaxThrows, faults' \in 0..MaxFaults
    PROVE  TypeOK' /\ req'[r] = new /\ Others(r)
<1>1. req \in [Request -> Requests]
  BY DEF TypeOK
<1>2. req' \in [Request -> Requests] /\ req'[r] = new /\ \A s \in Request \ {r} : req'[s] = req[s]
  BY <1>1
<1>3. \A s \in Request : req'[s].phase = "idle" <=> req'[s].event = NoEvent
  <2> TAKE s \in Request
  <2>1. CASE s = r
    BY <1>2, <2>1
  <2>2. CASE s # r
    BY <1>2, <2>2 DEF TypeOK
  <2> QED BY <2>1, <2>2
<1>4. TypeOK'
  BY <1>2, <1>3 DEF TypeOK
<1> QED BY <1>2, <1>4 DEF Others

\* A delivery fills an idle request's record, and marks at most the event's object.
LEMMA DeliverEffect ==
    ASSUME TypeOK, NEW r \in Request, NEW e \in Event, Deliver(r, e)
    PROVE  /\ TypeOK' /\ Others(r) /\ At(r, "idle")
           /\ Fields(r, "verified", e, 1, 0, FALSE)
           /\ UNCHANGED <<claim, row, runs, acked, throws, faults>>
<1> DEFINE new == [Idle EXCEPT !.phase = "verified", !.event = e]
<1>1. /\ new \in Requests /\ new.phase = "verified" /\ new.event = e /\ e # NoEvent
      /\ new.next = 1 /\ new.draft = 0 /\ new.wrote = FALSE
  BY WebhookAssumption DEF Idle, Requests, Phase, NoRow
<1>2. At(r, "idle") /\ req' = [req EXCEPT ![r] = new]
      /\ UNCHANGED <<claim, row, runs, acked, throws, faults>>
  BY DEF Deliver
<1>3. reordered' \subseteq Objects
  <2>1. e.object \in Objects
    BY DEF Objects
  <2> QED BY <2>1 DEF Deliver, TypeOK
<1> HIDE DEF new
<1>4. new.phase = "idle" <=> new.event = NoEvent
  BY <1>1
<1>5. TypeOK' /\ req'[r] = new /\ Others(r)
  BY <1>1, <1>2, <1>3, <1>4, TypesKept DEF TypeOK
<1> QED BY <1>1, <1>2, <1>5 DEF Fields

\* The request goes to another phase of its event.
LEMMA GotoRecord ==
    ASSUME TypeOK, NEW r \in Request, ~At(r, "idle"), NEW phase \in Phase \ {"idle"}, Goto(r, phase)
    PROVE  \E new \in Requests :
              /\ req' = [req EXCEPT ![r] = new] /\ (new.phase = "idle" <=> new.event = NoEvent)
              /\ new.phase = phase /\ new.event = req[r].event /\ new.next = req[r].next
              /\ new.draft = req[r].draft /\ new.wrote = req[r].wrote
<1> DEFINE new == [req[r] EXCEPT !.phase = phase]
<1>1. req[r] \in Requests /\ req[r].event # NoEvent
  BY DEF TypeOK, At
<1>2. /\ new \in Requests /\ new.phase = phase /\ new.event = req[r].event
      /\ new.next = req[r].next /\ new.draft = req[r].draft /\ new.wrote = req[r].wrote
  BY <1>1 DEF Requests
<1>3. req' = [req EXCEPT ![r] = new]
  BY <1>1 DEF Goto, Requests, TypeOK
<1> HIDE DEF new
<1> QED BY <1>1, <1>2, <1>3

\* An answer loses nothing but the fault it may cost.
LEMMA AnswerTypes ==
    ASSUME TypeOK, NEW e \in Event, Answer(e)
    PROVE  /\ acked' \subseteq acked \cup {e} /\ acked' \subseteq Event
           /\ faults' \in 0..MaxFaults /\ faults <= faults'
<1>1. acked \subseteq Event /\ faults \in 0..MaxFaults /\ MaxFaults \in Nat
  BY WebhookAssumption DEF TypeOK
<1> QED BY <1>1 DEF Answer

\* A duplicate frees its request; the answer may arrive or cost a fault.
LEMMA DuplicateEffect ==
    ASSUME TypeOK, NEW r \in Request, Duplicate(r)
    PROVE  /\ TypeOK' /\ Others(r) /\ At(r, "verified") /\ ~Claimable(req[r].event)
           /\ Fields(r, "idle", NoEvent, 1, 0, FALSE)
           /\ UNCHANGED <<claim, row, runs, reordered, throws>>
           /\ acked' \subseteq acked \cup {req[r].event} /\ faults <= faults'
<1>1. /\ At(r, "verified") /\ ~Claimable(req[r].event) /\ req' = [req EXCEPT ![r] = Idle]
      /\ Answer(req[r].event) /\ UNCHANGED <<claim, row, runs, reordered, throws>>
  BY DEF Duplicate, End
<1>2. req[r].event \in Event
  BY <1>1, RequestFields DEF At
<1>3. TypeOK' /\ req'[r] = Idle /\ Others(r)
  BY <1>1, <1>2, IdleFields, AnswerTypes, TypesKept DEF TypeOK
<1> QED BY <1>1, <1>2, <1>3, IdleFields, AnswerTypes DEF Fields

\* A claim writes the dedup row and sends the request on by what the event is.
LEMMA ClaimEffect ==
    ASSUME TypeOK, NEW r \in Request, Claim(r)
    PROVE  /\ TypeOK' /\ Others(r) /\ At(r, "verified") /\ Claimable(req[r].event)
           /\ claim' = [claim EXCEPT ![req[r].event] = "received"]
           /\ Fields(r, IF ~Normalized(req[r].event) THEN "handled"
                        ELSE IF req[r].event.tenant THEN "claimed" ELSE "dispatch",
                     req[r].event, req[r].next, req[r].draft, req[r].wrote)
           /\ UNCHANGED <<row, runs, acked, reordered, throws, faults>>
<1> DEFINE e == req[r].event
           phase == IF ~Normalized(e) THEN "handled" ELSE IF e.tenant THEN "claimed" ELSE "dispatch"
<1>1. /\ At(r, "verified") /\ Claimable(e) /\ claim' = [claim EXCEPT ![e] = "received"]
      /\ Goto(r, phase) /\ UNCHANGED <<row, runs, acked, reordered, throws, faults>>
  BY DEF Claim
<1>2. phase \in Phase \ {"idle"}
  BY DEF Phase
<1>3. ~At(r, "idle")
  BY <1>1 DEF At
<1> HIDE DEF phase
<1>4. PICK new \in Requests :
        /\ req' = [req EXCEPT ![r] = new] /\ (new.phase = "idle" <=> new.event = NoEvent)
        /\ new.phase = phase /\ new.event = req[r].event /\ new.next = req[r].next
        /\ new.draft = req[r].draft /\ new.wrote = req[r].wrote
  BY <1>1, <1>2, <1>3, GotoRecord
<1>5. claim' \in [Event -> {"none", "received", "processed"}]
  BY <1>1 DEF TypeOK
<1>6. TypeOK' /\ req'[r] = new /\ Others(r)
  BY <1>1, <1>4, <1>5, TypesKept DEF TypeOK
<1>7. Fields(r, phase, req[r].event, req[r].next, req[r].draft, req[r].wrote)
  BY <1>4, <1>6 DEF Fields
<1> QED BY <1>1, <1>6, <1>7 DEF phase

\* BEGIN changes the request's phase alone.
LEMMA BeginTenantEffect ==
    ASSUME TypeOK, NEW r \in Request, BeginTenant(r)
    PROVE  /\ TypeOK' /\ Others(r) /\ At(r, "claimed")
           /\ Fields(r, "tenant", req[r].event, req[r].next, req[r].draft, req[r].wrote)
           /\ UNCHANGED <<claim, row, runs, acked, reordered, throws, faults>>
<1>1. /\ At(r, "claimed") /\ Goto(r, "tenant")
      /\ UNCHANGED <<claim, row, runs, acked, reordered, throws, faults>>
  BY DEF BeginTenant
<1>2. "tenant" \in Phase \ {"idle"} /\ ~At(r, "idle")
  BY <1>1 DEF Phase, At
<1>4. PICK new \in Requests :
        /\ req' = [req EXCEPT ![r] = new] /\ (new.phase = "idle" <=> new.event = NoEvent)
        /\ new.phase = "tenant" /\ new.event = req[r].event /\ new.next = req[r].next
        /\ new.draft = req[r].draft /\ new.wrote = req[r].wrote
  BY <1>1, <1>2, GotoRecord
<1>6. TypeOK' /\ req'[r] = new /\ Others(r)
  BY <1>1, <1>4, TypesKept DEF TypeOK
<1> QED BY <1>1, <1>4, <1>6 DEF Fields

\* The upsert leaves the event's version as the request's uncommitted row.
LEMMA SyncRowEffect ==
    ASSUME TypeOK, NEW r \in Request, SyncRow(r)
    PROVE  /\ TypeOK' /\ Others(r) /\ At(r, "tenant")
           /\ Fields(r, "dispatch", req[r].event, req[r].next,
                     IF Mirrored(req[r].event) THEN req[r].event.version ELSE 0,
                     Mirrored(req[r].event))
           /\ UNCHANGED <<claim, row, runs, acked, reordered, throws, faults>>
<1> DEFINE e == req[r].event
           draft == IF Mirrored(e) THEN e.version ELSE 0
           wrote == Mirrored(e)
           new == [req[r] EXCEPT !.phase = "dispatch", !.wrote = wrote, !.draft = draft]
<1>1. At(r, "tenant") /\ UNCHANGED <<claim, row, runs, acked, reordered, throws, faults>>
  BY DEF SyncRow
<1>2. e \in Event /\ e.version \in Nat /\ req[r] \in Requests /\ e # NoEvent
  BY <1>1, RequestFields DEF At, TypeOK
<1>3. draft \in Nat /\ wrote \in BOOLEAN
  BY <1>2, MirroredVersion
<1>4. req' = [req EXCEPT ![r].phase = "dispatch", ![r].wrote = wrote, ![r].draft = draft]
  <2>1. (IF Mirrored(e) THEN ApplyEvent(row[e.object], e) ELSE NoRow) = draft
    BY <1>2, MirroredVersion DEF NoRow
  <2> QED BY <2>1 DEF SyncRow
<1> HIDE DEF draft, wrote
<1>5. /\ new \in Requests /\ new.phase = "dispatch" /\ new.event = e /\ new.next = req[r].next
      /\ new.draft = draft /\ new.wrote = wrote
  BY <1>2, <1>3 DEF Requests, Phase
<1>6. req' = [req EXCEPT ![r] = new]
  BY <1>2, <1>4 DEF Requests, TypeOK
<1> HIDE DEF new
<1>7. new.phase = "idle" <=> new.event = NoEvent
  BY <1>2, <1>5
<1>8. TypeOK' /\ req'[r] = new /\ Others(r)
  BY <1>1, <1>5, <1>6, <1>7, TypesKept DEF TypeOK
<1>9. Fields(r, "dispatch", e, req[r].next, draft, wrote)
  BY <1>5, <1>8 DEF Fields
<1> QED BY <1>1, <1>8, <1>9 DEF draft, wrote

\* A handler that returned is counted once; the request's place moves behind it.
LEMMA HandleEffect ==
    ASSUME TypeOK, NEW r \in Request, Handle(r)
    PROVE  /\ TypeOK' /\ Others(r) /\ At(r, "dispatch")
           /\ \E i \in Handlers(req[r].event) :
                 /\ i >= req[r].next /\ \A k \in Handlers(req[r].event) : k < i => k < req[r].next
                 /\ Fields(r, "dispatch", req[r].event, i + 1, req[r].draft, req[r].wrote)
                 /\ runs'[req[r].event][i] = runs[req[r].event][i] + 1
                 /\ \A k \in DOMAIN Registered \ {i} : runs'[req[r].event][k] = runs[req[r].event][k]
           /\ \A x \in Event \ {req[r].event} : runs'[x] = runs[x]
           /\ UNCHANGED <<claim, row, acked, reordered, throws, faults>>
<1> DEFINE e == req[r].event
<1>1. At(r, "dispatch") /\ UNCHANGED <<claim, row, acked, reordered, throws, faults>>
  BY DEF Handle
<1>2. e \in Event /\ req[r] \in Requests /\ e # NoEvent
  BY <1>1, RequestFields DEF At, TypeOK
<1>3. PICK i \in Handlers(e) :
        /\ i >= req[r].next /\ \A k \in Handlers(e) : k < i => k < req[r].next
        /\ runs' = [runs EXCEPT ![e] = [@ EXCEPT ![i] = runs[e][i] + 1]]
        /\ req' = [req EXCEPT ![r].next = i + 1]
  BY DEF Handle
<1>4. i \in DOMAIN Registered /\ i \in Nat
  BY <1>3, HandlerNumbers
<1> DEFINE line == [runs[e] EXCEPT ![i] = runs[e][i] + 1]
<1>5. runs \in [Event -> [DOMAIN Registered -> Nat]] /\ runs[e] \in [DOMAIN Registered -> Nat]
  BY <1>2 DEF TypeOK
<1>6. /\ line \in [DOMAIN Registered -> Nat] /\ line[i] = runs[e][i] + 1
      /\ \A k \in DOMAIN Registered \ {i} : line[k] = runs[e][k]
  BY <1>4, <1>5
<1>7. runs' = [runs EXCEPT ![e] = line]
  BY <1>3
<1> HIDE DEF line
<1>8. /\ runs' \in [Event -> [DOMAIN Registered -> Nat]] /\ runs'[e] = line
      /\ \A x \in Event \ {e} : runs'[x] = runs[x]
  BY <1>2, <1>5, <1>6, <1>7
<1> DEFINE new == [req[r] EXCEPT !.next = i + 1]
<1>9. /\ new \in Requests /\ new.phase = "dispatch" /\ new.event = e /\ new.next = i + 1
      /\ new.draft = req[r].draft /\ new.wrote = req[r].wrote
  BY <1>1, <1>2, <1>4 DEF Requests, At
<1>10. req' = [req EXCEPT ![r] = new]
  BY <1>2, <1>3 DEF Requests, TypeOK
<1> HIDE DEF new
<1>11. new.phase = "idle" <=> new.event = NoEvent
  BY <1>2, <1>9
<1>12. TypeOK' /\ req'[r] = new /\ Others(r)
  BY <1>1, <1>8, <1>9, <1>10, <1>11, TypesKept DEF TypeOK
<1>13. Fields(r, "dispatch", e, i + 1, req[r].draft, req[r].wrote)
  BY <1>9, <1>12 DEF Fields
<1> QED BY <1>1, <1>3, <1>6, <1>8, <1>12, <1>13

\* What a COMMIT makes of the ledger.
LEMMA CommittedRows ==
    ASSUME TypeOK, NEW r \in Request, ~At(r, "idle")
    PROVE  /\ Committed(r) \in [Objects -> Nat]
           /\ ~req[r].wrote => Committed(r) = row
           /\ req[r].wrote => /\ Committed(r)[req[r].event.object] = req[r].draft
                              /\ \A o \in Objects \ {req[r].event.object} : Committed(r)[o] = row[o]
<1>1. row \in [Objects -> Nat] /\ req[r].event.object \in Objects /\ req[r].draft \in Nat
  BY RequestFields DEF TypeOK, At
<1> QED BY <1>1 DEF Committed

\* A COMMIT shows what the request wrote, and the request has nothing uncommitted left.
LEMMA CommitEffect ==
    ASSUME TypeOK, NEW r \in Request, Commit(r)
    PROVE  /\ TypeOK' /\ Others(r) /\ AllReturned(r) /\ row' = Committed(r)
           /\ Fields(r, "handled", req[r].event, req[r].next, req[r].draft, FALSE)
           /\ UNCHANGED <<claim, runs, acked, reordered, throws, faults>>
<1>1. /\ AllReturned(r) /\ At(r, "dispatch") /\ row' = Committed(r)
      /\ req' = [req EXCEPT ![r].phase = "handled", ![r].wrote = FALSE]
      /\ UNCHANGED <<claim, runs, acked, reordered, throws, faults>>
  BY DEF Commit, AllReturned
<1>2. req[r] \in Requests /\ req[r].event # NoEvent /\ ~At(r, "idle")
  BY <1>1, RequestFields DEF At, TypeOK
<1> DEFINE new == [req[r] EXCEPT !.phase = "handled", !.wrote = FALSE]
<1>3. /\ new \in Requests /\ new.phase = "handled" /\ new.event = req[r].event /\ new.next = req[r].next
      /\ new.draft = req[r].draft /\ new.wrote = FALSE
  BY <1>2 DEF Requests, Phase
<1>4. req' = [req EXCEPT ![r] = new]
  BY <1>1, <1>2 DEF Requests, TypeOK
<1> HIDE DEF new
<1>5. new.phase = "idle" <=> new.event = NoEvent
  BY <1>2, <1>3
<1>6. row' \in [Objects -> Nat]
  BY <1>1, <1>2, CommittedRows
<1>7. TypeOK' /\ req'[r] = new /\ Others(r)
  BY <1>1, <1>3, <1>4, <1>5, <1>6, TypesKept DEF TypeOK
<1> QED BY <1>1, <1>3, <1>7 DEF Fields

\* A failure frees the request; the claim or the COMMIT it was sending may have been applied.
LEMMA FailEffect ==
    ASSUME TypeOK, NEW r \in Request, Fail(r)
    PROVE  /\ TypeOK' /\ Others(r) /\ ~At(r, "idle")
           /\ Fields(r, "idle", NoEvent, 1, 0, FALSE)
           /\ \/ UNCHANGED claim
              \/ /\ At(r, "verified") /\ Claimable(req[r].event)
                 /\ claim' = [claim EXCEPT ![req[r].event] = "received"]
           /\ \/ UNCHANGED row
              \/ AllReturned(r) /\ row' = Committed(r)
           /\ UNCHANGED <<runs, acked, reordered, faults>> /\ throws' = throws + 1
<1>1. /\ ~At(r, "idle") /\ throws < MaxThrows /\ throws' = throws + 1
      /\ req' = [req EXCEPT ![r] = Idle] /\ UNCHANGED <<runs, acked, reordered, faults>>
  BY DEF Fail, End
<1>2. \/ UNCHANGED claim
      \/ /\ At(r, "verified") /\ Claimable(req[r].event)
         /\ claim' = [claim EXCEPT ![req[r].event] = "received"]
  BY DEF Fail
<1>3. UNCHANGED row \/ (AllReturned(r) /\ row' = Committed(r))
  BY DEF Fail
<1>4. claim' \in [Event -> {"none", "received", "processed"}]
  BY <1>2 DEF TypeOK
<1>5. row' \in [Objects -> Nat]
  BY <1>1, <1>3, CommittedRows DEF TypeOK
<1>6. throws' \in 0..MaxThrows
  BY <1>1, WebhookAssumption DEF TypeOK
<1>7. TypeOK' /\ req'[r] = Idle /\ Others(r)
  BY <1>1, <1>4, <1>5, <1>6, IdleFields, TypesKept DEF TypeOK
<1> QED BY <1>1, <1>2, <1>3, <1>7, IdleFields DEF Fields

\* processed_at is written and the request is free; the answer may arrive or cost a fault.
LEMMA MarkEffect ==
    ASSUME TypeOK, NEW r \in Request, MarkProcessed(r)
    PROVE  /\ TypeOK' /\ Others(r) /\ At(r, "handled")
           /\ Fields(r, "idle", NoEvent, 1, 0, FALSE)
           /\ claim' = [claim EXCEPT ![req[r].event] = "processed"]
           /\ UNCHANGED <<row, runs, reordered, throws>>
           /\ acked' \subseteq acked \cup {req[r].event} /\ faults <= faults'
<1>1. /\ At(r, "handled") /\ claim' = [claim EXCEPT ![req[r].event] = "processed"]
      /\ req' = [req EXCEPT ![r] = Idle]
      /\ Answer(req[r].event) /\ UNCHANGED <<row, runs, reordered, throws>>
  BY DEF MarkProcessed, End
<1>2. req[r].event \in Event
  BY <1>1, RequestFields DEF At
<1>3. claim' \in [Event -> {"none", "received", "processed"}]
  BY <1>1 DEF TypeOK
<1>4. TypeOK' /\ req'[r] = Idle /\ Others(r)
  BY <1>1, <1>2, <1>3, IdleFields, AnswerTypes, TypesKept DEF TypeOK
<1> QED BY <1>1, <1>2, <1>4, IdleFields, AnswerTypes DEF Fields

\* A crash frees every request and touches no table.
LEMMA CrashEffect ==
    ASSUME TypeOK, Crash
    PROVE  /\ TypeOK' /\ \A r \in Request : req'[r] = Idle
           /\ UNCHANGED <<claim, row, runs, acked, reordered, throws>> /\ faults' = faults + 1
<1>1. /\ faults < MaxFaults /\ faults' = faults + 1 /\ req' = [r \in Request |-> Idle]
      /\ UNCHANGED <<claim, row, runs, acked, reordered, throws>>
  BY DEF Crash
<1>2. faults' \in 0..MaxFaults
  BY <1>1, WebhookAssumption DEF TypeOK
<1>3. req' \in [Request -> Requests] /\ \A r \in Request : req'[r] = Idle
  BY <1>1, IdleFields
<1> QED BY <1>1, <1>2, <1>3, IdleFields DEF TypeOK

-----------------------------------------------------------------------------
(* What the steps leave of the four properties *)

\* The parts of WebhookInv that are about the tables.
Settled == AllOrNothing /\ HandledOnce /\ InOrderIsCurrent /\ \A e \in acked : claim[e] # "none"

\* A step that writes neither table nor runs a handler.
LEMMA QuietSettled ==
    ASSUME WebhookInv, UNCHANGED <<claim, row, runs>>, reordered \subseteq reordered',
           \A e \in acked' : e \in acked \/ claim[e] # "none"
    PROVE  Settled'
<1>1. AllOrNothing' /\ HandledOnce'
  BY DEF WebhookInv, AllOrNothing, HandledOnce
<1>2. InOrderIsCurrent'
  BY DEF WebhookInv, InOrderIsCurrent
<1>3. \A e \in acked' : claim'[e] # "none"
  BY DEF WebhookInv, AckedIsAccounted
<1> QED BY <1>1, <1>2, <1>3 DEF Settled

\* The claim of an event, or its mark once everything is done.
LEMMA ClaimSettled ==
    ASSUME WebhookInv, NEW x \in Event, NEW value \in {"received", "processed"},
           claim' = [claim EXCEPT ![x] = value], UNCHANGED <<row, runs, reordered>>,
           \A e \in acked' : e \in acked \/ e = x,
           value = "processed" /\ Normalized(x) =>
              /\ \A i \in Handlers(x) : runs[x][i] > 0
              /\ Mirrored(x) => row[x.object] # NoRow
              /\ Mirrored(x) /\ x.object \notin reordered => row[x.object] >= x.version
    PROVE  Settled'
<1>1. claim \in [Event -> {"none", "received", "processed"}]
  BY DEF WebhookInv, TypeOK
<1>2. /\ \A e \in Event : claim[e] # "none" => claim'[e] # "none"
      /\ \A e \in Event : claim'[e] = "processed" => claim[e] = "processed" \/ (e = x /\ value = "processed")
      /\ claim'[x] # "none"
  BY <1>1
<1>3. AllOrNothing'
  <2>1. ASSUME NEW o \in Objects, row'[o] # NoRow
        PROVE  \E e \in Event : /\ e.object = o /\ e.version = row'[o] /\ claim'[e] # "none"
                                /\ \A i \in Handlers(e) : runs'[e][i] > 0
    BY <1>2, <2>1 DEF WebhookInv, AllOrNothing
  <2>2. ASSUME NEW e \in Event, claim'[e] = "processed", Normalized(e)
        PROVE  /\ \A i \in Handlers(e) : runs'[e][i] > 0
               /\ Mirrored(e) => row'[e.object] # NoRow
    BY <1>2, <2>2 DEF WebhookInv, AllOrNothing
  <2> QED BY <2>1, <2>2 DEF AllOrNothing
<1>4. HandledOnce'
  BY DEF WebhookInv, HandledOnce
<1>5. InOrderIsCurrent'
  BY <1>2 DEF WebhookInv, InOrderIsCurrent
<1>6. \A e \in acked' : claim'[e] # "none"
  BY <1>2 DEF WebhookInv, AckedIsAccounted, TypeOK
<1> QED BY <1>3, <1>4, <1>5, <1>6 DEF Settled

\* A COMMIT shows the event of a request whose handlers have all returned.
LEMMA CommitSettled ==
    ASSUME ClaimInv, NEW r \in Request, AllReturned(r), row' = Committed(r),
           UNCHANGED <<claim, runs, acked, reordered>>
    PROVE  /\ Settled'
           /\ \A o \in Objects : o # req[r].event.object => row'[o] = row[o]
           /\ \A o \in Objects : row[o] # NoRow => row'[o] # NoRow
           /\ \A i \in Handlers(req[r].event) : runs[req[r].event][i] > 0
           /\ Mirrored(req[r].event) => row'[req[r].event.object] = req[r].event.version
<1> DEFINE e == req[r].event
<1>1. /\ TypeOK /\ At(r, "dispatch") /\ Working(r) /\ e \in Event /\ e.object \in Objects
      /\ e.version \in Nat /\ e.version # NoRow /\ Normalized(e) /\ req[r].next \in Nat
  BY RequestFields DEF ClaimInv, WebhookInv, AllReturned, At, Working, Progress, NoRow
<1>2. \A i \in Handlers(e) : runs[e][i] > 0
  <2>1. \A i \in Handlers(e) : i < req[r].next /\ runs[e][i] = IF i < req[r].next THEN 1 ELSE 0
    BY <1>1 DEF ClaimInv, Progress, AllReturned, At
  <2> QED BY <2>1
<1>3. (req[r].wrote <=> Mirrored(e)) /\ (req[r].wrote => req[r].draft = e.version)
  BY <1>1 DEF ClaimInv, Progress
<1>4. /\ ~req[r].wrote => row' = row
      /\ req[r].wrote => row'[e.object] = e.version /\ \A o \in Objects \ {e.object} : row'[o] = row[o]
  BY <1>1, <1>3, CommittedRows DEF At
<1>5. claim[e] # "none"
  BY <1>1 DEF ClaimInv, ClaimHeld
<1>6. \A o \in Objects : row'[o] = row[o] \/ (o = e.object /\ Mirrored(e) /\ row'[o] = e.version)
  BY <1>3, <1>4
<1>7. \A o \in Objects : row[o] # NoRow => row'[o] # NoRow
  BY <1>1, <1>6
<1>8. AllOrNothing'
  <2>1. ASSUME NEW o \in Objects, row'[o] # NoRow
        PROVE  \E x \in Event : /\ x.object = o /\ x.version = row'[o] /\ claim'[x] # "none"
                                /\ \A i \in Handlers(x) : runs'[x][i] > 0
    <3>1. CASE row'[o] = row[o]
      BY <2>1, <3>1 DEF ClaimInv, WebhookInv, AllOrNothing
    <3>2. CASE o = e.object /\ row'[o] = e.version
      BY <1>1, <1>2, <1>5, <3>2
    <3> QED BY <1>6, <3>1, <3>2
  <2>2. ASSUME NEW x \in Event, claim'[x] = "processed", Normalized(x)
        PROVE  /\ \A i \in Handlers(x) : runs'[x][i] > 0
               /\ Mirrored(x) => row'[x.object] # NoRow
    <3>1. x.object \in Objects
      BY DEF Objects
    <3> QED BY <1>7, <2>2, <3>1 DEF ClaimInv, WebhookInv, AllOrNothing
  <2> QED BY <2>1, <2>2 DEF AllOrNothing
<1>9. HandledOnce'
  BY DEF ClaimInv, WebhookInv, HandledOnce
<1>10. InOrderIsCurrent'
  <2>1. ASSUME NEW x \in Event, claim[x] = "processed", Normalized(x), Mirrored(x),
               x.object \notin reordered
        PROVE  row'[x.object] >= x.version
    <3>1. x.object \in Objects
      BY DEF Objects
    <3>2. CASE row'[x.object] = row[x.object]
      BY <2>1, <3>2 DEF ClaimInv, WebhookInv, InOrderIsCurrent
    <3>3. CASE x.object = e.object /\ row'[x.object] = e.version
      <4>1. Contends(r)
        BY <1>1 DEF Contends
      <4>2. x.version <= e.version
        BY <2>1, <3>3, <4>1 DEF ClaimInv, InTurn
      <4>3. x.version \in Nat
        BY WebhookAssumption
      <4> QED BY <1>1, <3>3, <4>2, <4>3
    <3> QED BY <1>6, <3>1, <3>2, <3>3
  <2> QED BY <2>1 DEF InOrderIsCurrent
<1>11. \A x \in acked' : claim'[x] # "none"
  BY DEF ClaimInv, WebhookInv, AckedIsAccounted
<1> QED BY <1>2, <1>3, <1>4, <1>6, <1>7, <1>8, <1>9, <1>10, <1>11 DEF Settled

\* A handler runs that has not run before.
LEMMA HandleSettled ==
    ASSUME ClaimInv, NEW r \in Request, Handle(r)
    PROVE  Settled' /\ \A e \in Event : \A i \in DOMAIN Registered : runs'[e][i] >= runs[e][i]
<1> DEFINE x == req[r].event
<1>1. /\ TypeOK /\ At(r, "dispatch") /\ Working(r) /\ x \in Event
      /\ UNCHANGED <<claim, row, acked, reordered>>
  BY HandleEffect, RequestFields DEF ClaimInv, WebhookInv, At, Working
<1>2. PICK i \in Handlers(x) :
        /\ i >= req[r].next /\ runs'[x][i] = runs[x][i] + 1
        /\ \A k \in DOMAIN Registered \ {i} : runs'[x][k] = runs[x][k]
  BY <1>1, HandleEffect
<1>3. \A e \in Event \ {x} : runs'[e] = runs[e]
  BY <1>1, HandleEffect
<1>4. i \in DOMAIN Registered /\ i \in Nat /\ req[r].next \in Nat
  BY <1>1, <1>2, HandlerNumbers, RequestFields
<1>5. runs[x][i] = 0
  <2>1. runs[x][i] = IF i < req[r].next THEN 1 ELSE 0
    BY <1>1, <1>2 DEF ClaimInv, Progress, At
  <2> QED BY <1>2, <1>4, <2>1
<1>6. \A e \in Event : \A k \in DOMAIN Registered : runs[e][k] \in Nat
  BY <1>1 DEF TypeOK
<1>7. ASSUME NEW e \in Event, NEW k \in DOMAIN Registered
      PROVE  runs'[e][k] >= runs[e][k] /\ runs'[e][k] <= 1
  <2>1. runs[e][k] \in Nat /\ runs[e][k] <= 1
    BY <1>6 DEF ClaimInv, WebhookInv, HandledOnce
  <2>2. CASE e = x /\ k = i
    BY <1>2, <1>5, <2>2
  <2>3. CASE ~(e = x /\ k = i)
    <3>1. runs'[e][k] = runs[e][k]
      BY <1>2, <1>3, <2>3
    <3> QED BY <2>1, <3>1
  <2> QED BY <2>2, <2>3
<1>8. HandledOnce'
  BY <1>7 DEF HandledOnce
<1>9. \A e \in Event : \A k \in Handlers(e) : runs[e][k] > 0 => runs'[e][k] > 0
  <2> TAKE e \in Event
  <2> TAKE k \in Handlers(e)
  <2>1. k \in DOMAIN Registered
    BY HandlerNumbers
  <2>2. runs'[e][k] >= runs[e][k] /\ runs[e][k] \in Nat
    BY <1>6, <1>7, <2>1
  <2>3. runs'[e][k] \in Nat
    BY <1>1, <2>1, HandleEffect DEF TypeOK
  <2> QED BY <2>2, <2>3
<1>10. AllOrNothing'
  BY <1>1, <1>9 DEF ClaimInv, WebhookInv, AllOrNothing
<1>11. InOrderIsCurrent' /\ \A e \in acked' : claim'[e] # "none"
  BY <1>1 DEF ClaimInv, WebhookInv, InOrderIsCurrent, AckedIsAccounted
<1> QED BY <1>7, <1>8, <1>10, <1>11 DEF Settled

-----------------------------------------------------------------------------
(* Events that no request works on any more *)

\* A step may leave as many more events stuck as it has failures.
LEMMA StuckBound ==
    ASSUME WebhookInv, TypeOK', NEW T, IsFiniteSet(T), Stuck' \subseteq Stuck \cup T,
           Cardinality(T) <= (throws' - throws) + (faults' - faults) * Cardinality(Request)
    PROVE  Cardinality(Stuck') <= throws' + faults' * Cardinality(Request)
<1> DEFINE c == Cardinality(Request)
<1>1. /\ throws \in Nat /\ throws' \in Nat /\ faults \in Nat /\ faults' \in Nat /\ c \in Nat
      /\ Cardinality(Stuck) <= throws + faults * c
  BY WebhookAssumption, FS_CardinalityType DEF WebhookInv, TypeOK, AckedIsAccounted
<1>2. IsFiniteSet(Stuck)
  <2>1. Stuck \subseteq Event
    BY DEF Stuck
  <2> QED BY <2>1, WebhookAssumption, FS_Subset
<1>3. IsFiniteSet(Stuck \cup T)
  BY <1>2, FS_Union
<1>4. Cardinality(Stuck \cup T) = Cardinality(Stuck) + Cardinality(T) - Cardinality(Stuck \cap T)
  BY <1>2, FS_Union
<1>5. Cardinality(Stuck') <= Cardinality(Stuck \cup T)
  BY <1>3, FS_Subset
<1>6. IsFiniteSet(Stuck \cap T) /\ IsFiniteSet(Stuck')
  BY <1>2, <1>3, FS_Subset, FS_Intersection
<1>7. /\ Cardinality(Stuck) \in Nat /\ Cardinality(T) \in Nat /\ Cardinality(Stuck \cap T) \in Nat
      /\ Cardinality(Stuck') \in Nat /\ Cardinality(Stuck \cup T) \in Nat
  BY <1>2, <1>3, <1>6, FS_CardinalityType
<1>8. (faults' - faults) * c = faults' * c - faults * c
  BY <1>1
<1>9. faults * c \in Nat /\ faults' * c \in Nat
  BY <1>1
<1> DEFINE p == faults * c
           q == faults' * c
<1>10. /\ Cardinality(T) <= (throws' - throws) + (q - p) /\ p \in Nat /\ q \in Nat
       /\ Cardinality(Stuck) <= throws + p
  BY <1>1, <1>8, <1>9
<1> HIDE DEF c, p, q
<1>11. Cardinality(Stuck') <= throws' + q
  BY <1>1, <1>4, <1>5, <1>7, <1>10
<1> QED BY <1>11 DEF c, q

\* What a counter has grown by is a natural number.
LEMMA Difference == \A x, y \in Nat : x <= y => y - x \in Nat
  OBVIOUS

\* A step that leaves no event stuck.
LEMMA NoneStuck ==
    ASSUME WebhookInv, TypeOK', Stuck' \subseteq Stuck, throws <= throws', faults <= faults'
    PROVE  Cardinality(Stuck') <= throws' + faults' * Cardinality(Request)
<1>1. IsFiniteSet({}) /\ Cardinality({}) = 0
  BY FS_EmptySet
<1>2. Cardinality(Request) \in Nat
  BY WebhookAssumption, FS_CardinalityType
<1>3. (throws' - throws) \in Nat /\ (faults' - faults) \in Nat
  <2>1. throws \in 0..MaxThrows /\ faults \in 0..MaxFaults
    BY DEF WebhookInv, TypeOK
  <2>2. throws' \in 0..MaxThrows /\ faults' \in 0..MaxFaults
    BY DEF TypeOK
  <2>3. MaxThrows \in Nat /\ MaxFaults \in Nat
    BY WebhookAssumption
  <2>4. throws \in Nat /\ throws' \in Nat /\ faults \in Nat /\ faults' \in Nat
    BY <2>1, <2>2, <2>3
  <2> QED BY <2>4, Difference
<1>4. (faults' - faults) * Cardinality(Request) \in Nat
  BY <1>2, <1>3
<1>5. 0 <= (throws' - throws) + (faults' - faults) * Cardinality(Request)
  BY <1>3, <1>4
<1> QED BY <1>1, <1>5, StuckBound

\* While the request that changes keeps its event and its claim, no other event is left.
LEMMA StillWorked ==
    ASSUME TypeOK, NEW r \in Request, Others(r),
           \A e \in Event : claim'[e] = "received" =>
               \/ claim[e] = "received" /\ (Working(r) /\ req[r].event = e =>
                                            Working(r)' /\ req'[r].event = e)
               \/ Working(r)' /\ req'[r].event = e
    PROVE  Stuck' \subseteq Stuck
<1>1. ASSUME NEW e \in Event, claim'[e] = "received", ~InFlight(e)' PROVE claim[e] = "received" /\ ~InFlight(e)
  <2>1. \A s \in Request : ~(req'[s].event = e /\ Working(s)')
    BY <1>1 DEF InFlight
  <2>2. claim[e] = "received" /\ ~(Working(r) /\ req[r].event = e)
    BY <1>1, <2>1
  <2>3. \A s \in Request \ {r} : ~(req[s].event = e /\ Working(s))
    BY <2>1 DEF Others, Working
  <2> QED BY <2>2, <2>3 DEF InFlight
<1> QED BY <1>1 DEF Stuck

\* A failure leaves at most the event of the request that fails.
LEMMA FailStuck ==
    ASSUME WebhookInv, NEW r \in Request, Fail(r)
    PROVE  Cardinality(Stuck') <= throws' + faults' * Cardinality(Request)
<1> DEFINE x == req[r].event
<1>1. /\ TypeOK /\ TypeOK' /\ Others(r) /\ throws' = throws + 1 /\ faults' = faults
      /\ claim' = claim \/ claim' = [claim EXCEPT ![x] = "received"]
  BY FailEffect DEF WebhookInv
<1>2. Stuck' \subseteq Stuck \cup {x}
  <2>1. ASSUME NEW e \in Event, e # x, claim'[e] = "received", ~InFlight(e)'
        PROVE  claim[e] = "received" /\ ~InFlight(e)
    <3>1. claim[e] = "received"
      BY <1>1, <2>1 DEF TypeOK
    <3>2. \A s \in Request \ {r} : ~(req[s].event = e /\ Working(s))
      BY <1>1, <2>1 DEF InFlight, Others, Working
    <3> QED BY <2>1, <3>1, <3>2 DEF InFlight
  <2> QED BY <2>1 DEF Stuck
<1>3. IsFiniteSet({x}) /\ Cardinality({x}) = 1
  BY FS_Singleton
<1>4. Cardinality(Request) \in Nat /\ throws \in Nat /\ faults \in Nat
  BY <1>1, WebhookAssumption, FS_CardinalityType DEF TypeOK
<1>5. (throws' - throws) + (faults' - faults) * Cardinality(Request) = 1
  BY <1>1, <1>4
<1> QED BY <1>1, <1>2, <1>3, <1>5, StuckBound

\* A crash leaves at most one event for each request.
LEMMA CrashStuck ==
    ASSUME WebhookInv, Crash
    PROVE  Cardinality(Stuck') <= throws' + faults' * Cardinality(Request)
<1> DEFINE T == {req[s].event : s \in Request}
<1>1. /\ TypeOK /\ TypeOK' /\ claim' = claim /\ throws' = throws /\ faults' = faults + 1
  BY CrashEffect DEF WebhookInv
<1>2. Stuck' \subseteq Stuck \cup T
  <2>1. ASSUME NEW e \in Event, claim'[e] = "received", e \notin T PROVE claim[e] = "received" /\ ~InFlight(e)
    BY <1>1, <2>1 DEF InFlight
  <2> QED BY <2>1 DEF Stuck
<1>3. IsFiniteSet(T) /\ Cardinality(T) <= Cardinality(Request)
  <2> DEFINE f == [s \in Request |-> req[s].event]
  <2>1. f \in Surjection(Request, T)
    BY DEF Surjection
  <2> QED BY <2>1, WebhookAssumption, FS_Surjection
<1>4. Cardinality(Request) \in Nat /\ throws \in Nat /\ faults \in Nat
  BY <1>1, WebhookAssumption, FS_CardinalityType DEF TypeOK
<1>5. (throws' - throws) + (faults' - faults) * Cardinality(Request) = Cardinality(Request)
  BY <1>1, <1>4
<1> HIDE DEF T
<1> QED BY <1>1, <1>2, <1>3, <1>5, StuckBound

-----------------------------------------------------------------------------
(* What the steps leave of the request's own part of the invariant *)

\* One request claims, keeps or gives up its event.
LEMMA HeldStep ==
    ASSUME ClaimInv, TypeOK', NEW r \in Request, Others(r),
           Working(r)' => /\ req'[r].event = req[r].event /\ claim'[req[r].event] = "received"
                          /\ Working(r) \/ claim[req[r].event] = "none",
           \A e \in Event : \/ claim'[e] = claim[e]
                            \/ e = req[r].event /\ claim'[e] # "none" /\ (claim[e] = "none" \/ Working(r)),
           \A e \in Event : claim'[e] = "none" => runs'[e] = runs[e]
    PROVE  ClaimHeld'
<1>1. ASSUME NEW s \in Request, Working(s), s # r PROVE ~(Working(r) /\ req[r].event = req[s].event)
  BY <1>1 DEF ClaimInv, ClaimHeld
<1>2. ASSUME NEW s \in Request, Working(s) PROVE req[s].event \in Event /\ claim[req[s].event] = "received"
  BY <1>2, RequestFields DEF ClaimInv, ClaimHeld, WebhookInv, Working
<1>3. \A s \in Request \ {r} : (Working(s)' <=> Working(s)) /\ req'[s].event = req[s].event
  BY DEF Others, Working
<1>4. ASSUME NEW s \in Request, s # r, Working(s)', Working(r)' PROVE req'[r].event # req'[s].event
  BY <1>1, <1>2, <1>3, <1>4
<1>5. ASSUME NEW s \in Request, NEW t \in Request, Working(s)', Working(t)', req'[s].event = req'[t].event
      PROVE  s = t
  <2>1. CASE s # r /\ t # r
    BY <1>3, <1>5, <2>1 DEF ClaimInv, ClaimHeld
  <2> QED BY <1>4, <1>5, <2>1
<1>6. ASSUME NEW s \in Request, Working(s)' PROVE claim'[req'[s].event] = "received"
  <2>1. CASE s = r
    BY <1>6, <2>1
  <2>2. CASE s # r
    BY <1>1, <1>2, <1>3, <1>6, <2>2
  <2> QED BY <2>1, <2>2
<1>7. ASSUME NEW e \in Event, claim'[e] = "none" PROVE \A i \in DOMAIN Registered : runs'[e][i] = 0
  BY <1>7 DEF ClaimInv, ClaimHeld
<1> QED BY <1>5, <1>6, <1>7 DEF ClaimHeld

\* The other requests stay where they were: what they work on is theirs alone.
LEMMA OthersProgress ==
    ASSUME ClaimInv, NEW r \in Request, Others(r), NEW s \in Request, s # r,
           \A e \in Event : runs'[e] = runs[e] \/ (e = req[r].event /\ Working(r)),
           \A o \in Objects : row[o] # NoRow => row'[o] # NoRow
    PROVE  Progress(s)'
<1>1. req'[s] = req[s] /\ Progress(s) /\ TypeOK
  BY DEF Others, ClaimInv, WebhookInv
<1>2. CASE Working(s)
  <2>1. req[s].event \in Event /\ req[s].event.object \in Objects
    BY <1>1, <1>2, RequestFields DEF Working
  <2>2. runs'[req[s].event] = runs[req[s].event]
    BY <1>2, <2>1 DEF ClaimInv, ClaimHeld
  <2> QED BY <1>1, <2>1, <2>2 DEF Progress, Working, At
<1>3. CASE ~Working(s)
  BY <1>1, <1>3 DEF Progress, Working, At
<1> QED BY <1>2, <1>3

\* A request that holds no event, or has not claimed its own.
LEMMA RestProgress ==
    ASSUME NEW r \in Request, req'[r].phase \in {"idle", "verified"}, req'[r].next = 1, req'[r].wrote = FALSE
    PROVE  Progress(r)' /\ ~Working(r)'
BY DEF Progress, Working, At

\* The rule that keeps a contender alone: claims are made by contenders, and none appears.
LEMMA InTurnStep ==
    ASSUME ClaimInv,
           \A s \in Request : Contends(s)' => Contends(s) /\ req'[s].event = req[s].event,
           \A e \in Event : claim'[e] # "none" =>
               claim[e] # "none" \/ \E r \in Request : Contends(r) /\ req[r].event = e,
           reordered \subseteq reordered',
           \A s \in Request : At(s, "handled")' =>
               \/ Normalized(req'[s].event) /\ Mirrored(req'[s].event) =>
                     row'[req'[s].event.object] >= req'[s].event.version
               \/ /\ At(s, "handled")
                  /\ \/ row'[req'[s].event.object] = row[req'[s].event.object]
                     \/ \E t \in Request \ {s} : Contends(t) /\ req[t].event.object = req'[s].event.object
    PROVE  InTurn'
<1>1. ASSUME NEW r \in Request, Contends(r)', req'[r].event.object \notin reordered'
      PROVE  /\ \A s \in Request : Contends(s)' /\ req'[s].event.object = req'[r].event.object => s = r
             /\ \A e \in Event : e.object = req'[r].event.object /\ claim'[e] # "none" =>
                   e.version <= req'[r].event.version
             /\ At(r, "handled")' /\ Normalized(req'[r].event) /\ Mirrored(req'[r].event) =>
                   row'[req'[r].event.object] >= req'[r].event.version
  <2> DEFINE x == req[r].event
  <2>1. Contends(r) /\ req'[r].event = x /\ x.object \notin reordered
    BY <1>1
  <2>2. /\ \A s \in Request : Contends(s) /\ req[s].event.object = x.object => s = r
        /\ \A e \in Event : e.object = x.object /\ claim[e] # "none" => e.version <= x.version
        /\ At(r, "handled") /\ Normalized(x) /\ Mirrored(x) => row[x.object] >= x.version
    BY <2>1 DEF ClaimInv, InTurn
  <2>3. \A s \in Request : Contends(s)' /\ req'[s].event.object = x.object => s = r
    BY <2>2
  <2>4. x.version <= x.version
    <3>1. ~At(r, "idle")
      BY <2>1 DEF Contends, Working, At
    <3> QED BY <3>1, RequestFields DEF ClaimInv, WebhookInv, At
  <2>5. \A e \in Event : e.object = x.object /\ claim'[e] # "none" => e.version <= x.version
    BY <2>2, <2>4
  <2>6. At(r, "handled")' /\ Normalized(x) /\ Mirrored(x) => row'[x.object] >= x.version
    BY <2>1, <2>2
  <2> QED BY <2>1, <2>3, <2>5, <2>6
<1> QED BY <1>1 DEF InTurn

\* The same for one request that claims nothing new, while the ledger rests.
LEMMA InTurnRest ==
    ASSUME ClaimInv, TypeOK', NEW r \in Request, Others(r), row' = row, reordered \subseteq reordered',
           Contends(r)' => Contends(r) /\ req'[r].event = req[r].event,
           At(r, "handled")' => ~Normalized(req'[r].event),
           \A e \in Event : claim'[e] # "none" =>
               claim[e] # "none" \/ (Contends(r) /\ req[r].event = e),
           \A e \in Event : claim[e] # "none" => claim'[e] # "none"
    PROVE  InTurn'
<1>1. ASSUME NEW s \in Request, Contends(s)' PROVE Contends(s) /\ req'[s].event = req[s].event
  <2>1. CASE s = r
    BY <1>1, <2>1
  <2>2. CASE s # r
    <3>1. req'[s] = req[s]
      BY <2>2 DEF Others
    <3>2. CASE Working(s)'
      BY <3>1, <3>2 DEF Contends, Working
    <3>3. CASE At(s, "verified")' /\ Claimable(req[s].event)'
      <4>1. At(s, "verified") /\ req[s].event \in Event /\ claim'[req[s].event] = "none"
        BY <3>1, <3>3, RequestFields DEF At, Claimable, ClaimInv, WebhookInv
      <4> QED BY <3>1, <4>1 DEF Contends, Claimable, ClaimInv, WebhookInv, TypeOK
    <3> QED BY <1>1, <3>1, <3>2, <3>3 DEF Contends, Claimable
  <2> QED BY <2>1, <2>2
<1>2. ASSUME NEW s \in Request, At(s, "handled")', s # r PROVE At(s, "handled")
  BY <1>2 DEF Others, At
<1>3. \A e \in Event : claim'[e] # "none" =>
         claim[e] # "none" \/ \E s \in Request : Contends(s) /\ req[s].event = e
  OBVIOUS
<1>4. \A s \in Request : At(s, "handled")' =>
         \/ Normalized(req'[s].event) /\ Mirrored(req'[s].event) =>
               row'[req'[s].event.object] >= req'[s].event.version
         \/ /\ At(s, "handled")
            /\ \/ row'[req'[s].event.object] = row[req'[s].event.object]
               \/ \E t \in Request \ {s} : Contends(t) /\ req[t].event.object = req'[s].event.object
  BY <1>2
<1> QED BY <1>1, <1>3, <1>4, InTurnStep

-----------------------------------------------------------------------------
(* One step at a time *)

\* What a step has to leave.
LEMMA Whole ==
    ASSUME TypeOK', Settled', Cardinality(Stuck') <= throws' + faults' * Cardinality(Request),
           ClaimHeld', \A s \in Request : Progress(s)', InTurn'
    PROVE  ClaimInv'
BY DEF ClaimInv, WebhookInv, Settled, AckedIsAccounted

\* A delivery: the provider's event is at the door, and in its turn or its object reordered.
LEMMA DeliverStep ==
    ASSUME ClaimInv, NEW r \in Request, NEW e \in Event, Deliver(r, e)
    PROVE  ClaimInv'
<1>1. /\ TypeOK /\ TypeOK' /\ Others(r) /\ At(r, "idle") /\ Fields(r, "verified", e, 1, 0, FALSE)
      /\ UNCHANGED <<claim, row, runs, acked, throws, faults>>
  BY DeliverEffect DEF ClaimInv, WebhookInv
<1>2. reordered \subseteq reordered'
  BY DEF Deliver
<1>3. Progress(r)' /\ ~Working(r)'
  BY <1>1, RestProgress DEF Fields
<1>4. \A s \in Request : Progress(s)'
  BY <1>1, <1>3, OthersProgress
<1>5. ClaimHeld'
  BY <1>1, <1>3, HeldStep
<1>6. Settled'
  BY <1>1, <1>2, QuietSettled DEF ClaimInv
<1>7. ~Working(r)
  BY <1>1 DEF At, Working
<1>8. Stuck' \subseteq Stuck
  BY <1>1, <1>7, StillWorked
<1>9. Cardinality(Stuck') <= throws' + faults' * Cardinality(Request)
  <2>1. throws <= throws' /\ faults <= faults'
    BY <1>1, WebhookAssumption DEF TypeOK
  <2> QED BY <1>1, <1>8, <2>1, NoneStuck DEF ClaimInv
<1>10. InTurn'
  <2>1. CASE claim[e] # "none"
    <3>1. ~Contends(r)'
      BY <1>1, <1>3, <2>1 DEF Contends, Fields, Claimable, At
    <3>2. ~At(r, "handled")'
      BY <1>1 DEF Fields, At
    <3> QED BY <1>1, <1>2, <3>1, <3>2, InTurnRest
  <2>2. CASE claim[e] = "none"
    <3>1. ASSUME NEW s \in Request, s # r
          PROVE  (Contends(s)' <=> Contends(s)) /\ req'[s] = req[s]
      BY <1>1, <3>1 DEF Others, Contends, Working, At, Claimable
    <3>2. ASSUME e.object \notin reordered'
          PROVE  /\ \A s \in Request : req[s].phase # "idle" => req[s].event.object # e.object
                 /\ \A x \in Event : x.object = e.object /\ claim[x] # "none" => ~(x.version > e.version)
      BY <2>2, <3>2 DEF Deliver, Busy
    <3>3. req'[r].event = e /\ ~At(r, "handled")'
      BY <1>1 DEF Fields, At
    <3>4. ASSUME NEW s \in Request, Contends(s)', s # r, req'[s].event.object = e.object
          PROVE  e.object \in reordered'
      <4>1. req[s].phase # "idle"
        BY <3>1, <3>4 DEF Contends, Working, At
      <4> QED BY <3>1, <3>2, <3>4, <4>1
    <3>5. ASSUME NEW s \in Request, Contends(s)', req'[s].event.object \notin reordered'
          PROVE  /\ \A t \in Request : Contends(t)' /\ req'[t].event.object = req'[s].event.object => t = s
                 /\ \A x \in Event : x.object = req'[s].event.object /\ claim'[x] # "none" =>
                       x.version <= req'[s].event.version
                 /\ At(s, "handled")' /\ Normalized(req'[s].event) /\ Mirrored(req'[s].event) =>
                       row'[req'[s].event.object] >= req'[s].event.version
      <4>1. CASE s = r
        <5>1. \A x \in Event : x.version \in Nat
          BY WebhookAssumption
        <5>2. \A x \in Event : x.object = e.object /\ claim[x] # "none" => x.version <= e.version
          BY <3>2, <3>3, <3>5, <4>1, <5>1
        <5> QED BY <1>1, <3>3, <3>4, <3>5, <4>1, <5>2
      <4>2. CASE s # r
        <5>1. Contends(s) /\ req'[s] = req[s] /\ req[s].event.object \notin reordered
          BY <1>2, <3>1, <3>5, <4>2
        <5>2. \A t \in Request : Contends(t)' /\ req'[t].event.object = req[s].event.object => t = s
          BY <3>1, <3>3, <3>4, <3>5, <4>2, <5>1 DEF ClaimInv, InTurn
        <5>3. \A x \in Event : x.object = req[s].event.object /\ claim[x] # "none" =>
                  x.version <= req[s].event.version
          BY <5>1 DEF ClaimInv, InTurn
        <5>4. At(s, "handled") /\ Normalized(req[s].event) /\ Mirrored(req[s].event) =>
                  row[req[s].event.object] >= req[s].event.version
          BY <5>1 DEF ClaimInv, InTurn
        <5> QED BY <1>1, <5>1, <5>2, <5>3, <5>4 DEF At
      <4> QED BY <4>1, <4>2
    <3> QED BY <3>5 DEF InTurn
  <2> QED BY <2>1, <2>2
<1> QED BY <1>1, <1>4, <1>5, <1>6, <1>9, <1>10, Whole

\* A duplicate is answered without touching a table.
LEMMA DuplicateStep ==
    ASSUME ClaimInv, NEW r \in Request, Duplicate(r)
    PROVE  ClaimInv'
<1> DEFINE e == req[r].event
<1>1. /\ TypeOK /\ TypeOK' /\ Others(r) /\ At(r, "verified") /\ ~Claimable(e)
      /\ Fields(r, "idle", NoEvent, 1, 0, FALSE)
      /\ UNCHANGED <<claim, row, runs, reordered, throws>>
      /\ acked' \subseteq acked \cup {e} /\ faults <= faults'
  BY DuplicateEffect DEF ClaimInv, WebhookInv
<1>2. ~Working(r) /\ ~Contends(r)
  BY <1>1 DEF At, Working, Contends
<1>3. Progress(r)' /\ ~Working(r)'
  BY <1>1, RestProgress DEF Fields
<1>4. \A s \in Request : Progress(s)'
  BY <1>1, <1>3, OthersProgress
<1>5. ClaimHeld'
  BY <1>1, <1>3, HeldStep
<1>6. Settled'
  BY <1>1, QuietSettled DEF ClaimInv, Claimable
<1>7. Cardinality(Stuck') <= throws' + faults' * Cardinality(Request)
  <2>1. Stuck' \subseteq Stuck
    BY <1>1, <1>2, StillWorked
  <2>2. throws <= throws'
    BY <1>1, WebhookAssumption DEF TypeOK
  <2> QED BY <1>1, <2>1, <2>2, NoneStuck DEF ClaimInv
<1>8. InTurn'
  <2>1. ~Contends(r)' /\ ~At(r, "handled")'
    BY <1>1, <1>3 DEF Contends, Fields, At
  <2> QED BY <1>1, <2>1, InTurnRest
<1> QED BY <1>1, <1>4, <1>5, <1>6, <1>7, <1>8, Whole

\* The claim: whoever inserts the row has the event to itself.
LEMMA ClaimStep ==
    ASSUME ClaimInv, NEW r \in Request, Claim(r)
    PROVE  ClaimInv'
<1> DEFINE e == req[r].event
           phase == IF ~Normalized(e) THEN "handled" ELSE IF e.tenant THEN "claimed" ELSE "dispatch"
<1>1. /\ TypeOK /\ TypeOK' /\ Others(r) /\ At(r, "verified") /\ Claimable(e)
      /\ claim' = [claim EXCEPT ![e] = "received"]
      /\ Fields(r, phase, e, req[r].next, req[r].draft, req[r].wrote)
      /\ UNCHANGED <<row, runs, acked, reordered, throws, faults>>
  BY ClaimEffect DEF ClaimInv, WebhookInv
<1>2. e \in Event /\ claim[e] = "none" /\ claim'[e] = "received" /\ \A x \in Event \ {e} : claim'[x] = claim[x]
  BY <1>1, RequestFields DEF At, Claimable, TypeOK
<1>3. ~Working(r) /\ Contends(r) /\ Working(r)' /\ req'[r].event = e /\ req'[r].phase = phase
  BY <1>1 DEF At, Working, Contends, Fields
<1>4. req'[r].next = 1 /\ req'[r].wrote = FALSE
  <2>1. req[r].next = 1 /\ ~req[r].wrote /\ req[r].wrote \in BOOLEAN
    BY <1>1, <1>3, RequestFields DEF ClaimInv, Progress, At
  <2> QED BY <1>1, <2>1 DEF Fields
<1>5. Progress(r)'
  <2>1. ASSUME NEW i \in Handlers(e) PROVE runs[e][i] = 0 /\ ~(i < 1)
    <3>1. i \in DOMAIN Registered /\ i \in 1..Len(Registered)
      BY HandlerNumbers, WebhookAssumption
    <3> QED BY <1>2, <3>1 DEF ClaimInv, ClaimHeld
  <2>2. CASE ~Normalized(e)
    BY <1>3, <1>4, <2>2 DEF Progress, Working, At
  <2>3. CASE Normalized(e) /\ e.tenant
    <3>1. req'[r].phase = "claimed"
      BY <1>3, <2>3
    <3> QED BY <1>1, <1>3, <1>4, <2>1, <2>3, <3>1 DEF Progress, Working, At
  <2>4. CASE Normalized(e) /\ ~e.tenant
    <3>1. req'[r].phase = "dispatch" /\ ~Mirrored(e)
      BY <1>3, <2>4 DEF Mirrored
    <3> QED BY <1>1, <1>3, <1>4, <2>1, <2>4, <3>1 DEF Progress, Working, At
  <2> QED BY <2>2, <2>3, <2>4
<1>6. \A s \in Request : Progress(s)'
  BY <1>1, <1>5, OthersProgress
<1>7. ClaimHeld'
  BY <1>1, <1>2, <1>3, HeldStep
<1>8. Settled'
  BY <1>1, <1>2, ClaimSettled DEF ClaimInv
<1>9. Cardinality(Stuck') <= throws' + faults' * Cardinality(Request)
  <2>1. Stuck' \subseteq Stuck
    BY <1>1, <1>2, <1>3, StillWorked
  <2>2. throws <= throws' /\ faults <= faults'
    BY <1>1, WebhookAssumption DEF TypeOK
  <2> QED BY <1>1, <2>1, <2>2, NoneStuck DEF ClaimInv
<1>10. InTurn'
  <2>1. At(r, "handled")' => ~Normalized(e)
    BY <1>3 DEF At
  <2>2. \A x \in Event : claim'[x] # "none" => claim[x] # "none" \/ (Contends(r) /\ e = x)
    BY <1>2, <1>3
  <2>3. \A x \in Event : claim[x] # "none" => claim'[x] # "none"
    BY <1>2
  <2> QED BY <1>1, <1>3, <2>1, <2>2, <2>3, InTurnRest
<1> QED BY <1>1, <1>6, <1>7, <1>8, <1>9, <1>10, Whole

\* A request that stays at work on its event, while no table changes: what is left is its progress.
LEMMA WorkStep ==
    ASSUME ClaimInv, TypeOK', NEW r \in Request, Others(r), Working(r), Working(r)', ~At(r, "handled")',
           req'[r].event = req[r].event, UNCHANGED <<claim, row, acked, reordered, throws, faults>>,
           \A e \in Event \ {req[r].event} : runs'[e] = runs[e], Settled', Progress(r)'
    PROVE  ClaimInv'
<1>1. TypeOK /\ req[r].event \in Event /\ claim[req[r].event] = "received" /\ Contends(r)
  BY RequestFields DEF ClaimInv, ClaimHeld, WebhookInv, Working, Contends
<1>2. \A s \in Request : Progress(s)'
  BY OthersProgress
<1>3. ClaimHeld'
  BY <1>1, HeldStep
<1>4. Cardinality(Stuck') <= throws' + faults' * Cardinality(Request)
  <2>1. Stuck' \subseteq Stuck
    BY <1>1, StillWorked
  <2>2. throws <= throws' /\ faults <= faults'
    BY <1>1, WebhookAssumption DEF TypeOK
  <2> QED BY <2>1, <2>2, NoneStuck DEF ClaimInv
<1>5. InTurn'
  BY <1>1, InTurnRest
<1> QED BY <1>2, <1>3, <1>4, <1>5, Whole

\* BEGIN and the tenant's binding.
LEMMA BeginTenantStep ==
    ASSUME ClaimInv, NEW r \in Request, BeginTenant(r)
    PROVE  ClaimInv'
<1> DEFINE e == req[r].event
<1>1. /\ TypeOK /\ TypeOK' /\ Others(r) /\ At(r, "claimed")
      /\ Fields(r, "tenant", e, req[r].next, req[r].draft, req[r].wrote)
      /\ UNCHANGED <<claim, row, runs, acked, reordered, throws, faults>>
  BY BeginTenantEffect DEF ClaimInv, WebhookInv
<1>2. Working(r) /\ Working(r)' /\ ~At(r, "handled")' /\ req'[r].event = e
  BY <1>1 DEF At, Working, Fields
<1>3. /\ e.tenant /\ req[r].next = 1 /\ ~req[r].wrote /\ Normalized(e)
      /\ \A i \in Handlers(e) : runs[e][i] = IF i < req[r].next THEN 1 ELSE 0
  BY <1>1, <1>2 DEF ClaimInv, Progress, At
<1>4. /\ req'[r].phase = "tenant" /\ req'[r].next = req[r].next /\ req'[r].wrote = req[r].wrote
      /\ runs' = runs
  BY <1>1 DEF Fields
<1>5. Progress(r)'
  BY <1>2, <1>3, <1>4 DEF Progress, At
<1>6. Settled'
  BY <1>1, QuietSettled DEF ClaimInv
<1> QED BY <1>1, <1>2, <1>5, <1>6, WorkStep

\* The ledger's row, written on the transaction and seen by nobody else yet.
LEMMA SyncRowStep ==
    ASSUME ClaimInv, NEW r \in Request, SyncRow(r)
    PROVE  ClaimInv'
<1> DEFINE e == req[r].event
           draft == IF Mirrored(e) THEN e.version ELSE 0
<1>1. /\ TypeOK /\ TypeOK' /\ Others(r) /\ At(r, "tenant")
      /\ Fields(r, "dispatch", e, req[r].next, draft, Mirrored(e))
      /\ UNCHANGED <<claim, row, runs, acked, reordered, throws, faults>>
  BY SyncRowEffect DEF ClaimInv, WebhookInv
<1>2. Working(r) /\ Working(r)' /\ ~At(r, "handled")' /\ req'[r].event = e
  BY <1>1 DEF At, Working, Fields
<1>3. /\ req[r].next = 1 /\ Normalized(e)
      /\ \A i \in Handlers(e) : runs[e][i] = IF i < req[r].next THEN 1 ELSE 0
  BY <1>1, <1>2 DEF ClaimInv, Progress, At
<1>4. /\ req'[r].phase = "dispatch" /\ req'[r].next = req[r].next /\ runs' = runs
      /\ req'[r].wrote = Mirrored(e) /\ (Mirrored(e) => req'[r].draft = e.version)
  BY <1>1 DEF Fields
<1>5. Progress(r)'
  BY <1>2, <1>3, <1>4 DEF Progress, At
<1>6. Settled'
  BY <1>1, QuietSettled DEF ClaimInv
<1> QED BY <1>1, <1>2, <1>5, <1>6, WorkStep

\* A handler returns, and the next one's turn comes.
LEMMA HandleStep ==
    ASSUME ClaimInv, NEW r \in Request, Handle(r)
    PROVE  ClaimInv'
<1> DEFINE e == req[r].event
<1>1. /\ TypeOK /\ TypeOK' /\ Others(r) /\ At(r, "dispatch")
      /\ \A x \in Event \ {e} : runs'[x] = runs[x]
      /\ UNCHANGED <<claim, row, acked, reordered, throws, faults>>
  BY HandleEffect DEF ClaimInv, WebhookInv
<1>2. PICK i \in Handlers(e) :
        /\ i >= req[r].next /\ \A k \in Handlers(e) : k < i => k < req[r].next
        /\ Fields(r, "dispatch", e, i + 1, req[r].draft, req[r].wrote)
        /\ runs'[e][i] = runs[e][i] + 1
        /\ \A k \in DOMAIN Registered \ {i} : runs'[e][k] = runs[e][k]
  BY HandleEffect DEF ClaimInv, WebhookInv
<1>3. Working(r) /\ Working(r)' /\ ~At(r, "handled")' /\ req'[r].event = e
  BY <1>1, <1>2 DEF At, Working, Fields
<1>4. /\ Normalized(e) /\ (req[r].wrote <=> Mirrored(e)) /\ (req[r].wrote => req[r].draft = e.version)
      /\ \A k \in Handlers(e) : runs[e][k] = IF k < req[r].next THEN 1 ELSE 0
  BY <1>1, <1>3 DEF ClaimInv, Progress, At
<1>5. \A k \in Handlers(e) : runs'[e][k] = IF k < i + 1 THEN 1 ELSE 0
  <2> TAKE k \in Handlers(e)
  <2>1. k \in DOMAIN Registered /\ k \in Nat /\ i \in Nat /\ req[r].next \in Nat
    BY <1>1, HandlerNumbers, RequestFields
  <2>2. CASE k = i
    BY <1>2, <1>4, <2>1, <2>2
  <2>3. CASE k < i
    BY <1>2, <1>4, <2>1, <2>3
  <2>4. CASE k > i
    BY <1>2, <1>4, <2>1, <2>4
  <2> QED BY <2>1, <2>2, <2>3, <2>4
<1>6. /\ req'[r].phase = "dispatch" /\ req'[r].next = i + 1
      /\ req'[r].draft = req[r].draft /\ req'[r].wrote = req[r].wrote
  BY <1>2 DEF Fields
<1>7. Progress(r)'
  BY <1>3, <1>4, <1>5, <1>6 DEF Progress, At
<1>8. Settled'
  BY HandleSettled
<1> QED BY <1>1, <1>3, <1>7, <1>8, WorkStep

\* What a COMMIT leaves of the rule of contenders, whether its answer arrives or not.
LEMMA CommitInTurn ==
    ASSUME ClaimInv, TypeOK', NEW r \in Request, AllReturned(r), row' = Committed(r), Others(r),
           UNCHANGED <<claim, runs, acked, reordered>>,
           Contends(r)' => req'[r].event = req[r].event
    PROVE  InTurn'
<1> DEFINE e == req[r].event
<1>1. Contends(r) /\ TypeOK /\ ~At(r, "idle")
  BY DEF AllReturned, At, Contends, Working, ClaimInv, WebhookInv
<1>2. /\ \A o \in Objects : o # e.object => row'[o] = row[o]
      /\ Mirrored(e) => row'[e.object] = e.version
  BY CommitSettled
<1>3. ASSUME NEW s \in Request, Contends(s)' PROVE Contends(s) /\ req'[s].event = req[s].event
  BY <1>1, <1>3 DEF Others, Contends, Working, At, Claimable
<1>4. ASSUME NEW s \in Request, At(s, "handled")'
      PROVE  \/ Normalized(req'[s].event) /\ Mirrored(req'[s].event) =>
                    row'[req'[s].event.object] >= req'[s].event.version
             \/ /\ At(s, "handled")
                /\ \/ row'[req'[s].event.object] = row[req'[s].event.object]
                   \/ \E t \in Request \ {s} : Contends(t) /\ req[t].event.object = req'[s].event.object
  <2>1. CASE s = r
    <3>1. Contends(r)'
      BY <1>4, <2>1 DEF Contends, Working, At
    <3>2. req'[r].event = e /\ e.version \in Nat
      BY <1>1, <3>1, RequestFields DEF At
    <3> QED BY <1>2, <2>1, <3>2
  <2>2. CASE s # r
    <3>1. req'[s] = req[s] /\ At(s, "handled") /\ req[s].event.object \in Objects
      BY <1>1, <1>4, <2>2, RequestFields DEF Others, At
    <3> QED BY <1>1, <1>2, <2>2, <3>1
  <2> QED BY <2>1, <2>2
<1> QED BY <1>3, <1>4, InTurnStep

\* COMMIT.
LEMMA CommitStep ==
    ASSUME ClaimInv, NEW r \in Request, Commit(r)
    PROVE  ClaimInv'
<1> DEFINE e == req[r].event
<1>1. /\ TypeOK /\ TypeOK' /\ Others(r) /\ AllReturned(r) /\ row' = Committed(r)
      /\ Fields(r, "handled", e, req[r].next, req[r].draft, FALSE)
      /\ UNCHANGED <<claim, runs, acked, reordered, throws, faults>>
  BY CommitEffect DEF ClaimInv, WebhookInv
<1>2. /\ Settled' /\ \A o \in Objects : row[o] # NoRow => row'[o] # NoRow
      /\ \A i \in Handlers(e) : runs[e][i] > 0
      /\ Mirrored(e) => row'[e.object] = e.version
  BY <1>1, CommitSettled
<1>3. Working(r) /\ Working(r)' /\ req'[r].event = e /\ At(r, "handled")'
  BY <1>1 DEF At, Working, AllReturned, Fields
<1>4. e \in Event /\ e.version # NoRow /\ claim[e] = "received"
  BY <1>1, <1>3, RequestFields DEF Working, ClaimInv, ClaimHeld, NoRow
<1>5. Progress(r)'
  <2>1. runs' = runs /\ req'[r].phase = "handled" /\ req'[r].wrote = FALSE
    BY <1>1 DEF Fields
  <2> QED BY <1>2, <1>3, <1>4, <2>1 DEF Progress, At
<1>6. \A s \in Request : Progress(s)'
  BY <1>1, <1>2, <1>5, OthersProgress
<1>7. ClaimHeld'
  BY <1>1, <1>3, <1>4, HeldStep
<1>8. Cardinality(Stuck') <= throws' + faults' * Cardinality(Request)
  <2>1. Stuck' \subseteq Stuck
    BY <1>1, <1>3, StillWorked
  <2>2. throws <= throws' /\ faults <= faults'
    BY <1>1, WebhookAssumption DEF TypeOK
  <2> QED BY <1>1, <2>1, <2>2, NoneStuck DEF ClaimInv
<1>9. InTurn'
  BY <1>1, <1>3, CommitInTurn
<1> QED BY <1>1, <1>2, <1>6, <1>7, <1>8, <1>9, Whole

\* A failure: the request is gone, and what it had sent may have been applied.
LEMMA FailStep ==
    ASSUME ClaimInv, NEW r \in Request, Fail(r)
    PROVE  ClaimInv'
<1> DEFINE e == req[r].event
<1>1. /\ TypeOK /\ TypeOK' /\ Others(r) /\ ~At(r, "idle") /\ Fields(r, "idle", NoEvent, 1, 0, FALSE)
      /\ UNCHANGED <<runs, acked, reordered>>
  BY FailEffect DEF ClaimInv, WebhookInv
<1>2. \/ UNCHANGED claim
      \/ At(r, "verified") /\ Claimable(e) /\ claim' = [claim EXCEPT ![e] = "received"]
  BY DEF Fail
<1>3. UNCHANGED row \/ (AllReturned(r) /\ row' = Committed(r))
  BY DEF Fail
<1>4. e \in Event /\ Progress(r)' /\ ~Working(r)' /\ ~Contends(r)' /\ ~At(r, "handled")'
  BY <1>1, RestProgress, RequestFields DEF Fields, At, Contends
<1>5. Cardinality(Stuck') <= throws' + faults' * Cardinality(Request)
  BY FailStuck DEF ClaimInv
<1>6. CASE UNCHANGED <<claim, row>>
  <2>1. Settled'
    BY <1>1, <1>6, QuietSettled DEF ClaimInv
  <2>2. \A s \in Request : Progress(s)'
    BY <1>1, <1>4, <1>6, OthersProgress
  <2>3. ClaimHeld'
    BY <1>1, <1>4, <1>6, HeldStep
  <2>4. InTurn'
    BY <1>1, <1>4, <1>6, InTurnRest
  <2> QED BY <1>1, <1>5, <2>1, <2>2, <2>3, <2>4, Whole
<1>7. CASE AllReturned(r) /\ row' = Committed(r) /\ UNCHANGED claim
  <2>1. Settled' /\ \A o \in Objects : row[o] # NoRow => row'[o] # NoRow
    BY <1>1, <1>7, CommitSettled
  <2>2. \A s \in Request : Progress(s)'
    BY <1>1, <1>4, <1>7, <2>1, OthersProgress
  <2>3. ClaimHeld'
    BY <1>1, <1>4, <1>7, HeldStep
  <2>4. InTurn'
    BY <1>1, <1>4, <1>7, CommitInTurn
  <2> QED BY <1>1, <1>5, <2>1, <2>2, <2>3, <2>4, Whole
<1>8. CASE At(r, "verified") /\ Claimable(e) /\ claim' = [claim EXCEPT ![e] = "received"] /\ UNCHANGED row
  <2>1. claim[e] = "none" /\ claim'[e] = "received" /\ \A x \in Event \ {e} : claim'[x] = claim[x]
    BY <1>1, <1>4, <1>8 DEF Claimable, ClaimInv, WebhookInv, TypeOK
  <2>2. Contends(r)
    BY <1>8 DEF Contends
  <2>3. Settled'
    BY <1>1, <1>4, <1>8, ClaimSettled DEF ClaimInv
  <2>4. \A s \in Request : Progress(s)'
    BY <1>1, <1>4, <1>8, OthersProgress
  <2>5. ClaimHeld'
    BY <1>1, <1>4, <2>1, HeldStep
  <2>6. InTurn'
    BY <1>1, <1>4, <1>8, <2>1, <2>2, InTurnRest
  <2> QED BY <1>1, <1>5, <2>3, <2>4, <2>5, <2>6, Whole
<1>9. ~(AllReturned(r) /\ At(r, "verified"))
  BY DEF AllReturned, At
<1> QED BY <1>2, <1>3, <1>6, <1>7, <1>8, <1>9

\* processed_at: what the event did is done.
LEMMA MarkStep ==
    ASSUME ClaimInv, NEW r \in Request, MarkProcessed(r)
    PROVE  ClaimInv'
<1> DEFINE e == req[r].event
<1>1. /\ TypeOK /\ TypeOK' /\ Others(r) /\ At(r, "handled") /\ Fields(r, "idle", NoEvent, 1, 0, FALSE)
      /\ claim' = [claim EXCEPT ![e] = "processed"] /\ UNCHANGED <<row, runs, reordered, throws>>
      /\ acked' \subseteq acked \cup {e} /\ faults <= faults'
  BY MarkEffect DEF ClaimInv, WebhookInv
<1>2. Working(r) /\ Contends(r) /\ e \in Event
  BY <1>1, RequestFields DEF At, Working, Contends
<1>3. Progress(r)' /\ ~Working(r)' /\ ~Contends(r)' /\ ~At(r, "handled")'
  BY <1>1, RestProgress DEF Fields, At, Contends
<1>4. claim'[e] = "processed" /\ \A x \in Event \ {e} : claim'[x] = claim[x]
  BY <1>1, <1>2 DEF TypeOK
<1>5. claim[e] = "received"
  BY <1>2 DEF ClaimInv, ClaimHeld
<1>6. \A s \in Request : Progress(s)'
  BY <1>1, <1>3, OthersProgress
<1>7. ClaimHeld'
  BY <1>1, <1>2, <1>3, <1>4, HeldStep
<1>8. Settled'
  <2>1. Normalized(e) =>
           /\ \A i \in Handlers(e) : runs[e][i] > 0
           /\ Mirrored(e) => row[e.object] # NoRow
           /\ Mirrored(e) /\ e.object \notin reordered => row[e.object] >= e.version
    BY <1>1, <1>2 DEF ClaimInv, Progress, InTurn
  <2> QED BY <1>1, <1>2, <2>1, ClaimSettled DEF ClaimInv
<1>9. Cardinality(Stuck') <= throws' + faults' * Cardinality(Request)
  <2>1. Stuck' \subseteq Stuck
    BY <1>1, <1>4, StillWorked
  <2>2. throws <= throws'
    BY <1>1, WebhookAssumption DEF TypeOK
  <2> QED BY <1>1, <2>1, <2>2, NoneStuck DEF ClaimInv
<1>10. InTurn'
  <2>1. \A x \in Event : claim'[x] # "none" <=> claim[x] # "none"
    BY <1>4, <1>5
  <2> QED BY <1>1, <1>3, <2>1, InTurnRest
<1> QED BY <1>1, <1>6, <1>7, <1>8, <1>9, <1>10, Whole

\* The server dies.
LEMMA CrashStep ==
    ASSUME ClaimInv, Crash
    PROVE  ClaimInv'
<1>1. /\ TypeOK /\ TypeOK' /\ \A r \in Request : req'[r] = Idle
      /\ UNCHANGED <<claim, row, runs, acked, reordered, throws>>
  BY CrashEffect DEF ClaimInv, WebhookInv
<1>2. \A s \in Request : Progress(s)' /\ ~Working(s)' /\ ~Contends(s)'
  BY <1>1, IdleFields, RestProgress DEF Contends, At
<1>3. Settled'
  BY <1>1, QuietSettled DEF ClaimInv
<1>4. Cardinality(Stuck') <= throws' + faults' * Cardinality(Request)
  BY CrashStuck DEF ClaimInv
<1>5. ClaimHeld'
  BY <1>1, <1>2 DEF ClaimInv, ClaimHeld
<1>6. InTurn'
  BY <1>2 DEF InTurn
<1> QED BY <1>1, <1>2, <1>3, <1>4, <1>5, <1>6, Whole

-----------------------------------------------------------------------------
(* The theorems *)

\* Nothing has been claimed, run, written or answered at the start.
LEMMA InitClaim == Init => ClaimInv
<1> SUFFICES ASSUME Init PROVE ClaimInv
  OBVIOUS
<1>1. /\ claim = [e \in Event |-> "none"] /\ row = [o \in Objects |-> 0] /\ req = [r \in Request |-> Idle]
      /\ runs = [e \in Event |-> [i \in DOMAIN Registered |-> 0]]
      /\ acked = {} /\ reordered = {} /\ throws = 0 /\ faults = 0
  BY DEF Init, NoRow
<1>2. \A r \in Request : /\ req[r].phase = "idle" /\ req[r].event = NoEvent /\ req[r].next = 1
                         /\ req[r].wrote = FALSE
  BY <1>1, IdleFields
<1>3. TypeOK
  BY <1>1, <1>2, IdleFields, WebhookAssumption DEF TypeOK
<1>4. AllOrNothing /\ HandledOnce /\ InOrderIsCurrent
  BY <1>1 DEF AllOrNothing, HandledOnce, InOrderIsCurrent, NoRow
<1>5. AckedIsAccounted
  <2>1. Stuck = {}
    BY <1>1 DEF Stuck
  <2>2. Cardinality(Stuck) = 0 /\ Cardinality(Request) \in Nat
    BY <2>1, WebhookAssumption, FS_EmptySet, FS_CardinalityType
  <2> QED BY <1>1, <2>2 DEF AckedIsAccounted
<1>6. ClaimHeld /\ (\A r \in Request : Progress(r)) /\ InTurn
  BY <1>1, <1>2 DEF ClaimHeld, Progress, InTurn, Working, Contends, At
<1> QED BY <1>3, <1>4, <1>5, <1>6 DEF ClaimInv, WebhookInv

\* Every step keeps the invariant.
LEMMA NextClaim == ClaimInv /\ [Next]_vars => ClaimInv'
<1> SUFFICES ASSUME ClaimInv, [Next]_vars PROVE ClaimInv'
  OBVIOUS
<1>1. ASSUME NEW r \in Request, NEW e \in Event, Deliver(r, e) PROVE ClaimInv'
  BY <1>1, DeliverStep
<1>2. ASSUME NEW r \in Request, Serve(r) PROVE ClaimInv'
  BY <1>2, DuplicateStep, ClaimStep, BeginTenantStep, SyncRowStep, HandleStep, CommitStep, MarkStep DEF Serve
<1>3. ASSUME NEW r \in Request, Fail(r) PROVE ClaimInv'
  BY <1>3, FailStep
<1>4. CASE Crash
  BY <1>4, CrashStep
<1>5. CASE UNCHANGED vars
  BY <1>5 DEF vars, ClaimInv, WebhookInv, TypeOK, AllOrNothing, AckedIsAccounted, HandledOnce, InOrderIsCurrent,
              ClaimHeld, Progress, InTurn, Contends, Working, At, Claimable, Stuck, InFlight
<1> QED BY <1>1, <1>2, <1>3, <1>4, <1>5 DEF Next

\* A claimed event belongs to one request, which has run its handlers up to its place;
\* where nothing was reordered that request is alone with the object's newest event.
THEOREM ClaimInvariant == Spec => []ClaimInv
BY InitClaim, NextClaim, PTL DEF Spec

\* Whatever is delivered, fails or dies: an event's handlers run at most once, its ledger row
\* appears only after all of them, the events left without processed_at are at most one for each
\* failure and each request of a dead server, and events that come in order leave the newest row.
THEOREM WebhookSafe == Spec => []WebhookInv
<1>1. ClaimInv => WebhookInv
  BY DEF ClaimInv
<1> QED BY <1>1, ClaimInvariant, PTL

(***************************************************************************)
(* ToolLoop: whichever of the eighteen loops runs, whatever the model       *)
(* calls, whatever a tool, the gate, the caller and an abort do, the        *)
(* conversation stays balanced and the counters true.  The loops are built  *)
(* from a dozen steps they share.  A lemma for each step shows that it      *)
(* keeps the invariant, with the kinds of calls and the ways to end it is   *)
(* given as parameters; a loop is then a matter of naming its steps.        *)
(***************************************************************************)

\* The bounds the theorems need; every instance of the module has them.
Bounds == MaxBatch \in Nat /\ MaxResumes \in Nat

Ids == Nat \X Nat
Turn == [role : {"assistant", "user"}, ids : SUBSET Ids]
AllKinds == ChatKinds \cup {"respond"}
Phases == Ended \cup {"idle", "top", "started", "asked", "calls", "suspended"}

\* What the variables are; a batch is no longer than its bound, and the next call
\* to run is in it or just behind it.
Typed ==
    /\ loop \in Loops \cup {"none"} /\ pc \in Phases /\ aborted \in BOOLEAN /\ late \in Nat
    /\ gate \in [set : BOOLEAN, asked : SUBSET Ids]
    /\ log \in Seq(Turn)
    /\ batch \in Seq(AllKinds) /\ Len(batch) <= MaxBatch /\ at \in 1..(Len(batch) + 1)
    /\ results \in SUBSET Ids /\ ran \in SUBSET Ids
    /\ count \in [iterations : Nat, usage : Nat, replies : Nat]
    /\ carry \in [iterations : Nat, usage : Nat]
    /\ resumes \in 0..MaxResumes

\* Before a loop is entered nothing has happened.
Fresh == pc = "idle" => loop = "none" /\ ~aborted /\ late = 0 /\ ran = {}

\* A turn of calls is followed by the turn of their results, except the last one.
Answered ==
    \A i \in 1..(Len(log) - 1) : log[i].role = "assistant" =>
        log[i + 1].role = "user" /\ log[i].ids \subseteq log[i + 1].ids

\* The loop asks only behind results, and runs the calls of the last turn.
LastTurn ==
    /\ pc \in {"idle", "top", "started", "asked"} /\ log # <<>> => log[Len(log)].role = "user"
    /\ pc \in {"calls", "suspended"} => log # <<>> /\ log[Len(log)].role = "assistant"
    /\ pc = "calls" => log[Len(log)].ids = Listed(batch, count.replies)

\* What the loop went past has its result.
Passed ==
    pc = "calls" => \A i \in 1..(at - 1) : batch[i] # "foreign" => Id(i) \in results

UserTurns(turns) == {i \in 1..Len(turns) : turns[i].role = "user"}

\* The two counters of a leg and what earlier legs left, at every moment.
Totals ==
    /\ Reported.iterations = Cardinality(UserTurns(log))
    /\ Reported.usage = count.replies

\* Nothing is late before an abort; a Gemini stream has sent at most the request
\* whose start its consumer saw.
Obeyed ==
    /\ ~aborted => late = 0
    /\ loop \in Gemini \cap Streamed /\ pc = "started" => late = 0

ConversationInv ==
    /\ Typed /\ Fresh /\ Answered /\ LastTurn /\ Passed /\ Totals
    /\ Asked /\ Obeyed /\ AbortHolds

LEMMA InitConversation == ASSUME Bounds, LoopInit PROVE ConversationInv
<1>1. Typed
  <2>1. log \in Seq(Turn) /\ batch \in Seq(AllKinds) /\ Len(batch) = 0 BY DEF LoopInit
  <2>2. gate \in [set : BOOLEAN, asked : SUBSET Ids] BY DEF LoopInit
  <2>3. /\ count \in [iterations : Nat, usage : Nat, replies : Nat]
        /\ carry \in [iterations : Nat, usage : Nat]
    BY DEF LoopInit
  <2>4. at \in 1..(Len(batch) + 1) /\ Len(batch) <= MaxBatch /\ resumes \in 0..MaxResumes
    BY <2>1 DEF Bounds, LoopInit
  <2>. QED BY <2>1, <2>2, <2>3, <2>4 DEF LoopInit, Typed, Phases
<1>2. Fresh /\ Answered /\ LastTurn /\ Passed /\ Obeyed
  BY DEF LoopInit, Fresh, Answered, LastTurn, Passed, Obeyed
<1>3. Totals
  <2>1. UserTurns(log) = {} BY DEF LoopInit, UserTurns
  <2>2. Cardinality(UserTurns(log)) = 0 BY <2>1, FS_EmptySet
  <2>. QED BY <2>2 DEF LoopInit, Totals, Reported
<1>4. Asked BY DEF LoopInit, Asked
<1>5. AbortHolds BY DEF LoopInit, AbortHolds
<1>. QED BY <1>1, <1>2, <1>3, <1>4, <1>5 DEF ConversationInv

(* ----------------------------- the entries ------------------------------ *)
\* A run starts with nothing behind it.
LEMMA StartKept ==
    ASSUME ConversationInv, NEW l \in Loops \cap (Buffered \cup Streamed), NEW g \in BOOLEAN, Start(l, g)
    PROVE  ConversationInv'
<1>1. Typed /\ Fresh /\ pc = "idle" BY DEF ConversationInv, Start
<1>2. Typed' BY <1>1 DEF Typed, Start, Phases, round
<1>3. Fresh' BY DEF Start, Fresh
<1>4. (Answered /\ LastTurn)' BY DEF ConversationInv, Start, Answered, LastTurn, round
<1>5. Passed' BY DEF Start, Passed
<1>6. Totals' BY DEF ConversationInv, Start, Totals, Reported, UserTurns
<1>7. Asked' BY <1>1 DEF ConversationInv, Typed, Fresh, Start, Asked, Id, round
<1>8. (Obeyed /\ AbortHolds)' BY <1>1 DEF Fresh, Start, Obeyed, AbortHolds
<1>. QED BY <1>2, <1>3, <1>4, <1>5, <1>6, <1>7, <1>8 DEF ConversationInv

(* ------------------------------ the steps ------------------------------- *)
\* A step that only moves the loop on, to where the last turn allows it.
LEMMA MoveKept ==
    ASSUME ConversationInv, NEW next \in Ended \cup {"started"}, pc # "idle", pc' = next,
           next = "started" => pc = "top" /\ ~aborted,
           UNCHANGED <<leg, aborted, late, log, round, count>>
    PROVE  ConversationInv'
<1>1. Typed' BY DEF ConversationInv, Typed, Phases, leg, round
<1>2. Fresh' /\ Passed' BY DEF Fresh, Passed, Ended
<1>3. (Answered /\ LastTurn)' BY DEF ConversationInv, Answered, LastTurn, leg, round, Ended
<1>4. Totals' BY DEF ConversationInv, Totals, Reported, UserTurns, leg
<1>5. Asked' BY DEF ConversationInv, Asked, Id, leg, round
<1>6. (Obeyed /\ AbortHolds)' BY DEF ConversationInv, Obeyed, AbortHolds, leg, Ended
<1>. QED BY <1>1, <1>2, <1>3, <1>4, <1>5, <1>6 DEF ConversationInv

\* The loop gives up: with an error, without an answer, or at an abort.
LEMMA ThrowKept == ASSUME ConversationInv, pc # "idle", Throw PROVE ConversationInv'
BY MoveKept DEF Throw, Ended

\* A request leaves behind results only; a late one only where the code lets it.
LEMMA SendKept ==
    ASSUME ConversationInv, pc \in {"top", "started"}, Send,
           aborted => \/ loop = "gemini-schema" \/ loop \notin Gemini
                      \/ loop \in Gemini \cap Streamed /\ pc = "started"
    PROVE  ConversationInv'
<1>1. CASE aborted /\ loop \notin Gemini
  BY <1>1, ThrowKept DEF Send
<1>2. CASE ~(aborted /\ loop \notin Gemini)
  <2>0. /\ pc' = "asked" /\ late' = late + (IF aborted THEN 1 ELSE 0)
        /\ UNCHANGED <<leg, aborted, log, round, count>>
    BY <1>2 DEF Send
  <2>7. late' = late + 0 \/ late' = late + 1 BY <2>0, Zenon
  <2>8. late \in Nat BY DEF ConversationInv, Typed
  <2>1. Typed'
    <3>1. late' \in Nat BY <2>7, <2>8
    <3>. QED BY <2>0, <3>1 DEF ConversationInv, Typed, Phases, leg, round
  <2>2. Fresh' /\ Passed' BY <2>0 DEF Fresh, Passed
  <2>3. (Answered /\ LastTurn)' BY <2>0 DEF ConversationInv, Answered, LastTurn, leg, round
  <2>4. Totals' BY <2>0 DEF ConversationInv, Totals, Reported, UserTurns, leg
  <2>5. Asked' BY <2>0 DEF ConversationInv, Asked, Id, leg, round
  <2>6. (Obeyed /\ AbortHolds)'
    <3>1. CASE ~aborted
      <4>1. late' = late + 0 BY <3>1, <2>0, Zenon
      <4>2. late = 0 BY <3>1, Zenon DEF ConversationInv, Obeyed
      <4>3. late' = 0 BY <4>1, <4>2
      <4>. QED BY <4>3 DEF Obeyed, AbortHolds
    <3>2. CASE aborted /\ loop \in Gemini \cap Streamed /\ pc = "started"
      <4>1. late = 0 BY <3>2 DEF ConversationInv, Obeyed
      <4>2. late' <= 1 BY <4>1, <2>7
      <4>3. loop # "gemini-run" BY <3>2 DEF Streamed
      <4>4. UNCHANGED <<loop, aborted>> /\ pc' # "started" BY <2>0 DEF leg
      <4>5. AbortHolds' BY <4>2, <4>3, <4>4, <3>2 DEF AbortHolds
      <4>6. Obeyed' BY <4>4, <3>2, Zenon DEF Obeyed
      <4>. QED BY <4>5, <4>6
    <3>3. CASE aborted /\ loop = "gemini-schema"
      BY <3>3, <2>0 DEF Obeyed, AbortHolds, leg, Gemini, Streamed
    <3>. QED BY <3>1, <3>2, <3>3, <1>2
  <2>. QED BY <2>1, <2>2, <2>3, <2>4, <2>5, <2>6 DEF ConversationInv
<1>. QED BY <1>1, <1>2

\* A batch is a short sequence of calls.
LEMMA AnswersAreBatches ==
    ASSUME Bounds, NEW kinds \in SUBSET AllKinds, NEW b \in Answers(kinds)
    PROVE  b \in Seq(AllKinds) /\ Len(b) <= MaxBatch /\ DOMAIN b = 1..Len(b)
<1>1. PICK n \in 0..MaxBatch : b \in [1..n -> kinds] BY DEF Answers
<1>2. n \in Nat /\ n <= MaxBatch BY DEF Bounds
<1>3. b \in [1..n -> AllKinds] BY <1>1
<1>4. b \in Seq(AllKinds) /\ Len(b) = n BY <1>2, <1>3
<1>. QED BY <1>2, <1>3, <1>4

\* An assistant's turn adds no turn of the user's.
LEMMA AssistantTurn ==
    ASSUME NEW turns \in Seq(Turn), NEW t \in Turn, t.role = "assistant"
    PROVE  UserTurns(Append(turns, t)) = UserTurns(turns)
BY DEF UserTurns, Turn

\* The user's turns are finitely many, and a turn of the user's is one more.
LEMMA UserTurn ==
    ASSUME NEW turns \in Seq(Turn), NEW t \in Turn, t.role = "user"
    PROVE  /\ Cardinality(UserTurns(turns)) \in Nat
           /\ Cardinality(UserTurns(Append(turns, t))) = Cardinality(UserTurns(turns)) + 1
<1>1. UserTurns(turns) \subseteq 1..Len(turns) /\ Len(turns) \in Nat BY DEF UserTurns
<1>2. IsFiniteSet(UserTurns(turns))
  <2>1. IsFiniteSet(1..Len(turns)) BY <1>1, FS_Interval
  <2>. QED BY <1>1, <2>1, FS_Subset
<1>3. UserTurns(Append(turns, t)) = UserTurns(turns) \cup {Len(turns) + 1} BY DEF UserTurns, Turn
<1>4. Len(turns) + 1 \notin UserTurns(turns) BY <1>1
<1>. QED BY <1>2, <1>3, <1>4, FS_AddElement, FS_CardinalityType

\* The ids of a batch's calls, under the number of its reply.
LEMMA ListedIds ==
    ASSUME NEW b \in Seq(AllKinds), NEW reply \in Nat
    PROVE  Listed(b, reply) \in SUBSET Ids
BY DEF Listed, Ids

\* A reply is paid for, its turn goes behind results, and its calls are all still to run.
LEMMA TakeKept ==
    ASSUME Bounds, ConversationInv, pc = "asked", NEW kinds \in SUBSET AllKinds, NEW b \in Answers(kinds),
           NEW next \in {"calls"} \cup Ended, Take(b, next)
    PROVE  ConversationInv'
<1> DEFINE turn == [role |-> "assistant", ids |-> Listed(b, count.replies + 1)]
<1>1. b \in Seq(AllKinds) /\ Len(b) <= MaxBatch /\ DOMAIN b = 1..Len(b) BY AnswersAreBatches
<1>2. Typed BY DEF ConversationInv
<1>3. /\ log' = Append(log, turn) /\ batch' = b /\ at' = 1 /\ results' = {} /\ pc' = next
      /\ UNCHANGED <<loop, gate, carry, pending, resumes, aborted, late, ran>>
  BY DEF Take, leg
<1>4. /\ count' \in [iterations : Nat, usage : Nat, replies : Nat]
      /\ count'.iterations = count.iterations
      /\ count'.usage = count.usage + 1 /\ count'.replies = count.replies + 1
  <2>1. count' = [count EXCEPT !.usage = count.usage + 1, !.replies = count.replies + 1] BY DEF Take
  <2>2. count \in [iterations : Nat, usage : Nat, replies : Nat] BY <1>2 DEF Typed
  <2>3. count.iterations \in Nat /\ count.usage \in Nat /\ count.replies \in Nat BY <2>2
  <2>4. count' = [iterations |-> count.iterations, usage |-> count.usage + 1, replies |-> count.replies + 1]
    BY <2>1, <2>2
  <2>. QED BY <2>3, <2>4
<1>5. turn \in Turn BY <1>1, <1>2, ListedIds DEF Typed, Turn
<1>6. /\ log' \in Seq(Turn) /\ Len(log') = Len(log) + 1
      /\ log'[Len(log')] = turn /\ \A i \in 1..Len(log) : log'[i] = log[i]
  BY <1>2, <1>3, <1>5 DEF Typed
<1> HIDE DEF turn
<1>7. Typed'
  <2>1. pc' \in Phases BY <1>3 DEF Phases
  <2>2. at' \in 1..(Len(batch') + 1) BY <1>1, <1>3
  <2>. QED BY <1>1, <1>2, <1>3, <1>4, <1>6, <2>1, <2>2 DEF Typed
<1>8. Fresh' BY <1>3 DEF Fresh, Ended
<1>9. Answered'
  <2> SUFFICES ASSUME NEW i \in 1..Len(log), log'[i].role = "assistant"
               PROVE  log'[i + 1].role = "user" /\ log'[i].ids \subseteq log'[i + 1].ids
    BY <1>2, <1>6 DEF Answered, Typed
  <2>1. log[i].role = "assistant" BY <1>6
  <2>2. Len(log) \in Nat BY <1>2 DEF Typed
  <2>3. i # Len(log) BY <2>1, <2>2 DEF ConversationInv, LastTurn
  <2>4. i \in 1..(Len(log) - 1) /\ i + 1 \in 1..Len(log) BY <2>2, <2>3
  <2>. QED BY <1>6, <2>1, <2>4 DEF ConversationInv, Answered
<1>10. LastTurn'
  <2>1. turn.role = "assistant" /\ turn.ids = Listed(b, count.replies + 1) BY DEF turn
  <2>2. log' # <<>> BY <1>2, <1>6 DEF Typed
  <2>. QED BY <1>3, <1>4, <1>6, <2>1, <2>2 DEF LastTurn, Ended
<1>11. Passed' BY <1>3 DEF Passed
<1>12. Totals'
  <2>1. UserTurns(log') = UserTurns(log) BY <1>2, <1>3, <1>5, AssistantTurn DEF Typed, turn
  <2>. QED BY <1>2, <1>3, <1>4, <2>1 DEF ConversationInv, Totals, Reported, Typed
<1>13. Asked' BY <1>3 DEF ConversationInv, Asked
<1>14. (Obeyed /\ AbortHolds)' BY <1>3 DEF ConversationInv, Obeyed, AbortHolds, Ended
<1>. QED BY <1>7, <1>8, <1>9, <1>10, <1>11, <1>12, <1>13, <1>14 DEF ConversationInv

\* The loop goes past a call: with a result, or because it is none of its own.
LEMMA PastKept ==
    ASSUME ConversationInv, pc = "calls", at \in DOMAIN batch, at' = at + 1,
           results' = results \cup {Id(at)} \/ (results' = results /\ batch[at] = "foreign"),
           ran' = ran \/ (ran' = ran \cup {Id(at)} /\ (gate.set => Id(at) \in gate.asked)),
           UNCHANGED <<leg, pc, aborted, late, log, count, batch>>
    PROVE  ConversationInv'
<1>1. Typed BY DEF ConversationInv
<1>2. Id(at) \in Ids /\ at \in 1..Len(batch) BY <1>1 DEF Typed, Ids, Id
<1>3. Typed'
  <2>1. at' \in 1..(Len(batch') + 1) BY <1>1, <1>2 DEF Typed
  <2>2. results' \in SUBSET Ids /\ ran' \in SUBSET Ids BY <1>1, <1>2 DEF Typed
  <2>. QED BY <1>1, <2>1, <2>2 DEF Typed, leg
<1>4. Fresh' BY DEF Fresh
<1>5. (Answered /\ LastTurn)' BY DEF ConversationInv, Answered, LastTurn
<1>6. Passed'
  <2> SUFFICES ASSUME NEW i \in 1..at, batch[i] # "foreign" PROVE Id(i) \in results'
    BY <1>2 DEF Passed, Id
  <2>1. CASE i = at BY <2>1
  <2>2. CASE i # at
    <3>1. i \in 1..(at - 1) BY <1>2, <2>2
    <3>. QED BY <3>1 DEF ConversationInv, Passed
  <2>. QED BY <2>1, <2>2
<1>7. Totals' BY DEF ConversationInv, Totals, Reported, UserTurns, leg
<1>8. Asked' BY DEF ConversationInv, Asked, Id, leg
<1>9. (Obeyed /\ AbortHolds)' BY DEF ConversationInv, Obeyed, AbortHolds, leg
<1>. QED BY <1>3, <1>4, <1>5, <1>6, <1>7, <1>8, <1>9 DEF ConversationInv

\* A call that throws inside its tool was let through like one that returns.
LEMMA ThrownToolKept ==
    ASSUME ConversationInv, pc = "calls", at \in DOMAIN batch, pc' = "thrown",
           ran' = ran \cup {Id(at)}, gate.set => Id(at) \in gate.asked,
           UNCHANGED <<leg, aborted, late, log, count, batch, results, at>>
    PROVE  ConversationInv'
<1>1. Typed BY DEF ConversationInv
<1>2. Id(at) \in Ids BY <1>1 DEF Typed, Ids, Id
<1>3. Typed' BY <1>1, <1>2 DEF Typed, leg, Phases, Ended
<1>4. (Fresh /\ Passed)' BY DEF Fresh, Passed
<1>5. (Answered /\ LastTurn)' BY DEF ConversationInv, Answered, LastTurn
<1>6. Totals' BY DEF ConversationInv, Totals, Reported, UserTurns, leg
<1>7. Asked' BY DEF ConversationInv, Asked, Id, leg
<1>8. (Obeyed /\ AbortHolds)' BY DEF ConversationInv, Obeyed, AbortHolds, leg
<1>. QED BY <1>3, <1>4, <1>5, <1>6, <1>7, <1>8 DEF ConversationInv

\* runToolWithRecovery, with a tool that is there or not, and arguments that do not parse.
LEMMA RunToolKept == ASSUME ConversationInv, RunTool \/ RunUnparsed PROVE ConversationInv'
<1>1. pc = "calls" /\ at \in DOMAIN batch BY DEF RunTool, RunUnparsed
<1>2. ASSUME Recover(at) PROVE ConversationInv'
  <2>1. CASE Throw BY <2>1, <1>1, ThrowKept
  <2>2. CASE ~Throw
    <3>1. /\ results' = results \cup {Id(at)} /\ at' = at + 1 /\ ran' = ran
          /\ UNCHANGED <<leg, pc, aborted, late, log, count, batch>>
      BY <1>2, <2>2 DEF Recover
    <3>. QED BY <3>1, <1>1, PastKept, Zenon
  <2>. QED BY <2>1, <2>2
<1>3. ASSUME Execute(at), gate.set => Id(at) \in gate.asked PROVE ConversationInv'
  <2>1. CASE pc' = "thrown" /\ UNCHANGED <<results, at>>
    BY <1>1, <1>3, <2>1, ThrownToolKept DEF Execute
  <2>2. CASE results' = results \cup {Id(at)} /\ at' = at + 1 /\ pc' = pc
    <3>1. ran' = ran \cup {Id(at)} /\ UNCHANGED <<leg, pc, aborted, late, log, count, batch>>
      BY <1>3, <2>2 DEF Execute
    <3>. QED BY <3>1, <1>1, <1>3, <2>2, PastKept, Zenon
  <2>. QED BY <1>3, <2>1, <2>2 DEF Execute
<1>4. CASE RunTool
  <2>1. \/ Execute(at) /\ (gate.set => Id(at) \in gate.asked)
        \/ Recover(at)
    BY <1>4 DEF RunTool
  <2>. QED BY <2>1, <1>2, <1>3
<1>5. CASE RunUnparsed BY <1>5, <1>2 DEF RunUnparsed
<1>. QED BY <1>4, <1>5

\* A call that is not the loop's own needs no result.
LEMMA SkipForeignKept == ASSUME ConversationInv, SkipForeign PROVE ConversationInv'
<1>1. /\ pc = "calls" /\ at \in DOMAIN batch /\ batch[at] = "foreign" /\ at' = at + 1
      /\ UNCHANGED <<leg, pc, aborted, late, log, count, batch, results, ran>>
  BY DEF SkipForeign
<1>2. results' = results /\ ran' = ran /\ UNCHANGED <<leg, pc, aborted, late, log, count, batch>>
  BY <1>1
<1>. QED BY <1>1, <1>2, PastKept, Zenon

\* The gate lets a call through, or the run stops before it.
LEMMA AskGateKept == ASSUME ConversationInv, AskGate PROVE ConversationInv'
<1>1. Typed /\ pc = "calls" /\ at \in DOMAIN batch BY DEF ConversationInv, AskGate
<1>2. /\ UNCHANGED <<loop, aborted, late, log, round, count, carry, resumes>>
      /\ \/ gate' = [gate EXCEPT !.asked = gate.asked \cup {Id(at)}] /\ pc' = pc
         \/ pc' = "suspended" /\ gate' = gate
  BY DEF AskGate
<1>3. Id(at) \in Ids BY <1>1 DEF Typed, Ids, Id
<1>4. /\ gate' \in [set : BOOLEAN, asked : SUBSET Ids]
      /\ gate'.set = gate.set /\ gate.asked \subseteq gate'.asked
  BY <1>1, <1>2, <1>3 DEF Typed
<1>5. Typed' BY <1>1, <1>2, <1>4 DEF Typed, Phases, round
<1>6. Fresh' BY <1>1, <1>2 DEF Fresh
<1>7. (Answered /\ LastTurn)' BY <1>1, <1>2 DEF ConversationInv, Answered, LastTurn, round
<1>8. Passed' BY <1>1, <1>2 DEF ConversationInv, Passed, Id, round
<1>9. Totals' BY <1>2 DEF ConversationInv, Totals, Reported, UserTurns
<1>10. Asked' BY <1>2, <1>4 DEF ConversationInv, Asked, Id, round
<1>11. (Obeyed /\ AbortHolds)' BY <1>1, <1>2 DEF ConversationInv, Obeyed, AbortHolds
<1>. QED BY <1>5, <1>6, <1>7, <1>8, <1>9, <1>10, <1>11 DEF ConversationInv

\* A user's turn is put behind a turn whose calls it answers, and the leg or the
\* run counts one more round.
LEMMA UserTurnKept ==
    ASSUME ConversationInv, pc \in {"calls", "suspended"}, NEW given \in SUBSET Ids,
           log[Len(log)].ids \subseteq given,
           log' = Append(log, [role |-> "user", ids |-> given])
    PROVE  /\ log' \in Seq(Turn) /\ log' # <<>> /\ log'[Len(log')].role = "user" /\ Answered'
           /\ Cardinality(UserTurns(log')) = Cardinality(UserTurns(log)) + 1
<1> DEFINE turn == [role |-> "user", ids |-> given]
<1>1. Typed BY DEF ConversationInv
<1>2. turn \in Turn BY DEF Turn
<1>3. /\ log' \in Seq(Turn) /\ Len(log') = Len(log) + 1 /\ Len(log) \in Nat
      /\ log'[Len(log')] = turn /\ \A i \in 1..Len(log) : log'[i] = log[i]
  BY <1>1, <1>2 DEF Typed
<1>4. turn.role = "user" /\ turn.ids = given OBVIOUS
<1>5. Cardinality(UserTurns(log')) = Cardinality(UserTurns(log)) + 1
  BY <1>1, <1>2, <1>4, UserTurn DEF Typed
<1> HIDE DEF turn
<1>6. Answered'
  <2> SUFFICES ASSUME NEW i \in 1..Len(log), log'[i].role = "assistant"
               PROVE  log'[i + 1].role = "user" /\ log'[i].ids \subseteq log'[i + 1].ids
    BY <1>3 DEF Answered
  <2>1. CASE i = Len(log) BY <2>1, <1>3, <1>4
  <2>2. CASE i # Len(log)
    <3>1. i \in 1..(Len(log) - 1) /\ i + 1 \in 1..Len(log) BY <1>3, <2>2
    <3>. QED BY <1>3, <3>1 DEF ConversationInv, Answered
  <2>. QED BY <2>1, <2>2
<1>7. log' # <<>> BY <1>3
<1>. QED BY <1>3, <1>4, <1>5, <1>6, <1>7

\* The results of a round go back, all of them; the loop asks again or ends.
LEMMA RoundKept ==
    ASSUME Bounds, ConversationInv, NEW atMax \in SUBSET Ended, Round(atMax)
    PROVE  ConversationInv'
<1>1. Typed /\ pc = "calls" /\ at = Len(batch) + 1 BY DEF ConversationInv, Round
<1>2. /\ log' = Append(log, [role |-> "user", ids |-> results])
      /\ batch' = <<>> /\ at' = 1 /\ results' = {} /\ ran' = {}
      /\ gate' = [gate EXCEPT !.asked = {}]
      /\ UNCHANGED <<loop, aborted, late, carry, pending, resumes>>
  BY DEF Round
<1>3. pc' \in Ended \cup {"top"} BY DEF Round
<1>4. /\ count' \in [iterations : Nat, usage : Nat, replies : Nat]
      /\ count'.iterations = count.iterations + 1
      /\ count'.usage = count.usage /\ count'.replies = count.replies
  <2>1. count' = [count EXCEPT !.iterations = count.iterations + 1] BY DEF Round
  <2>. QED BY <2>1, <1>1 DEF Typed
<1>5. log[Len(log)].ids \subseteq results
  <2>1. log[Len(log)].ids = Listed(batch, count.replies) BY <1>1 DEF ConversationInv, LastTurn
  <2> SUFFICES ASSUME NEW i \in DOMAIN batch, batch[i] # "foreign" PROVE Id(i) \in results
    BY <2>1 DEF Listed, Id
  <2>2. i \in 1..(at - 1) BY <1>1 DEF Typed
  <2>. QED BY <1>1, <2>2 DEF ConversationInv, Passed
<1>6. results \in SUBSET Ids BY <1>1 DEF Typed
<1>7. /\ log' \in Seq(Turn) /\ log' # <<>> /\ log'[Len(log')].role = "user" /\ Answered'
      /\ Cardinality(UserTurns(log')) = Cardinality(UserTurns(log)) + 1
  BY <1>1, <1>2, <1>5, <1>6, UserTurnKept
<1>8. Typed'
  <2>1. gate' \in [set : BOOLEAN, asked : SUBSET Ids] BY <1>1, <1>2 DEF Typed
  <2>2. batch' \in Seq(AllKinds) /\ Len(batch') = 0 BY <1>2
  <2>3. at' \in 1..(Len(batch') + 1) /\ Len(batch') <= MaxBatch BY <1>2, <2>2 DEF Bounds
  <2>4. pc' \in Phases BY <1>3 DEF Phases
  <2>5. results' \in SUBSET Ids /\ ran' \in SUBSET Ids BY <1>2
  <2>. QED BY <1>1, <1>2, <1>4, <1>7, <2>1, <2>2, <2>3, <2>4, <2>5 DEF Typed
<1>9. (Fresh /\ Passed)' BY <1>3 DEF Fresh, Passed, Ended
<1>10. LastTurn' BY <1>3, <1>7 DEF LastTurn, Ended
<1>11. Totals'
  <2>1. /\ count.iterations \in Nat /\ carry.iterations \in Nat /\ carry' = carry
        /\ count.iterations + carry.iterations = Cardinality(UserTurns(log))
        /\ count.usage + carry.usage = count.replies
    BY <1>1, <1>2 DEF ConversationInv, Totals, Reported, Typed
  <2>2. count'.iterations + carry'.iterations = Cardinality(UserTurns(log'))
    BY <1>4, <1>7, <2>1
  <2>3. count'.usage + carry'.usage = count'.replies BY <1>4, <2>1
  <2>. QED BY <2>2, <2>3 DEF Totals, Reported
<1>12. Asked' BY <1>2 DEF Asked
<1>13. (Obeyed /\ AbortHolds)' BY <1>2, <1>3 DEF ConversationInv, Obeyed, AbortHolds, Ended
<1>. QED BY <1>7, <1>8, <1>9, <1>10, <1>11, <1>12, <1>13 DEF ConversationInv

\* A suspended run goes on with results for all calls of its last turn; its counters
\* are carried over and its round counts.
LEMMA ResumeKept ==
    ASSUME Bounds, ConversationInv, NEW given \in SUBSET Calls(log[Len(log)]), Resume(given)
    PROVE  ConversationInv'
<1>1. Typed /\ pc = "suspended" BY DEF ConversationInv, Resume
<1>2. /\ log' = Append(log, [role |-> "user", ids |-> given])
      /\ pc' = "top" /\ aborted' = FALSE /\ late' = 0 /\ UNCHANGED loop
      /\ batch' = <<>> /\ at' = 1 /\ results' = {} /\ ran' = {}
      /\ gate' = [gate EXCEPT !.asked = {}]
      /\ resumes < MaxResumes /\ resumes' = resumes + 1
  BY DEF Resume
<1>3. log # <<>> /\ log[Len(log)].role = "assistant" BY <1>1 DEF ConversationInv, LastTurn
<1>4. log[Len(log)] \in Turn BY <1>1, <1>3 DEF Typed
<1>5. given \in SUBSET Ids /\ log[Len(log)].ids \subseteq given
  BY <1>3, <1>4 DEF Resume, Covers, Calls, Turn
<1>6. /\ log' \in Seq(Turn) /\ log' # <<>> /\ log'[Len(log')].role = "user" /\ Answered'
      /\ Cardinality(UserTurns(log')) = Cardinality(UserTurns(log)) + 1
  BY <1>1, <1>2, <1>5, UserTurnKept
<1>7. /\ count' \in [iterations : Nat, usage : Nat, replies : Nat]
      /\ count'.iterations = 0 /\ count'.usage = 0 /\ count'.replies = count.replies
  BY <1>1 DEF Resume, Typed
<1>8. /\ carry' \in [iterations : Nat, usage : Nat]
      /\ carry'.iterations = count.iterations + carry.iterations + 1
      /\ carry'.usage = count.usage + carry.usage
  <2>1. carry' = [iterations |-> Reported.iterations + 1, usage |-> Reported.usage] BY DEF Resume, Carried
  <2>2. /\ count.iterations \in Nat /\ count.usage \in Nat
        /\ carry.iterations \in Nat /\ carry.usage \in Nat
    BY <1>1 DEF Typed
  <2>. QED BY <2>1, <2>2 DEF Reported
<1>9. Typed'
  <2>1. gate' \in [set : BOOLEAN, asked : SUBSET Ids] BY <1>1, <1>2 DEF Typed
  <2>2. batch' \in Seq(AllKinds) /\ Len(batch') = 0 BY <1>2
  <2>3. at' \in 1..(Len(batch') + 1) /\ Len(batch') <= MaxBatch BY <1>2, <2>2 DEF Bounds
  <2>4. pc' \in Phases /\ aborted' \in BOOLEAN /\ late' \in Nat BY <1>2 DEF Phases
  <2>5. results' \in SUBSET Ids /\ ran' \in SUBSET Ids BY <1>2
  <2>6. resumes' \in 0..MaxResumes BY <1>1, <1>2 DEF Typed, Bounds
  <2>. QED BY <1>1, <1>2, <1>6, <1>7, <1>8, <2>1, <2>2, <2>3, <2>4, <2>5, <2>6 DEF Typed
<1>10. (Fresh /\ Passed)' BY <1>2 DEF Fresh, Passed
<1>11. LastTurn' BY <1>2, <1>6 DEF LastTurn
<1>12. Totals'
  <2>1. /\ count.iterations \in Nat /\ carry.iterations \in Nat
        /\ count.usage \in Nat /\ carry.usage \in Nat
        /\ count.iterations + carry.iterations = Cardinality(UserTurns(log))
        /\ count.usage + carry.usage = count.replies
    BY <1>1 DEF ConversationInv, Totals, Reported, Typed
  <2>2. count'.iterations + carry'.iterations = Cardinality(UserTurns(log'))
    BY <1>6, <1>7, <1>8, <2>1
  <2>3. count'.usage + carry'.usage = count'.replies BY <1>7, <1>8, <2>1
  <2>. QED BY <2>2, <2>3 DEF Totals, Reported
<1>13. Asked' BY <1>2 DEF Asked
<1>14. (Obeyed /\ AbortHolds)' BY <1>2 DEF Obeyed, AbortHolds
<1>. QED BY <1>6, <1>9, <1>10, <1>11, <1>12, <1>13, <1>14 DEF ConversationInv

\* The caller aborts, or leaves a stream.
LEMMA CallerKept == ASSUME ConversationInv, Abort \/ Abandon PROVE ConversationInv'
<1>1. CASE Abandon
  <2>1. pc # "idle" /\ pc' = "abandoned" /\ UNCHANGED <<leg, aborted, late, log, round, count>>
    BY <1>1 DEF Abandon
  <2>. QED BY <2>1, MoveKept DEF Ended
<1>2. CASE Abort
  <2>1. pc # "idle" /\ ~aborted /\ aborted' = TRUE /\ UNCHANGED <<leg, pc, late, log, round, count>>
    BY <1>2 DEF Abort
  <2>2. Typed' BY <2>1 DEF ConversationInv, Typed, leg, round
  <2>3. (Fresh /\ Passed)' BY <2>1 DEF ConversationInv, Fresh, Passed, Id, round
  <2>4. (Answered /\ LastTurn)' BY <2>1 DEF ConversationInv, Answered, LastTurn, round
  <2>5. Totals' BY <2>1 DEF ConversationInv, Totals, Reported, UserTurns, leg
  <2>6. Asked' BY <2>1 DEF ConversationInv, Asked, Id, leg, round
  <2>7. (Obeyed /\ AbortHolds)' BY <2>1 DEF ConversationInv, Obeyed, AbortHolds, leg
  <2>. QED BY <2>2, <2>3, <2>4, <2>5, <2>6, <2>7 DEF ConversationInv
<1>. QED BY <1>1, <1>2

(* ------------------------------ the loops ------------------------------- *)
\* The steps that are the same in every loop that has them.
LEMMA CommonKept ==
    ASSUME ConversationInv,
           \/ Stopped \/ IterationStart \/ Failed \/ Incomplete
           \/ AskGate \/ RunTool \/ RunUnparsed \/ SkipForeign
    PROVE  ConversationInv'
<1>1. CASE Stopped BY <1>1, ThrowKept DEF Stopped
<1>2. CASE Failed BY <1>2, ThrowKept DEF Failed
<1>3. CASE IterationStart BY <1>3, MoveKept DEF IterationStart
<1>4. CASE Incomplete BY <1>4, MoveKept DEF Incomplete, Ended
<1>. QED BY <1>1, <1>2, <1>3, <1>4, AskGateKept, RunToolKept, SkipForeignKept, Zenon

\* The ways to send a request, each with the loops that send it so.
LEMMA AskKept ==
    ASSUME ConversationInv,
           Ask \/ (loop \in Streamed /\ AskStream) \/ (loop = "gemini-schema" /\ AskUnchecked)
    PROVE  ConversationInv'
<1>1. CASE Ask BY <1>1, SendKept DEF Ask
<1>2. CASE loop \in Streamed /\ AskStream
  <2>1. pc = "started" /\ Send BY <1>2 DEF AskStream
  <2>2. loop \notin Gemini \/ (loop \in Gemini \cap Streamed /\ pc = "started") BY <1>2, <2>1
  <2>. QED BY <2>1, <2>2, SendKept
<1>3. CASE loop = "gemini-schema" /\ AskUnchecked BY <1>3, SendKept DEF AskUnchecked
<1>. QED BY <1>1, <1>2, <1>3

\* A reply, whatever decides whether the loop goes on.
LEMMA ReplyKept ==
    ASSUME Bounds, ConversationInv, NEW kinds \in SUBSET AllKinds, NEW after \in SUBSET Ended,
           \/ ReplyByStopReason(kinds, after) \/ ReplyByBoth(kinds, after) \/ ReplyByCalls(kinds, after)
    PROVE  ConversationInv'
<1>1. pc = "asked" /\ \E b \in Answers(kinds) : \E next \in {"calls"} \cup after : Take(b, next)
  BY DEF ReplyByStopReason, ReplyByBoth, ReplyByCalls
<1>2. PICK b \in Answers(kinds), next \in {"calls"} \cup after : Take(b, next) BY <1>1
<1>3. next \in {"calls"} \cup Ended OBVIOUS
<1>. QED BY <1>1, <1>2, <1>3, TakeKept

\* The compat driver's reply, with its synthetic tool.
LEMMA ReplyForcedKept == ASSUME Bounds, ConversationInv, ReplyForced PROVE ConversationInv'
<1>1. PICK b \in Answers(ChatKinds \cup {"respond"}) :
        \E next \in {"calls"} \cup Parsed : Take(b, next)
  BY DEF ReplyForced, Parsed
<1>2. PICK next \in {"calls"} \cup Parsed : Take(b, next) BY <1>1
<1>3. ChatKinds \cup {"respond"} \in SUBSET AllKinds BY DEF AllKinds
<1>4. next \in {"calls"} \cup Ended BY DEF Parsed, Ended
<1>5. pc = "asked" BY DEF ReplyForced
<1>. QED BY <1>2, <1>3, <1>4, <1>5, TakeKept

\* Each of the eighteen loops is made of steps that keep the invariant.
LEMMA StepKept == ASSUME Bounds, ConversationInv, Step PROVE ConversationInv'
<1>1. (Stopped \/ IterationStart \/ Failed \/ Incomplete
        \/ AskGate \/ RunTool \/ RunUnparsed \/ SkipForeign) => ConversationInv'
  BY CommonKept
<1>2. /\ Ask => ConversationInv'
      /\ loop \in Streamed /\ AskStream => ConversationInv'
      /\ loop = "gemini-schema" /\ AskUnchecked => ConversationInv'
  BY AskKept
<1>3. /\ {"done"} \in SUBSET Ended /\ Parsed \in SUBSET Ended
      /\ {"max"} \in SUBSET Ended /\ ParsedAtMax \in SUBSET Ended /\ {"thrown"} \in SUBSET Ended
  BY DEF Parsed, ParsedAtMax, Ended
<1>4. Kinds \in SUBSET AllKinds /\ ChatKinds \in SUBSET AllKinds /\ JsonKinds \in SUBSET AllKinds
  BY DEF AllKinds, ChatKinds, JsonKinds
<1>5. /\ ReplyByStopReason(Kinds, {"done"}) => ConversationInv'
      /\ ReplyByStopReason(Kinds, Parsed) => ConversationInv'
  BY <1>3, <1>4, ReplyKept
<1>6. /\ ReplyByBoth(ChatKinds, {"done"}) => ConversationInv'
      /\ ReplyByBoth(ChatKinds, Parsed) => ConversationInv'
  BY <1>3, <1>4, ReplyKept
<1>7. /\ ReplyByCalls(Kinds, {"done"}) => ConversationInv'
      /\ ReplyByCalls(Kinds, Parsed) => ConversationInv'
      /\ ReplyByCalls(JsonKinds, {"done"}) => ConversationInv'
      /\ ReplyByCalls(JsonKinds, Parsed) => ConversationInv'
  BY <1>3, <1>4, ReplyKept
<1>8. ReplyForced => ConversationInv' BY ReplyForcedKept
<1>9. /\ Round({"max"}) => ConversationInv'
      /\ Round(ParsedAtMax) => ConversationInv'
      /\ Round({"thrown"}) => ConversationInv'
  BY <1>3, RoundKept
<1>10. loop \in {"anthropic-stream", "anthropic-stream-schema", "openai-stream", "openai-stream-schema",
                     "responses-stream", "responses-stream-schema", "gemini-stream", "gemini-stream-schema",
                     "compat-stream-schema"} => loop \in Streamed
  BY DEF Streamed
<1>11. CASE AnthropicRun
  BY <1>11, <1>1, <1>2, <1>5, <1>9 DEF AnthropicRun, AnthropicRound
<1>12. CASE AnthropicSchema
  BY <1>12, <1>1, <1>2, <1>5, <1>9 DEF AnthropicSchema, AnthropicRound
<1>13. CASE AnthropicStream
  BY <1>13, <1>1, <1>2, <1>5, <1>9, <1>10 DEF AnthropicStream
<1>14. CASE AnthropicStreamSchema
  BY <1>14, <1>1, <1>2, <1>5, <1>9, <1>10 DEF AnthropicStreamSchema
<1>15. CASE OpenAIRun
  BY <1>15, <1>1, <1>2, <1>6, <1>9 DEF OpenAIRun, OpenAIRound
<1>16. CASE OpenAISchema
  BY <1>16, <1>1, <1>2, <1>6, <1>9 DEF OpenAISchema, OpenAIRound
<1>17. CASE OpenAIStream
  BY <1>17, <1>1, <1>2, <1>6, <1>9, <1>10 DEF OpenAIStream
<1>18. CASE OpenAIStreamSchema
  BY <1>18, <1>1, <1>2, <1>6, <1>9, <1>10 DEF OpenAIStreamSchema
<1>19. CASE ResponsesRun
  BY <1>19, <1>1, <1>2, <1>7, <1>9 DEF ResponsesRun
<1>20. CASE ResponsesSchema
  BY <1>20, <1>1, <1>2, <1>7, <1>9 DEF ResponsesSchema
<1>21. CASE ResponsesStream
  BY <1>21, <1>1, <1>2, <1>7, <1>9, <1>10 DEF ResponsesStream
<1>22. CASE ResponsesStreamSchema
  BY <1>22, <1>1, <1>2, <1>7, <1>9, <1>10 DEF ResponsesStreamSchema
<1>23. CASE GeminiRun
  BY <1>23, <1>1, <1>2, <1>7, <1>9 DEF GeminiRun
<1>24. CASE GeminiSchema
  BY <1>24, <1>1, <1>2, <1>7, <1>9 DEF GeminiSchema
<1>25. CASE GeminiStream
  BY <1>25, <1>1, <1>2, <1>7, <1>9, <1>10 DEF GeminiStream
<1>26. CASE GeminiStreamSchema
  BY <1>26, <1>1, <1>2, <1>7, <1>9, <1>10 DEF GeminiStreamSchema
<1>27. CASE CompatSchema
  BY <1>27, <1>1, <1>2, <1>8, <1>9 DEF CompatSchema
<1>28. CASE CompatStreamSchema
  BY <1>28, <1>1, <1>2, <1>8, <1>9, <1>10 DEF CompatStreamSchema
<1>. QED BY <1>11, <1>12, <1>13, <1>14, <1>15, <1>16, <1>17, <1>18, <1>19,
          <1>20, <1>21, <1>22, <1>23, <1>24, <1>25, <1>26, <1>27, <1>28 DEF Step

\* Every step of every actor keeps the invariant.
LEMMA NextKept == ASSUME Bounds, ConversationInv, [LoopNext]_loopVars PROVE ConversationInv'
<1>1. CASE RunTools
  <2>1. PICK l \in Loops \cap Plain, gated \in BOOLEAN : Start(l, gated) BY <1>1 DEF RunTools
  <2>2. l \in Loops \cap (Buffered \cup Streamed) BY DEF Buffered
  <2>. QED BY <2>1, <2>2, StartKept
<1>2. CASE GenerateWithTools \/ StreamTools
  <2>1. PICK l \in Loops \cap (Buffered \cup Streamed) : Start(l, FALSE)
    BY <1>2 DEF GenerateWithTools, StreamTools
  <2>. QED BY <2>1, StartKept
<1>3. CASE Step BY <1>3, StepKept
<1>4. CASE Abort \/ Abandon BY <1>4, CallerKept
<1>5. CASE pc = "suspended" /\ ResumeTools
  <2>1. PICK given \in SUBSET Calls(log[Len(log)]) : Resume(given) BY <1>5 DEF ResumeTools
  <2>. QED BY <2>1, ResumeKept
<1>6. CASE UNCHANGED loopVars
  BY <1>6 DEF loopVars, ConversationInv, Typed, Fresh, Answered, LastTurn, Passed, Totals, Reported, UserTurns,
              Asked, Obeyed, AbortHolds, Id
<1>. QED BY <1>1, <1>2, <1>3, <1>4, <1>5, <1>6 DEF LoopNext

\* What the invariant says of the moments that ToolLoopInv names.
LEMMA ConversationImplies == ASSUME Bounds, ConversationInv PROVE ToolLoopInv
<1>1. LoopTypeOK BY DEF ConversationInv, Typed, LoopTypeOK, Phases, Bounds
<1>2. Balanced
  <2> SUFFICES ASSUME pc = "asked", NEW i \in 1..Len(log), log[i].role = "assistant"
               PROVE  i < Len(log) /\ log[i + 1].role = "user" /\ Calls(log[i]) \subseteq log[i + 1].ids
    BY DEF Balanced
  <2>1. Len(log) \in Nat BY DEF ConversationInv, Typed
  <2>2. i # Len(log) BY <2>1 DEF ConversationInv, LastTurn
  <2>3. i \in 1..(Len(log) - 1) BY <2>1, <2>2
  <2>. QED BY <2>1, <2>3 DEF ConversationInv, Answered, Calls
<1>3. Counted BY DEF ConversationInv, Totals, UserTurns, Counted
<1>. QED BY <1>1, <1>2, <1>3 DEF ConversationInv, ToolLoopInv

(* ------------------------------ theorems -------------------------------- *)
\* The inductive invariant: at every moment of a run each turn of calls but the last
\* is followed by its results, what the loop went past has its result, and the
\* counters of this leg and of those before it are those of the conversation.
THEOREM ConversationInvariant == ASSUME Bounds PROVE LoopSpec => []ConversationInv
<1>1. LoopInit => ConversationInv BY InitConversation
<1>2. ConversationInv /\ [LoopNext]_loopVars => ConversationInv' BY NextKept
<1>. QED BY <1>1, <1>2, PTL DEF LoopSpec

\* In all eighteen loops, whatever the model asks for and however often a run is
\* suspended and resumed: no request carries a call without its result, tools run
\* only as the gate let them, counters add up, an abort is obeyed.
THEOREM ConversationsHold == ASSUME Bounds PROVE LoopSpec => []ToolLoopInv
<1>1. ConversationInv => ToolLoopInv BY ConversationImplies
<1>. QED BY <1>1, ConversationInvariant, PTL
===============================================================================
