---------------------------- MODULE PaymentWebhook ----------------------------
(***************************************************************************)
(* The route that receives payment providers' webhooks (payment_webhook.ts) *)
(* with its dedup table, the ledger it keeps up to date and the handlers    *)
(* the application registered.  A provider delivers every event at least    *)
(* once, in any order, until it is answered 200; several requests run at    *)
(* once, each suspended at its statements and its handlers, and the server  *)
(* may die.  Signatures, formatting and the columns no property tells apart *)
(* are left out.                                                            *)
(***************************************************************************)
EXTENDS Naturals, Sequences, FiniteSets, TLC

CONSTANTS
    Event,        \* a record each: id, provider, key (the provider's name of the
                  \* type), object, version (its age: 1 is the oldest) and
                  \* tenant (metadata.strav_tenant_id is set)
    Request,      \* requests being served at once
    Registered,   \* sequence of [type, provider] handed to onWebhookEvent
    SyncLedger,   \* config.payment.ledger.syncOnWebhook, with a ledger wired
    MaxThrows,    \* bound: handlers and statements that fail
    MaxFaults     \* bound: server deaths and answers that are lost

EveryProvider == "any"      \* a registration without a provider filter
NoRow == 0
NoEvent == [id |-> "none"]
Objects == {e.object : e \in Event}

ASSUME WebhookAssumption ==
    /\ IsFiniteSet(Event) /\ NoEvent \notin Event
    /\ \A e \in Event : e.version \in Nat \ {NoRow} /\ e.tenant \in BOOLEAN
    /\ IsFiniteSet(Request) /\ SyncLedger \in BOOLEAN
    /\ Registered \in Seq([type : STRING, provider : STRING])
    /\ MaxThrows \in Nat /\ MaxFaults \in Nat

(* ------------------------ what the drivers make of it ------------------- *)
\* The provider's event types that have a name in the framework's union.
StripeTypes ==
    [k \in {"customer.created", "customer.updated", "customer.deleted", "charge.succeeded",
            "charge.failed", "charge.refunded", "invoice.created", "invoice.paid",
            "invoice.payment_failed", "invoice.voided", "payment_method.attached",
            "payment_method.detached"} |-> k]
    @@ ("customer.subscription.created" :> "subscription.created")
    @@ ("customer.subscription.updated" :> "subscription.updated")
    @@ ("customer.subscription.deleted" :> "subscription.canceled")
    @@ ("customer.subscription.trial_will_end" :> "subscription.trial_will_end")
    @@ ("checkout.session.completed" :> "checkout.completed")
    @@ ("checkout.session.expired" :> "checkout.expired")

OmiseTypes ==
    [k \in {"charge.create", "charge.complete", "charge.update", "charge.capture"}
        |-> "charge.succeeded"]
    @@ ("charge.expire" :> "charge.failed") @@ ("refund.create" :> "charge.refunded")
    @@ ("customer.create" :> "customer.created") @@ ("customer.update" :> "customer.updated")
    @@ ("customer.destroy" :> "customer.deleted") @@ ("schedule.create" :> "subscription.created")
    @@ ("schedule.update" :> "subscription.updated")
    @@ ("schedule.destroy" :> "subscription.canceled")

TypeMap(e) == IF e.provider = "stripe" THEN StripeTypes ELSE OmiseTypes

Normalized(e) == e.key \in DOMAIN TypeMap(e)

Type(e) == TypeMap(e)[e.key]

CustomerUpserts == {"customer.created", "customer.updated"}
SubscriptionUpserts ==
    {"subscription.created", "subscription.updated", "subscription.canceled",
     "subscription.trial_will_end"}
InvoiceUpserts == {"invoice.created", "invoice.paid", "invoice.payment_failed", "invoice.voided"}

\* normalize() attaches the object's fields to these types alone; Omise has no invoices.
CarriesFields(e) == Type(e) \in CustomerUpserts \cup SubscriptionUpserts \cup InvoiceUpserts

\* The registrations an event's handlers come from; they run in this order.
Handlers(e) ==
    {i \in DOMAIN Registered :
        Registered[i].type = Type(e) /\ Registered[i].provider \in {EveryProvider, e.provider}}

(* ------------------------------ the ledger ------------------------------ *)
\* A row is the version of the event it shows.  The three upserts insert it or
\* overwrite what is there, whatever its age.
Upsert(e) == e.version

\* An event without fields is dropped before its type is looked at: the arm of
\* customer.deleted waits for a driver that attaches fields to it.
ApplyEvent(old, e) ==
    CASE ~CarriesFields(e)                 -> old
      [] Type(e) = "customer.deleted"      -> NoRow
      [] OTHER                             -> Upsert(e)

\* The ledger is written only where a tenant is bound.
Mirrored(e) == e.tenant /\ SyncLedger /\ CarriesFields(e)

VARIABLES
    claim,    \* dedup row of each event: none, received or processed
    row,      \* committed ledger row of each object
    req,      \* requests: phase, event, next registration to look at, uncommitted row
    runs,     \* how often the handler of each registration has run for each event
    acked,    \* events answered 200
    reordered,\* objects whose events were handed over out of order or together
    throws, faults

vars == <<claim, row, req, runs, acked, reordered, throws, faults>>

Phase == {"idle", "verified", "claimed", "tenant", "dispatch", "handled"}
Idle == [phase |-> "idle", event |-> NoEvent, next |-> 1, draft |-> NoRow, wrote |-> FALSE]
Requests == [phase : Phase, event : Event \cup {NoEvent}, next : Nat, draft : Nat, wrote : BOOLEAN]

TypeOK ==
    /\ claim \in [Event -> {"none", "received", "processed"}]
    /\ row \in [Objects -> Nat]
    /\ req \in [Request -> Requests]
    /\ \A r \in Request : req[r].phase = "idle" <=> req[r].event = NoEvent
    /\ runs \in [Event -> [DOMAIN Registered -> Nat]]
    /\ acked \subseteq Event /\ reordered \subseteq Objects
    /\ throws \in 0..MaxThrows /\ faults \in 0..MaxFaults

Init ==
    /\ claim = [e \in Event |-> "none"]
    /\ row = [o \in Objects |-> NoRow]
    /\ req = [r \in Request |-> Idle]
    /\ runs = [e \in Event |-> [i \in DOMAIN Registered |-> 0]]
    /\ acked = {} /\ reordered = {}
    /\ throws = 0 /\ faults = 0

Busy(o) == \E r \in Request : req[r].phase # "idle" /\ req[r].event.object = o
At(r, phase) == req[r].phase = phase
Goto(r, phase) == req' = [req EXCEPT ![r].phase = phase]
End(r) == req' = [req EXCEPT ![r] = Idle]

\* An answer of 200 reaches the provider, unless it is lost on the way.
Answer(e) ==
    \/ acked' = acked \cup {e} /\ UNCHANGED faults
    \/ faults < MaxFaults /\ faults' = faults + 1 /\ UNCHANGED acked

(* ------------------------------- requests ------------------------------- *)
\* The provider hands an event over, again if it likes; the route finds the
\* driver, verifies the signature and normalizes, touching no shared state.
Deliver(r, e) ==
    /\ At(r, "idle")
    /\ req' = [req EXCEPT ![r] = [Idle EXCEPT !.phase = "verified", !.event = e]]
    /\ reordered' = reordered \cup
          IF claim[e] = "none"
             /\ \/ \E x \in Event : x.object = e.object /\ x.version > e.version /\ claim[x] # "none"
                \/ Busy(e.object)
          THEN {e.object} ELSE {}
    /\ UNCHANGED <<claim, row, runs, acked, throws, faults>>

\* Mutation of Claimable: a redelivery is let through until one has succeeded.
ClaimableUntilProcessed(e) == claim[e] # "processed"
\* INSERT ... ON CONFLICT DO NOTHING returns a row.
Claimable(e) == claim[e] = "none"

\* Mutation of Duplicate: a duplicate is dropped without an answer.
DuplicateUnanswered(r) ==
    /\ At(r, "verified")
    /\ ~Claimable(req[r].event)
    /\ End(r)
    /\ UNCHANGED <<claim, row, runs, acked, reordered, throws, faults>>
Duplicate(r) ==
    /\ At(r, "verified")
    /\ ~Claimable(req[r].event)
    /\ End(r)
    /\ Answer(req[r].event)
    /\ UNCHANGED <<claim, row, runs, reordered, throws>>

\* The claim is a statement of its own; an event outside the union goes no further.
Claim(r) ==
    /\ At(r, "verified")
    /\ Claimable(req[r].event)
    /\ claim' = [claim EXCEPT ![req[r].event] = "received"]
    /\ Goto(r, IF ~Normalized(req[r].event) THEN "handled"
               ELSE IF req[r].event.tenant THEN "claimed" ELSE "dispatch")
    /\ UNCHANGED <<row, runs, acked, reordered, throws, faults>>

\* withTenant: BEGIN, then bind the tenant to the transaction.
BeginTenant(r) ==
    /\ At(r, "claimed")
    /\ Goto(r, "tenant")
    /\ UNCHANGED <<claim, row, runs, acked, reordered, throws, faults>>

RowLocked(o) == \E r \in Request : req[r].wrote /\ req[r].event.object = o

\* applyEvent on the transaction: it waits for another transaction's row lock
\* and sees what that one committed.
SyncRow(r) ==
    LET e == req[r].event IN
    /\ At(r, "tenant")
    /\ Mirrored(e) => ~RowLocked(e.object)
    /\ req' = [req EXCEPT ![r].phase = "dispatch",
                          ![r].wrote = Mirrored(e),
                          ![r].draft = IF Mirrored(e) THEN ApplyEvent(row[e.object], e) ELSE NoRow]
    /\ UNCHANGED <<claim, row, runs, acked, reordered, throws, faults>>

\* The next handler runs to its end.
Handle(r) ==
    LET e == req[r].event IN
    /\ At(r, "dispatch")
    /\ \E i \in Handlers(e) :
          /\ i >= req[r].next /\ \A k \in Handlers(e) : k < i => k < req[r].next
          /\ runs' = [runs EXCEPT ![e] = [@ EXCEPT ![i] = runs[e][i] + 1]]
          /\ req' = [req EXCEPT ![r].next = i + 1]
    /\ UNCHANGED <<claim, row, acked, reordered, throws, faults>>

AllReturned(r) == At(r, "dispatch") /\ \A i \in Handlers(req[r].event) : i < req[r].next

\* COMMIT makes what the request wrote everybody's; an event without a tenant has none.
Committed(r) == IF req[r].wrote THEN [row EXCEPT ![req[r].event.object] = req[r].draft] ELSE row

Commit(r) ==
    /\ AllReturned(r)
    /\ row' = Committed(r)
    /\ req' = [req EXCEPT ![r].phase = "handled", ![r].wrote = FALSE]
    /\ UNCHANGED <<claim, runs, acked, reordered, throws, faults>>

\* A handler or a statement throws, and the route answers 500: the transaction is rolled
\* back and the claim stays.  A lost connection throws after the INSERT or the COMMIT too.
Fail(r) ==
    /\ ~At(r, "idle")
    /\ throws < MaxThrows
    /\ throws' = throws + 1
    /\ End(r)
    /\ \/ UNCHANGED claim
       \/ /\ At(r, "verified") /\ Claimable(req[r].event)
          /\ claim' = [claim EXCEPT ![req[r].event] = "received"]
    /\ \/ UNCHANGED row
       \/ AllReturned(r) /\ row' = Committed(r)
    /\ UNCHANGED <<runs, acked, reordered, faults>>

\* processed_at, then 200.
MarkProcessed(r) ==
    /\ At(r, "handled")
    /\ claim' = [claim EXCEPT ![req[r].event] = "processed"]
    /\ End(r)
    /\ Answer(req[r].event)
    /\ UNCHANGED <<row, runs, reordered, throws>>

\* The server dies with every request it was serving; Postgres rolls back.
Crash ==
    /\ faults < MaxFaults
    /\ faults' = faults + 1
    /\ \E r \in Request : ~At(r, "idle")
    /\ req' = [r \in Request |-> Idle]
    /\ UNCHANGED <<claim, row, runs, acked, reordered, throws>>

Serve(r) ==
    Duplicate(r) \/ Claim(r) \/ BeginTenant(r) \/ SyncRow(r) \/ Handle(r) \/ Commit(r)
        \/ MarkProcessed(r)

Next ==
    \/ \E r \in Request : (\E e \in Event : Deliver(r, e)) \/ Serve(r) \/ Fail(r)
    \/ Crash

Spec == Init /\ [][Next]_vars

\* A request goes on (the event loop and Postgres are fair), and a provider
\* retries an event until it is answered 200.
Retry(e) == e \notin acked /\ \E r \in Request : Deliver(r, e)
Fairness ==
    /\ \A r \in Request : WF_vars(Serve(r))
    /\ \A e \in Event : SF_vars(Retry(e))

(* ------------------------------ properties ------------------------------ *)
Working(r) == req[r].phase \notin {"idle", "verified"}
InFlight(e) == \E r \in Request : req[r].event = e /\ Working(r)

\* What an event did is atomic, in both directions: a row of the ledger shows
\* an event only when every handler of it has returned, and an event marked
\* processed ran every handler and, when it is mirrored, left its object a row
\* (payment_webhook.ts: COMMIT after dispatch, processed_at after COMMIT).
AllOrNothing ==
    /\ \A o \in Objects : row[o] # NoRow =>
          \E e \in Event :
             /\ e.object = o /\ e.version = row[o] /\ claim[e] # "none"
             /\ \A i \in Handlers(e) : runs[e][i] > 0
    /\ \A e \in Event : claim[e] = "processed" /\ Normalized(e) =>
          /\ \A i \in Handlers(e) : runs[e][i] > 0
          /\ Mirrored(e) => row[e.object] # NoRow

\* A failure is never silent and never spreads: an event the provider will not
\* send again has its dedup row, and the rows that stay without processed_at,
\* which no request is working on, are at most one for each failure and one for
\* each request a dying server held (the comment of markProcessed).
Stuck == {e \in Event : claim[e] = "received" /\ ~InFlight(e)}
AckedIsAccounted ==
    /\ \A e \in acked : claim[e] # "none"
    /\ Cardinality(Stuck) <= throws + faults * Cardinality(Request)

\* No handler runs twice for an event, however often and wherever it is
\* delivered, whatever failed in between (repo.claim).
HandledOnce == \A e \in Event : \A i \in DOMAIN Registered : runs[e][i] <= 1

\* When the events of an object come one at a time and oldest first, the ledger
\* shows the newest that was applied, whatever failed and was delivered again:
\* a redelivery of an older event changes nothing (upsertSubscription).
InOrderIsCurrent ==
    \A e \in Event :
        claim[e] = "processed" /\ Normalized(e) /\ Mirrored(e) /\ e.object \notin reordered
            => row[e.object] >= e.version

\* The types, and the four invariants above.
WebhookInv == TypeOK /\ AllOrNothing /\ AckedIsAccounted /\ HandledOnce /\ InOrderIsCurrent

\* A claimed event is worked on by one request; before its claim no handler ran.
ClaimHeld ==
    /\ \A r, s \in Request : Working(r) /\ Working(s) /\ req[r].event = req[s].event => r = s
    /\ \A r \in Request : Working(r) => claim[req[r].event] = "received"
    /\ \A e \in Event : claim[e] = "none" => \A i \in DOMAIN Registered : runs[e][i] = 0

\* What a request has done so far: the handlers before its place have run once, the
\* others not, and what it wrote is the event's version.
Progress(r) ==
    LET e == req[r].event IN
    /\ ~Working(r) => req[r].next = 1
    /\ Working(r) /\ ~At(r, "handled") =>
          Normalized(e) /\ \A i \in Handlers(e) : runs[e][i] = IF i < req[r].next THEN 1 ELSE 0
    /\ req[r].phase \in {"claimed", "tenant"} => e.tenant /\ req[r].next = 1
    /\ At(r, "dispatch") => (req[r].wrote <=> Mirrored(e))
    /\ req[r].wrote => At(r, "dispatch") /\ req[r].draft = e.version
    /\ At(r, "handled") /\ Normalized(e) =>
          (\A i \in Handlers(e) : runs[e][i] > 0) /\ (Mirrored(e) => row[e.object] # NoRow)

\* A request whose event may still change the ledger.
Contends(r) == Working(r) \/ (At(r, "verified") /\ Claimable(req[r].event))

\* Where nothing was reordered, that request is alone and its event the newest claimed.
InTurn ==
    \A r \in Request : Contends(r) /\ req[r].event.object \notin reordered =>
        /\ \A s \in Request : Contends(s) /\ req[s].event.object = req[r].event.object => s = r
        /\ \A e \in Event : e.object = req[r].event.object /\ claim[e] # "none" =>
              e.version <= req[r].event.version
        /\ At(r, "handled") /\ Normalized(req[r].event) /\ Mirrored(req[r].event) =>
              row[req[r].event.object] >= req[r].event.version

\* The inductive invariant of WebhookInv.
ClaimInv == WebhookInv /\ ClaimHeld /\ (\A r \in Request : Progress(r)) /\ InTurn

\* Every event is answered 200 in the end, so that a provider's retries stop:
\* after a failure the redelivery is a duplicate.
EveryEventAnswered == \A e \in Event : <>(e \in acked)

\* A claim of the documents that no run checks (README, section 7): a customer whose
\* deletion was processed, of whom nothing was reordered, has no row in the ledger.
DeletedIsGone ==
    \A e \in Event :
        Normalized(e) /\ Type(e) = "customer.deleted" /\ e.tenant
        /\ claim[e] = "processed" /\ e.object \notin reordered
        /\ (\A x \in Event : x.object = e.object => x.version <= e.version)
            => row[e.object] = NoRow
===============================================================================
