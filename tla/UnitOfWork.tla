----------------------------- MODULE UnitOfWork -----------------------------
(***************************************************************************)
(* Repository writes inside the scopes of @strav/database.  UnitOfWork.run  *)
(* opens one transaction, hands it to everything called inside through      *)
(* AsyncLocalStorage and keeps the post-events in a queue it flushes before *)
(* COMMIT.  TenantManager nests in it: withTenant binds app.tenant_id in    *)
(* the transaction, withoutTenant drops the tenant from the async scope,    *)
(* the Lock variants take an advisory lock of the transaction.  A scope     *)
(* entered inside another reuses its transaction, whatever its kind.        *)
(***************************************************************************)
EXTENDS Integers, Sequences, FiniteSets

CONSTANTS Task, Tenant, Key, Record, None,
          Soft,       \* does the schema declare softDeletes()
          MaxScopes,  \* bound: task -> scopes it has open at once
          MaxWrites   \* bound: writes ever attempted

ASSUME ScopesAssumption == MaxScopes \in [Task -> Nat]

VARIABLES stack,   \* task -> its open scopes: [kind, tenant: tenantStorage, key, opened]
          tx,      \* task -> its transaction: [open, guc, mixed: rebound to another tenant, aborted, locks, queue, undo]
          phase,   \* task -> "fn" or "flush"
          rows,    \* row -> "absent", "live" or "trashed", uncommitted writes included
          writes   \* what was written: [by, event, state]

vars == <<stack, tx, phase, rows, writes>>

NoTx == [open |-> FALSE, guc |-> None, mixed |-> FALSE, aborted |-> FALSE, locks |-> {}, queue |-> <<>>, undo |-> <<>>]
Open(a) == tx[a].open
Top(a) == stack[a][Len(stack[a])]
CurrentTenant(a) == IF stack[a] = <<>> THEN None ELSE Top(a).tenant

Init == /\ stack = [a \in Task |-> <<>>] /\ tx = [a \in Task |-> NoTx] /\ phase = [a \in Task |-> "fn"]
        /\ rows \in [Record -> {"absent", "live"}] /\ writes = <<>>

(***************************************************************************)
(* Scopes.                                                                 *)
(***************************************************************************)
(* UnitOfWork.run: an ambient transaction is reused, or one is opened. *)
Run(a, frame, bound) ==
  /\ phase[a] = "fn" /\ Len(stack[a]) < MaxScopes[a]
  /\ stack' = [stack EXCEPT ![a] = Append(@, frame)]
  /\ LET t == [tx[a] EXCEPT !.open = TRUE]
         b == IF bound = None THEN t ELSE [t EXCEPT !.guc = bound, !.mixed = @ \/ t.guc \notin {None, bound}] IN
     tx' = [tx EXCEPT ![a] = IF frame.key = None THEN b ELSE [b EXCEPT !.locks = @ \cup {<<frame.tenant, frame.key>>}]]
  /\ UNCHANGED <<phase, rows, writes>>

Frame(a, kind, t, k) == [kind |-> kind, tenant |-> t, key |-> k, opened |-> ~Open(a)]

Unheld(a, t, k) == k = None \/ \A b \in Task \ {a} : <<t, k>> \notin tx[b].locks

RunUnit(a) == Run(a, Frame(a, "run", CurrentTenant(a), None), None)

(* withTenant and withTenantLock: a different tenant in the async scope throws. *)
WithTenant(a, t, k) ==
  /\ CurrentTenant(a) \in {None, t} /\ Unheld(a, t, k) /\ ~tx[a].aborted
  /\ Run(a, Frame(a, "tenant", t, k), t)

(* withoutTenant and withLock. *)
WithoutTenant(a, k) ==
  /\ Unheld(a, None, k) /\ (k # None => ~tx[a].aborted)
  /\ Run(a, Frame(a, "without", None, k), None)

Undone(u) == [r \in Record |-> IF r \in DOMAIN u THEN u[r] ELSE rows[r]]
Settle(a, event, state) ==
  [i \in DOMAIN writes |->
     IF writes[i].by = a /\ writes[i].state = "open"
     THEN [writes[i] EXCEPT !.state = state, !.event = IF @ = "queued" THEN event ELSE @] ELSE writes[i]]

Rollback(a, state) ==
  /\ rows' = Undone(tx[a].undo) /\ writes' = Settle(a, "dropped", state) /\ tx' = [tx EXCEPT ![a] = NoTx]

Pop(a) == stack' = [stack EXCEPT ![a] = SubSeq(@, 1, Len(@) - 1)]

(* fn throws out of its scope: the one that opened the transaction rolls it  *)
(* back; an inner one leaves its writes and events to the outer, which may   *)
(* catch the error and go on.                                                *)
Throw(a) ==
  /\ stack[a] # <<>> /\ phase[a] = "fn" /\ Pop(a)
  /\ IF Top(a).opened THEN Rollback(a, "rolled back") ELSE UNCHANGED <<rows, writes, tx>>
  /\ UNCHANGED phase

(* fn returns: an inner scope ends, the outer one goes on to its queue. *)
Return(a) ==
  /\ stack[a] # <<>> /\ phase[a] = "fn"
  /\ IF Top(a).opened THEN phase' = [phase EXCEPT ![a] = "flush"] /\ stack' = stack ELSE Pop(a) /\ phase' = phase
  /\ UNCHANGED <<tx, rows, writes>>

(* One event of the queue.  What its listeners throw is reported by the bus  *)
(* and swallowed: only the -ing events can cancel anything.                  *)
Fire(a) ==
  /\ phase[a] = "flush" /\ tx[a].queue # <<>>
  /\ writes' = [writes EXCEPT ![Head(tx[a].queue)].event = "fired"]
  /\ tx' = [tx EXCEPT ![a].queue = Tail(@)]
  /\ UNCHANGED <<stack, phase, rows>>

(* Mutation of Drained: the flush walks a copy of the queue, taken when it started. *)
DrainedCopy(a) == tx[a].queue = <<>> \/ \E i \in DOMAIN writes : writes[i].by = a /\ writes[i].event = "fired" /\ writes[i].state = "open"

(* for...of walks the queue itself: what listeners write is flushed too. *)
Drained(a) == tx[a].queue = <<>>

(* COMMIT.  A transaction that a failed statement aborted rolls back here,   *)
(* and so does one whose connection is lost.                                 *)
Commit(a) ==
  /\ phase[a] = "flush" /\ Drained(a)
  /\ \/ ~tx[a].aborted /\ writes' = Settle(a, "dropped", "committed") /\ rows' = rows /\ tx' = [tx EXCEPT ![a] = NoTx]
     \/ Rollback(a, "lost")
  /\ Pop(a) /\ phase' = [phase EXCEPT ![a] = "fn"]

(***************************************************************************)
(* Repository.                                                             *)
(***************************************************************************)
\* What a ROLLBACK restores: the row as it was before the transaction first wrote it.
Remember(u, r) == [x \in DOMAIN u \cup {r} |-> IF x \in DOMAIN u THEN u[x] ELSE rows[x]]
RowFree(a, r) == \A b \in Task \ {a} : r \notin DOMAIN tx[b].undo

(* A statement that went through: in a transaction its old row is kept and   *)
(* its event queued; without one it is committed and the event fires.        *)
Written(a, r, new) ==
  LET w == Len(writes) + 1 IN
  /\ Len(writes) < MaxWrites /\ RowFree(a, r) /\ ~tx[a].aborted
  /\ rows' = [rows EXCEPT ![r] = new]
  /\ writes' = Append(writes, [by |-> a, event |-> IF Open(a) THEN "queued" ELSE "fired",
                               state |-> IF Open(a) THEN "open" ELSE "committed"])
  /\ tx' = IF Open(a) THEN [tx EXCEPT ![a].queue = Append(@, w), ![a].undo = Remember(@, r)] ELSE tx
  /\ UNCHANGED <<stack, phase>>

Create(a, r) == rows[r] = "absent" /\ Written(a, r, "live")
(* By id alone: a trashed row is updated, trashed or restored like any other. *)
(* A row that is gone is a NotFoundError, thrown before any event - but a     *)
(* hard delete of it goes through and has its event.                          *)
Update(a, r) == rows[r] # "absent" /\ Written(a, r, rows[r])
Delete(a, r) == IF Soft THEN rows[r] # "absent" /\ Written(a, r, "trashed") ELSE Written(a, r, "absent")
ForceDelete(a, r) == Written(a, r, "absent")
Restore(a, r) == Soft /\ rows[r] # "absent" /\ Written(a, r, "live")

(* A statement fails in the database and its caller catches the error: the   *)
(* transaction is aborted all the same.                                      *)
StatementFails(a) == /\ Open(a) /\ ~tx[a].aborted /\ tx' = [tx EXCEPT ![a].aborted = TRUE]
                     /\ UNCHANGED <<stack, phase, rows, writes>>

Scope(a) == \/ RunUnit(a) \/ Throw(a) \/ Return(a) \/ Fire(a) \/ Commit(a)
            \/ \E k \in Key \cup {None} : WithoutTenant(a, k) \/ \E t \in Tenant : WithTenant(a, t, k)
Statement(a) == \/ StatementFails(a)
                \/ \E r \in Record : Create(a, r) \/ Update(a, r) \/ Delete(a, r) \/ ForceDelete(a, r) \/ Restore(a, r)
Next == \E a \in Task : Scope(a) \/ Statement(a)
Spec == Init /\ [][Next]_vars

-----------------------------------------------------------------------------
RowState == {"absent", "live", "trashed"}
Scopes == [kind : {"run", "tenant", "without"}, tenant : Tenant \cup {None}, key : Key \cup {None}, opened : BOOLEAN]
Transaction == [open : BOOLEAN, guc : Tenant \cup {None}, mixed : BOOLEAN, aborted : BOOLEAN,
                locks : SUBSET ((Tenant \cup {None}) \X Key), queue : Seq(Nat),
                undo : UNION {[R -> RowState] : R \in SUBSET Record}]
Write == [by : Task, event : {"queued", "fired", "dropped"}, state : {"open", "committed", "rolled back", "lost"}]

TypeOK == /\ stack \in [Task -> Seq(Scopes)] /\ \A a \in Task : Len(stack[a]) <= MaxScopes[a]
          /\ tx \in [Task -> Transaction] /\ phase \in [Task -> {"fn", "flush"}]
          /\ rows \in [Record -> RowState] /\ writes \in Seq(Write)

(* The outermost scope has opened the transaction, the inner ones reuse it;  *)
(* its end leaves nothing of it behind, and only it flushes the queue.       *)
ScopesNest ==
  \A a \in Task :
    /\ Open(a) <=> stack[a] # <<>>
    /\ ~Open(a) => tx[a] = NoTx
    /\ \A i \in DOMAIN stack[a] : stack[a][i].opened <=> i = 1
    /\ phase[a] = "flush" => Len(stack[a]) = 1

(* A queue tells of writes of its own transaction.                           *)
Pending(a) == {tx[a].queue[n] : n \in DOMAIN tx[a].queue}
QueueOwn ==
  \A a \in Task : \A i \in Pending(a) : i \in DOMAIN writes /\ writes[i].by = a /\ writes[i].state = "open"

(* A write of an open transaction waits in its queue, or its listeners have  *)
(* already heard of it because the transaction is flushing.                  *)
EventPending ==
  \A a \in Task : \A i \in DOMAIN writes : writes[i].by = a /\ writes[i].state = "open" =>
    /\ Open(a)
    /\ \/ writes[i].event = "queued" /\ i \in Pending(a)
       \/ writes[i].event = "fired" /\ phase[a] = "flush"

(* A scope with a key holds its lock, and no other transaction does.         *)
LocksHeld ==
  \A a \in Task :
    /\ \A i \in DOMAIN stack[a] : stack[a][i].key # None => <<stack[a][i].tenant, stack[a][i].key>> \in tx[a].locks
    /\ \A b \in Task \ {a} : tx[a].locks \cap tx[b].locks = {}

(* As long as a transaction was bound to one tenant only, its scopes are of  *)
(* that tenant or of none.                                                   *)
OneTenant == \A a \in Task : ~tx[a].mixed => \A i \in DOMAIN stack[a] : stack[a][i].tenant \in {None, tx[a].guc}

(* No event tells of a write that was rolled back - unless the COMMIT itself *)
(* failed, for the queue was flushed before it.                              *)
HonestEvents == \A i \in DOMAIN writes : writes[i].event = "fired" => writes[i].state # "rolled back"

(* Every write that was committed has had its event, the writes of listeners *)
(* during the flush included.                                                *)
NoEventLost == \A i \in DOMAIN writes : writes[i].state = "committed" => writes[i].event = "fired"

(* Two tasks are never inside scopes of the same lock.                       *)
LockExcludes ==
  \A a, b \in Task : \A i \in DOMAIN stack[a], j \in DOMAIN stack[b] :
    a # b /\ stack[a][i].key # None =>
      <<stack[a][i].tenant, stack[a][i].key>> # <<stack[b][j].tenant, stack[b][j].key>>

(* Inside a scope of a tenant, statements run under that tenant, as long as  *)
(* no scope of another one was entered in the same transaction.              *)
TenantBound == \A a \in Task : CurrentTenant(a) # None /\ ~tx[a].mixed => tx[a].guc = CurrentTenant(a)

(* Events follow the fate of their writes, locks exclude, tenants bind; with *)
(* the facts that make this inductive.                                       *)
ScopeInv == TypeOK /\ ScopesNest /\ LocksHeld /\ OneTenant
EventInv == QueueOwn /\ EventPending /\ HonestEvents /\ NoEventLost
UnitOfWorkInv == ScopeInv /\ EventInv /\ LockExcludes /\ TenantBound

(* docs/database/api.md:911: withoutTenant opens a transaction without       *)
(* binding the tenant; what runs inside it is bound to none.                 *)
WithoutTenantIsUnbound ==
  \A a \in Task : stack[a] # <<>> /\ Top(a).kind = "without" => tx[a].guc = None
=============================================================================
