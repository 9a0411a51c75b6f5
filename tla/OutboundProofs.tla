--------------------------- MODULE OutboundProofs ---------------------------
(***************************************************************************)
(* Proofs about what a process commits and what leaves it.                  *)
(*                                                                         *)
(* First UnitOfWork, for any number of tasks, tenants, locks, rows, nested  *)
(* scopes and writes.  ScopeInv speaks of scopes, transactions and locks    *)
(* and is inductive by itself; EventInv speaks of writes and their events   *)
(* and needs it.  Both together give UnitOfWorkInv.                         *)
(*                                                                         *)
(* Then the parts of MCPlatform that PlatformProofs.tla leaves: the         *)
(* operators of the queue, an instance of JobQueue for which the theorems   *)
(* of JobQueueProofs hold; notifications, mail and social sign-in, each     *)
(* with an inductive invariant of its own.  (The payment drivers are in     *)
(* PaymentProofs.tla.)                                                      *)
(***************************************************************************)
EXTENDS PaymentProofs, FiniteSetTheorems, SequenceTheorems, TLAPS

-----------------------------------------------------------------------------
(* Sequences.                                                              *)

\* The empty sequence has no index.
LEMMA NoDomain == DOMAIN <<>> = {}
  OBVIOUS

\* A sequence one longer: the new element is the last one.
LEMMA Pushed ==
    ASSUME NEW S, NEW s \in Seq(S), NEW e \in S
    PROVE  /\ Append(s, e) \in Seq(S) /\ Append(s, e) # <<>>
           /\ Len(Append(s, e)) = Len(s) + 1
           /\ DOMAIN Append(s, e) = DOMAIN s \cup {Len(s) + 1}
           /\ \A i \in DOMAIN s : Append(s, e)[i] = s[i]
           /\ Append(s, e)[Len(s) + 1] = e
  OBVIOUS

\* A sequence without its last element.
LEMMA Popped ==
    ASSUME NEW S, NEW s \in Seq(S), s # <<>>
    PROVE  /\ SubSeq(s, 1, Len(s) - 1) \in Seq(S)
           /\ Len(SubSeq(s, 1, Len(s) - 1)) = Len(s) - 1
           /\ DOMAIN SubSeq(s, 1, Len(s) - 1) = DOMAIN s \ {Len(s)}
           /\ \A i \in DOMAIN s \ {Len(s)} : SubSeq(s, 1, Len(s) - 1)[i] = s[i]
           /\ SubSeq(s, 1, Len(s) - 1) = <<>> <=> Len(s) = 1
  <1>1. Len(s) \in Nat \ {0} /\ DOMAIN s = 1..Len(s)
    BY EmptySeq
  <1>2. \A i \in 1..(Len(s) - 1) : s[i] \in S
    BY <1>1, ElementOfSeq
  <1> DEFINE p == SubSeq(s, 1, Len(s) - 1)
  <1>3. /\ p \in Seq(S) /\ Len(p) = Len(s) - 1
        /\ \A i \in 1..(Len(s) - 1) : p[i] = s[i]
    BY <1>1, <1>2
  <1> HIDE DEF p
  <1>4. DOMAIN p = 1..Len(p)
    BY <1>3
  <1>5. p = <<>> <=> Len(p) = 0
    BY <1>3, EmptySeq
  <1> QED
    BY <1>1, <1>3, <1>4, <1>5 DEF p

\* A sequence without its first element: the others move up by one.
LEMMA Shifted ==
    ASSUME NEW S, NEW s \in Seq(S), s # <<>>
    PROVE  /\ Head(s) = s[1] /\ 1 \in DOMAIN s /\ Tail(s) \in Seq(S)
           /\ \A n \in DOMAIN Tail(s) : n + 1 \in DOMAIN s /\ Tail(s)[n] = s[n + 1]
           /\ \A n \in DOMAIN s : n # 1 => n - 1 \in DOMAIN Tail(s) /\ Tail(s)[n - 1] = s[n]
  <1>1. Len(s) \in Nat \ {0} /\ DOMAIN s = 1..Len(s)
    BY EmptySeq
  <1>2. /\ Tail(s) \in Seq(S) /\ Len(Tail(s)) = Len(s) - 1
        /\ \A i \in 1..Len(Tail(s)) : Tail(s)[i] = s[i + 1]
    BY HeadTailProperties
  <1>3. DOMAIN Tail(s) = 1..(Len(s) - 1)
    BY <1>2
  <1> QED
    BY <1>1, <1>2, <1>3

-----------------------------------------------------------------------------
(* What the actions have in common.                                        *)

\* A scope that is entered has a top of the stack, and its tenant is the current one.
LEMMA StackTop ==
    ASSUME TypeOK, NEW a \in Task, stack[a] # <<>>
    PROVE  /\ Len(stack[a]) \in DOMAIN stack[a] /\ 1 \in DOMAIN stack[a]
           /\ Top(a) = stack[a][Len(stack[a])] /\ Top(a) \in Scopes
           /\ CurrentTenant(a) = Top(a).tenant
  <1>1. stack[a] \in Seq(Scopes)
    BY DEF TypeOK
  <1>2. Len(stack[a]) \in Nat \ {0} /\ DOMAIN stack[a] = 1..Len(stack[a])
    BY <1>1, EmptySeq
  <1> QED
    BY <1>1, <1>2, ElementOfSeq DEF Top, CurrentTenant

\* The transaction of a task that has none.
LEMMA ClosedTx == NoTx \in Transaction
  <1>1. <<>> \in UNION {[R -> RowState] : R \in SUBSET Record}
    <2>1. <<>> \in [1..0 -> RowState] /\ 1..0 = {}
      OBVIOUS
    <2>2. <<>> \in [{} -> RowState] /\ {} \in SUBSET Record
      BY <2>1
    <2> HIDE DEF RowState
    <2> QED
      BY <2>2
  <1> QED
    BY <1>1 DEF NoTx, Transaction

\* It holds nothing.
LEMMA ClosedQueue == NoTx.queue = <<>> /\ NoTx.open = FALSE
  BY DEF NoTx

\* The initial states have no scopes, no writes and no locks.
LEMMA InitScopes == Init => ScopeInv /\ EventInv
  <1> SUFFICES ASSUME Init PROVE ScopeInv /\ EventInv
    OBVIOUS
  <1>1. NoTx \in Transaction
    BY ClosedTx
  <1>2. TypeOK
    <2>1. <<>> \in Seq(Scopes) /\ <<>> \in Seq(Write)
      OBVIOUS
    <2>2. \A a \in Task : Len(stack[a]) <= MaxScopes[a]
      BY ScopesAssumption DEF Init
    <2> QED
      BY <1>1, <2>1, <2>2 DEF Init, TypeOK, RowState
  <1>3. ScopesNest
    BY DEF Init, ScopesNest, Open, NoTx
  <1>4. LocksHeld /\ OneTenant
    BY DEF Init, LocksHeld, OneTenant, NoTx
  <1>5. EventInv
    BY NoDomain DEF Init, EventInv, QueueOwn, Pending, EventPending, HonestEvents, NoEventLost, NoTx
  <1> QED
    BY <1>2, <1>3, <1>4, <1>5 DEF ScopeInv

\* Entering a scope.  Its tenant is the one it binds, or the current one, or none.
LEMMA RunScope ==
    ASSUME ScopeInv, NEW a \in Task, NEW f \in Scopes, NEW bound \in Tenant \cup {None}, Run(a, f, bound),
           f.opened = ~Open(a),
           f.key # None => \A b \in Task \ {a} : <<f.tenant, f.key>> \notin tx[b].locks,
           f.tenant \in {None, bound} \/ (bound = None /\ f.tenant = CurrentTenant(a))
    PROVE  ScopeInv'
  <1> DEFINE t == [tx[a] EXCEPT !.open = TRUE]
             b == IF bound = None THEN t ELSE [t EXCEPT !.guc = bound, !.mixed = @ \/ t.guc \notin {None, bound}]
             n == IF f.key = None THEN b ELSE [b EXCEPT !.locks = @ \cup {<<f.tenant, f.key>>}]
  <1>1. /\ tx[a] \in Transaction /\ stack[a] \in Seq(Scopes) /\ Len(stack[a]) \in Nat /\ DOMAIN stack[a] = 1..Len(stack[a])
        /\ phase[a] = "fn" /\ Len(stack[a]) < MaxScopes[a] /\ MaxScopes[a] \in Nat
    <2>1. tx[a] \in Transaction /\ stack[a] \in Seq(Scopes)
      BY DEF ScopeInv, TypeOK
    <2>2. phase[a] = "fn" /\ Len(stack[a]) < MaxScopes[a]
      BY DEF Run
    <2> QED
      BY <2>1, <2>2, LenProperties, ScopesAssumption
  <1>2. n \in Transaction /\ n.open = TRUE /\ n.queue = tx[a].queue /\ n.undo = tx[a].undo /\ n.aborted = tx[a].aborted
    <2>1. b \in Transaction
      BY <1>1 DEF Transaction
    <2>2. f.key # None => <<f.tenant, f.key>> \in (Tenant \cup {None}) \X Key
      BY DEF Scopes
    <2>3. b.open = TRUE /\ b.queue = tx[a].queue /\ b.undo = tx[a].undo /\ b.aborted = tx[a].aborted
      BY <1>1 DEF Transaction
    <2> HIDE DEF b
    <2> QED
      BY <2>1, <2>2, <2>3 DEF Transaction
  <1>3. /\ n.guc = IF bound = None THEN tx[a].guc ELSE bound
        /\ n.mixed = IF bound = None THEN tx[a].mixed ELSE (tx[a].mixed \/ tx[a].guc \notin {None, bound})
        /\ n.locks = IF f.key = None THEN tx[a].locks ELSE tx[a].locks \cup {<<f.tenant, f.key>>}
    BY <1>1 DEF Transaction
  <1> HIDE DEF n
  <1>4. /\ stack' = [stack EXCEPT ![a] = Append(stack[a], f)] /\ tx' = [tx EXCEPT ![a] = n]
        /\ phase' = phase /\ rows' = rows /\ writes' = writes
    BY DEF Run, n
  <1>5. /\ stack'[a] = Append(stack[a], f) /\ tx'[a] = n
        /\ \A c \in Task \ {a} : stack'[c] = stack[c] /\ tx'[c] = tx[c]
    BY <1>4 DEF ScopeInv, TypeOK
  <1> DEFINE s == Append(stack[a], f)
  <1>6. /\ s \in Seq(Scopes) /\ s # <<>> /\ Len(s) = Len(stack[a]) + 1
        /\ DOMAIN s = DOMAIN stack[a] \cup {Len(stack[a]) + 1}
        /\ \A i \in DOMAIN stack[a] : s[i] = stack[a][i]
        /\ s[Len(stack[a]) + 1] = f
    BY <1>1, Pushed
  <1> HIDE DEF s
  <1>7. TypeOK'
    <2>1. stack' \in [Task -> Seq(Scopes)] /\ tx' \in [Task -> Transaction]
      BY <1>2, <1>4, <1>6 DEF ScopeInv, TypeOK, s
    <2>2. \A c \in Task : Len(stack'[c]) <= MaxScopes[c]
      BY <1>1, <1>5, <1>6 DEF ScopeInv, TypeOK, s
    <2> QED
      BY <1>4, <2>1, <2>2 DEF ScopeInv, TypeOK
  <1>8. ScopesNest'
    <2>1. stack[a] = <<>> <=> Len(stack[a]) = 0
      BY <1>1, EmptySeq
    <2>2. \A i \in DOMAIN s : s[i].opened <=> i = 1
      BY <1>1, <1>6, <2>1 DEF ScopeInv, ScopesNest, Scopes
    <2> QED
      BY <1>1, <1>2, <1>4, <1>5, <1>6, <2>2 DEF ScopeInv, ScopesNest, Open, s
  <1>9. LocksHeld'
    <2>1. \A i \in DOMAIN s : s[i].key # None => <<s[i].tenant, s[i].key>> \in n.locks
      <3>1. ASSUME NEW i \in DOMAIN stack[a], s[i].key # None PROVE <<s[i].tenant, s[i].key>> \in n.locks
        <4>1. s[i] = stack[a][i]
          BY <1>6
        <4>2. <<stack[a][i].tenant, stack[a][i].key>> \in tx[a].locks
          BY <3>1, <4>1 DEF ScopeInv, LocksHeld
        <4>3. tx[a].locks \subseteq n.locks
          BY <1>3
        <4> QED
          BY <4>1, <4>2, <4>3
      <3>2. f.key # None => <<f.tenant, f.key>> \in n.locks
        BY <1>3
      <3> QED
        BY <1>6, <3>1, <3>2
    <2>2. \A c \in Task \ {a} : n.locks \cap tx[c].locks = {}
      BY <1>3 DEF ScopeInv, LocksHeld
    <2> QED
      BY <1>5, <2>1, <2>2 DEF ScopeInv, LocksHeld, s
  <1>10. OneTenant'
    <2>1. ASSUME ~n.mixed, NEW i \in DOMAIN s PROVE s[i].tenant \in {None, n.guc}
      <3>1. ~tx[a].mixed /\ (bound # None => tx[a].guc \in {None, bound})
        BY <1>3, <2>1
      <3>2. CASE i \in DOMAIN stack[a]
        BY <1>3, <1>6, <3>1, <3>2 DEF ScopeInv, OneTenant
      <3>3. CASE i = Len(stack[a]) + 1 /\ f.tenant \in {None, bound}
        BY <1>3, <1>6, <3>3
      <3>4. CASE i = Len(stack[a]) + 1 /\ bound = None /\ f.tenant = CurrentTenant(a)
        <4>1. CurrentTenant(a) \in {None, tx[a].guc}
          BY <3>1, StackTop DEF ScopeInv, OneTenant, CurrentTenant
        <4> QED
          BY <1>3, <1>6, <3>4, <4>1
      <3> QED
        BY <1>6, <2>1, <3>2, <3>3, <3>4
    <2> QED
      BY <1>5, <2>1 DEF ScopeInv, OneTenant, s
  <1> QED
    BY <1>7, <1>8, <1>9, <1>10 DEF ScopeInv

\* An inner scope ends: its transaction goes on.
LEMMA LeaveScope ==
    ASSUME ScopeInv, NEW a \in Task, stack[a] # <<>>, Len(stack[a]) # 1, Pop(a),
           UNCHANGED <<tx, phase, rows, writes>>
    PROVE  ScopeInv'
  <1> DEFINE p == SubSeq(stack[a], 1, Len(stack[a]) - 1)
  <1>1. stack[a] \in Seq(Scopes) /\ Len(stack[a]) \in Nat \ {0} /\ DOMAIN stack[a] = 1..Len(stack[a])
    <2>1. stack[a] \in Seq(Scopes)
      BY DEF ScopeInv, TypeOK
    <2> QED
      BY <2>1, EmptySeq, LenProperties
  <1>2. /\ p \in Seq(Scopes) /\ Len(p) = Len(stack[a]) - 1 /\ p # <<>>
        /\ DOMAIN p = DOMAIN stack[a] \ {Len(stack[a])}
        /\ \A i \in DOMAIN p : p[i] = stack[a][i]
    BY <1>1, Popped
  <1> HIDE DEF p
  <1>3. /\ stack' = [stack EXCEPT ![a] = p] /\ stack'[a] = p
        /\ \A c \in Task \ {a} : stack'[c] = stack[c]
    BY DEF Pop, p, ScopeInv, TypeOK
  <1>4. TypeOK'
    <2>1. stack' \in [Task -> Seq(Scopes)]
      BY <1>2, <1>3 DEF ScopeInv, TypeOK
    <2>2. \A c \in Task : Len(stack'[c]) <= MaxScopes[c]
      <3>1. Len(stack[a]) <= MaxScopes[a] /\ MaxScopes[a] \in Nat
        BY ScopesAssumption DEF ScopeInv, TypeOK
      <3>2. Len(p) <= MaxScopes[a]
        BY <1>1, <1>2, <3>1
      <3> QED
        BY <1>3, <3>2 DEF ScopeInv, TypeOK
    <2> QED
      BY <2>1, <2>2 DEF ScopeInv, TypeOK
  <1>5. ScopesNest'
    <2>1. phase[a] # "flush"
      BY DEF ScopeInv, ScopesNest
    <2> QED
      BY <1>2, <1>3, <2>1 DEF ScopeInv, ScopesNest, Open
  <1>6. LocksHeld'
    <2>1. \A i \in DOMAIN p : p[i].key # None => <<p[i].tenant, p[i].key>> \in tx[a].locks
      <3> TAKE i \in DOMAIN p
      <3>1. i \in DOMAIN stack[a] /\ p[i] = stack[a][i]
        BY <1>2
      <3>2. stack[a][i].key # None => <<stack[a][i].tenant, stack[a][i].key>> \in tx[a].locks
        BY <3>1 DEF ScopeInv, LocksHeld
      <3> QED
        BY <3>1, <3>2
    <2> QED
      BY <1>3, <2>1 DEF ScopeInv, LocksHeld
  <1>7. OneTenant'
    BY <1>2, <1>3 DEF ScopeInv, OneTenant
  <1> QED
    BY <1>4, <1>5, <1>6, <1>7 DEF ScopeInv

\* The outermost scope ends, and its transaction with it.
LEMMA CloseScope ==
    ASSUME ScopeInv, NEW a \in Task, Len(stack[a]) = 1, Pop(a), tx' = [tx EXCEPT ![a] = NoTx],
           phase' = [phase EXCEPT ![a] = "fn"], rows' \in [Record -> RowState], writes' \in Seq(Write)
    PROVE  ScopeInv'
  <1>1. stack[a] \in Seq(Scopes)
    BY DEF ScopeInv, TypeOK
  <1>2. SubSeq(stack[a], 1, Len(stack[a]) - 1) = <<>>
    BY <1>1, EmptySeq, Popped
  <1>3. /\ stack' = [stack EXCEPT ![a] = <<>>] /\ stack'[a] = <<>> /\ tx'[a] = NoTx /\ phase'[a] = "fn"
        /\ \A c \in Task \ {a} : stack'[c] = stack[c] /\ tx'[c] = tx[c] /\ phase'[c] = phase[c]
    BY <1>2 DEF Pop, ScopeInv, TypeOK
  <1>4. NoTx \in Transaction
    BY ClosedTx
  <1>5. TypeOK'
    <2>1. stack' \in [Task -> Seq(Scopes)] /\ Len(<<>>) = 0
      BY <1>3, EmptySeq DEF ScopeInv, TypeOK
    <2>2. \A c \in Task : Len(stack'[c]) <= MaxScopes[c]
      BY <1>3, <2>1, ScopesAssumption DEF ScopeInv, TypeOK
    <2>3. tx' \in [Task -> Transaction] /\ phase' \in [Task -> {"fn", "flush"}]
      BY <1>4 DEF ScopeInv, TypeOK
    <2> QED
      BY <2>1, <2>2, <2>3 DEF TypeOK
  <1>6. ScopesNest'
    <2>1. DOMAIN <<>> = {} /\ NoTx.open = FALSE
      BY DEF NoTx
    <2>2. \A c \in Task \ {a} : Open(c)' <=> Open(c)
      BY <1>3 DEF Open
    <2>3. ~Open(a)'
      BY <1>3, <2>1 DEF Open
    <2> QED
      BY <1>3, <2>1, <2>2, <2>3 DEF ScopeInv, ScopesNest
  <1>7. LocksHeld'
    BY <1>3 DEF ScopeInv, LocksHeld, NoTx
  <1>8. OneTenant'
    BY <1>3 DEF ScopeInv, OneTenant, NoTx
  <1> QED
    BY <1>5, <1>6, <1>7, <1>8 DEF ScopeInv

\* A step inside the scopes of a task: what it is bound to and locks stays.
LEMMA InsideScope ==
    ASSUME ScopeInv, UNCHANGED stack, tx' \in [Task -> Transaction], phase' \in [Task -> {"fn", "flush"}],
           \A c \in Task : /\ tx'[c].open = tx[c].open /\ tx'[c].guc = tx[c].guc /\ tx'[c].mixed = tx[c].mixed
                           /\ tx'[c].locks = tx[c].locks /\ (~Open(c) => tx'[c] = tx[c])
                           /\ phase'[c] = "flush" => Len(stack[c]) = 1,
           rows' \in [Record -> RowState], writes' \in Seq(Write)
    PROVE  ScopeInv'
  <1>1. TypeOK'
    BY DEF ScopeInv, TypeOK
  <1>2. ScopesNest'
    BY DEF ScopeInv, ScopesNest, Open
  <1>3. LocksHeld'
    BY DEF ScopeInv, LocksHeld
  <1>4. OneTenant'
    BY DEF ScopeInv, OneTenant
  <1> QED
    BY <1>1, <1>2, <1>3, <1>4 DEF ScopeInv

-----------------------------------------------------------------------------
(* The end of a transaction.                                               *)

\* ROLLBACK restores rows as they were.
LEMMA UndoneRows ==
    ASSUME TypeOK, NEW a \in Task PROVE Undone(tx[a].undo) \in [Record -> RowState]
  <1>1. tx[a].undo \in UNION {[R -> RowState] : R \in SUBSET Record} /\ rows \in [Record -> RowState]
    BY DEF TypeOK, Transaction
  <1>2. PICK R \in SUBSET Record : tx[a].undo \in [R -> RowState]
    BY <1>1
  <1> QED
    BY <1>1, <1>2 DEF Undone

\* The writes of a's transaction are settled in s, those of others are left alone.
Mine(a, i) == writes[i].by = a /\ writes[i].state = "open"
SettledIn(s, a, state) ==
    /\ DOMAIN s = DOMAIN writes
    /\ \A i \in DOMAIN writes : Mine(a, i) =>
         s[i].by = a /\ s[i].state = state /\ s[i].event = IF writes[i].event = "queued" THEN "dropped" ELSE writes[i].event
    /\ \A i \in DOMAIN writes : ~Mine(a, i) => s[i] = writes[i]

\* What Settle does to every write.
LEMMA SettledWrites ==
    ASSUME TypeOK, NEW a, NEW state \in {"committed", "rolled back", "lost"}, NEW s, s = Settle(a, "dropped", state)
    PROVE  s \in Seq(Write) /\ SettledIn(s, a, state)
  <1> DEFINE e(i) == IF writes[i].by = a /\ writes[i].state = "open"
                     THEN [writes[i] EXCEPT !.state = state, !.event = IF @ = "queued" THEN "dropped" ELSE @] ELSE writes[i]
  <1>1. writes \in Seq(Write) /\ Len(writes) \in Nat /\ DOMAIN writes = 1..Len(writes)
    BY LenProperties DEF TypeOK
  <1>2. \A i \in 1..Len(writes) : writes[i] \in Write
    BY <1>1, ElementOfSeq
  <1>3. \A i \in 1..Len(writes) : e(i) \in Write
    BY <1>2 DEF Write
  <1>4. s = [i \in 1..Len(writes) |-> e(i)]
    BY <1>1 DEF Settle
  <1>5. s \in Seq(Write)
    <2> HIDE DEF e
    <2>1. s \in [1..Len(writes) -> Write]
      BY <1>3, <1>4
    <2>2. s \in UNION {[1..n -> Write] : n \in Nat}
      BY <1>1, <2>1
    <2> QED
      BY <2>2, SeqDef
  <1>6. \A i \in DOMAIN writes : Mine(a, i) =>
          e(i).by = a /\ e(i).state = state /\ e(i).event = IF writes[i].event = "queued" THEN "dropped" ELSE writes[i].event
    BY <1>1, <1>2 DEF Write, Mine
  <1>7. \A i \in DOMAIN writes : ~Mine(a, i) => e(i) = writes[i]
    BY DEF Mine
  <1>8. DOMAIN s = DOMAIN writes /\ \A i \in DOMAIN writes : s[i] = e(i)
    BY <1>1, <1>4
  <1> HIDE DEF e
  <1> QED
    BY <1>5, <1>6, <1>7, <1>8 DEF SettledIn

\* Nothing open is left of the task; a commit finds its queue drained, and
\* nothing was told of what fn rolls back.
LEMMA CloseEvents ==
    ASSUME ScopeInv, EventInv, NEW a \in Task, NEW state \in {"committed", "rolled back", "lost"},
           tx'[a] = NoTx, \A c \in Task \ {a} : tx'[c] = tx[c] /\ phase'[c] = phase[c], SettledIn(writes', a, state),
           state = "committed" => tx[a].queue = <<>>, state = "rolled back" => phase[a] = "fn"
    PROVE  EventInv'
  <1>1. Pending(a)' = {} /\ \A c \in Task \ {a} : Pending(c)' = Pending(c)
    <2>1. tx'[a].queue = <<>>
      BY ClosedQueue
    <2>2. Pending(a)' = {}
      BY <2>1, NoDomain DEF Pending
    <2>3. \A c \in Task \ {a} : Pending(c)' = Pending(c)
      BY DEF Pending
    <2> QED
      BY <2>2, <2>3
  <1>2. /\ DOMAIN writes' = DOMAIN writes
        /\ \A i \in DOMAIN writes : Mine(a, i) => writes'[i].by = a /\ writes'[i].state = state
                                    /\ writes'[i].event = IF writes[i].event = "queued" THEN "dropped" ELSE writes[i].event
        /\ \A i \in DOMAIN writes : ~Mine(a, i) => writes'[i] = writes[i]
    BY DEF SettledIn
  <1>3. \A i \in DOMAIN writes : writes[i].by \in Task
    <2>1. writes \in Seq(Write)
      BY DEF ScopeInv, TypeOK
    <2>2. \A i \in DOMAIN writes : writes[i] \in Write
      BY <2>1, ElementOfSeq, LenProperties
    <2> QED
      BY <2>2 DEF Write
  <1>4. QueueOwn'
    <2> SUFFICES ASSUME NEW c \in Task, NEW i \in Pending(c)'
                 PROVE  i \in DOMAIN writes' /\ writes'[i].by = c /\ writes'[i].state = "open"
      BY DEF QueueOwn
    <2>1. c \in Task \ {a} /\ i \in Pending(c)
      BY <1>1
    <2>2. i \in DOMAIN writes /\ writes[i].by = c /\ writes[i].state = "open"
      BY <2>1 DEF EventInv, QueueOwn
    <2> QED
      BY <1>2, <2>1, <2>2 DEF Mine
  <1>5. EventPending'
    <2> SUFFICES ASSUME NEW c \in Task, NEW i \in DOMAIN writes', writes'[i].by = c, writes'[i].state = "open"
                 PROVE  /\ Open(c)'
                        /\ (writes'[i].event = "queued" /\ i \in Pending(c)') \/ (writes'[i].event = "fired" /\ phase'[c] = "flush")
      BY Zenon DEF EventPending
    <2>1. i \in DOMAIN writes /\ ~Mine(a, i) /\ writes'[i] = writes[i]
      BY <1>2
    <2>2. c \in Task \ {a} /\ writes[i].by = c /\ writes[i].state = "open"
      BY <2>1 DEF Mine
    <2>3. /\ Open(c)
          /\ (writes[i].event = "queued" /\ i \in Pending(c)) \/ (writes[i].event = "fired" /\ phase[c] = "flush")
      BY <2>1, <2>2, Zenon DEF EventInv, EventPending
    <2>4. tx'[c] = tx[c] /\ phase'[c] = phase[c] /\ Pending(c)' = Pending(c)
      BY <1>1, <2>2
    <2> QED
      BY <2>1, <2>3, <2>4 DEF Open
  <1>6. HonestEvents'
    <2>1. ASSUME NEW i \in DOMAIN writes, Mine(a, i), writes'[i].event = "fired" PROVE state # "rolled back"
      BY <1>2, <2>1 DEF EventInv, EventPending, Mine
    <2> QED
      BY <1>2, <2>1 DEF EventInv, HonestEvents
  <1>7. NoEventLost'
    <2>1. ASSUME NEW i \in DOMAIN writes, Mine(a, i), state = "committed" PROVE writes[i].event = "fired"
      BY NoDomain, <2>1 DEF EventInv, EventPending, Mine, Pending
    <2>2. ASSUME NEW i \in DOMAIN writes, writes'[i].state = "committed" PROVE writes'[i].event = "fired"
      <3>1. CASE Mine(a, i)
        BY <1>2, <2>1, <2>2, <3>1
      <3>2. CASE ~Mine(a, i)
        BY <1>2, <2>2, <3>2 DEF EventInv, NoEventLost
      <3> QED
        BY <3>1, <3>2
    <2> QED
      BY <1>2, <2>2 DEF NoEventLost
  <1> QED
    BY <1>4, <1>5, <1>6, <1>7 DEF EventInv

\* A step that leaves writes and queues alone.
LEMMA SameEvents ==
    ASSUME EventInv, UNCHANGED writes, \A i \in DOMAIN writes : writes[i].by \in Task,
           \A c \in Task : tx'[c].queue = tx[c].queue /\ (Open(c) => tx'[c].open) /\ (phase[c] = "flush" => phase'[c] = "flush")
    PROVE  EventInv'
  <1>1. QueueOwn'
    BY DEF EventInv, QueueOwn, Pending
  <1>2. EventPending'
    <2>1. \A c \in Task : Pending(c)' = Pending(c)
      BY DEF Pending
    <2> QED
      BY <2>1 DEF EventInv, EventPending, Open
  <1>3. HonestEvents' /\ NoEventLost'
    BY DEF EventInv, HonestEvents, NoEventLost
  <1> QED
    BY <1>1, <1>2, <1>3 DEF EventInv

\* Who wrote, and what a queue holds.
LEMMA Writers ==
    ASSUME TypeOK
    PROVE  /\ \A i \in DOMAIN writes : writes[i] \in Write /\ writes[i].by \in Task
           /\ DOMAIN writes = 1..Len(writes) /\ Len(writes) \in Nat
           /\ \A a \in Task : tx[a] \in Transaction /\ tx[a].queue \in Seq(Nat)
  <1>1. writes \in Seq(Write)
    BY DEF TypeOK
  <1>2. \A i \in DOMAIN writes : writes[i] \in Write
    BY <1>1, ElementOfSeq, LenProperties
  <1> QED
    BY <1>1, <1>2, LenProperties DEF Write, TypeOK, Transaction

-----------------------------------------------------------------------------
(* The actions.                                                            *)

\* A throwing function leaves its scope: the outermost rolls back, an inner one only passes the error on.
LEMMA ThrowStep ==
    ASSUME ScopeInv, EventInv, NEW a \in Task, Throw(a) PROVE ScopeInv' /\ EventInv'
  <1>1. TypeOK /\ stack[a] # <<>> /\ phase[a] = "fn" /\ Pop(a) /\ UNCHANGED phase
    BY DEF Throw, ScopeInv
  <1>2. Top(a).opened <=> Len(stack[a]) = 1
    <2>1. PICK n \in DOMAIN stack[a] : n = Len(stack[a]) /\ Top(a) = stack[a][n]
      BY <1>1, StackTop
    <2>2. stack[a][n].opened <=> n = 1
      BY DEF ScopeInv, ScopesNest
    <2> QED
      BY <2>1, <2>2, Zenon
  <1>3. CASE Top(a).opened
    <2>1. Rollback(a, "rolled back")
      BY <1>3 DEF Throw
    <2>2. /\ rows' = Undone(tx[a].undo) /\ writes' = Settle(a, "dropped", "rolled back") /\ tx' = [tx EXCEPT ![a] = NoTx]
      BY <2>1 DEF Rollback
    <2>3. phase' = [phase EXCEPT ![a] = "fn"]
      BY <1>1 DEF TypeOK
    <2>4. rows' \in [Record -> RowState] /\ writes' \in Seq(Write)
      BY <1>1, <2>2, UndoneRows, SettledWrites
    <2>5. ScopeInv'
      BY <1>1, <1>2, <1>3, <2>2, <2>3, <2>4, CloseScope
    <2>6. EventInv'
      <3>1. tx'[a] = NoTx /\ \A c \in Task \ {a} : tx'[c] = tx[c] /\ phase'[c] = phase[c]
        BY <1>1, <2>2 DEF TypeOK
      <3>2. SettledIn(writes', a, "rolled back")
        BY <1>1, <2>2, SettledWrites
      <3> QED
        BY <1>1, <3>1, <3>2, CloseEvents
    <2> QED
      BY <2>5, <2>6
  <1>4. CASE ~Top(a).opened
    <2>1. UNCHANGED <<rows, writes, tx>>
      BY <1>4 DEF Throw
    <2>2. ScopeInv'
      BY <1>1, <1>2, <1>4, <2>1, LeaveScope
    <2>3. EventInv'
      BY <1>1, <2>1, SameEvents, Writers DEF Open
    <2> QED
      BY <2>2, <2>3
  <1> QED
    BY <1>3, <1>4

\* A returning function leaves its scope: the outermost goes on to flush its events.
LEMMA ReturnStep ==
    ASSUME ScopeInv, EventInv, NEW a \in Task, Return(a) PROVE ScopeInv' /\ EventInv'
  <1>1. TypeOK /\ stack[a] # <<>> /\ UNCHANGED <<tx, rows, writes>>
    BY DEF Return, ScopeInv
  <1>2. Top(a).opened <=> Len(stack[a]) = 1
    <2>1. PICK n \in DOMAIN stack[a] : n = Len(stack[a]) /\ Top(a) = stack[a][n]
      BY <1>1, StackTop
    <2>2. stack[a][n].opened <=> n = 1
      BY DEF ScopeInv, ScopesNest
    <2> QED
      BY <2>1, <2>2, Zenon
  <1>3. CASE Top(a).opened
    <2>1. UNCHANGED stack /\ phase' = [phase EXCEPT ![a] = "flush"]
      BY <1>3 DEF Return
    <2>2. \A c \in Task : phase'[c] = IF c = a THEN "flush" ELSE phase[c]
      BY <1>1, <2>1 DEF TypeOK
    <2>3. ScopeInv'
      <3>1. \A c \in Task : phase'[c] = "flush" => Len(stack[c]) = 1
        BY <1>2, <1>3, <2>2 DEF ScopeInv, ScopesNest
      <3>2. phase' \in [Task -> {"fn", "flush"}]
        BY <1>1, <2>1 DEF TypeOK
      <3> QED
        BY <1>1, <2>1, <3>1, <3>2, InsideScope DEF TypeOK
    <2>4. EventInv'
      BY <1>1, <2>2, SameEvents, Writers DEF Open
    <2> QED
      BY <2>3, <2>4
  <1>4. CASE ~Top(a).opened
    <2>1. Pop(a) /\ UNCHANGED phase
      BY <1>4 DEF Return
    <2>2. ScopeInv'
      BY <1>1, <1>2, <1>4, <2>1, LeaveScope
    <2>3. EventInv'
      BY <1>1, <2>1, SameEvents, Writers DEF Open
    <2> QED
      BY <2>2, <2>3
  <1> QED
    BY <1>3, <1>4

\* The COMMIT after the flush settles the writes of the scope, however its answer is lost.
LEMMA CommitStep ==
    ASSUME ScopeInv, EventInv, NEW a \in Task, Commit(a) PROVE ScopeInv' /\ EventInv'
  <1>1. /\ TypeOK /\ phase[a] = "flush" /\ tx[a].queue = <<>> /\ Pop(a) /\ phase' = [phase EXCEPT ![a] = "fn"]
        /\ tx' = [tx EXCEPT ![a] = NoTx]
    BY DEF Commit, Drained, Rollback, ScopeInv
  <1>2. PICK state \in {"committed", "rolled back", "lost"} :
          /\ state # "rolled back" /\ writes' = Settle(a, "dropped", state)
          /\ rows' = rows \/ rows' = Undone(tx[a].undo)
    BY DEF Commit, Rollback
  <1>3. Len(stack[a]) = 1
    BY <1>1 DEF ScopeInv, ScopesNest
  <1>4. rows' \in [Record -> RowState] /\ writes' \in Seq(Write)
    <2>1. writes' \in Seq(Write)
      BY <1>1, <1>2, SettledWrites
    <2>2. Undone(tx[a].undo) \in [Record -> RowState] /\ rows \in [Record -> RowState]
      BY <1>1, UndoneRows DEF TypeOK
    <2> QED
      BY <1>2, <2>1, <2>2
  <1>5. ScopeInv'
    BY <1>1, <1>3, <1>4, CloseScope
  <1>6. EventInv'
    <2>1. tx'[a] = NoTx /\ \A c \in Task \ {a} : tx'[c] = tx[c] /\ phase'[c] = phase[c]
      BY <1>1 DEF TypeOK
    <2>2. SettledIn(writes', a, state)
      BY <1>1, <1>2, SettledWrites
    <2> QED
      BY <1>1, <1>2, <2>1, <2>2, CloseEvents
  <1> QED
    BY <1>5, <1>6

\* One event of the queue is told; the others stay in it.
LEMMA FireStep ==
    ASSUME ScopeInv, EventInv, NEW a \in Task, Fire(a) PROVE ScopeInv' /\ EventInv'
  <1> DEFINE h == tx[a].queue[1]
             n == [tx[a] EXCEPT !.queue = Tail(@)]
             w == [writes[h] EXCEPT !.event = "fired"]
  <1>1. /\ TypeOK /\ tx[a] \in Transaction /\ tx[a].queue \in Seq(Nat) /\ tx[a].queue # <<>>
        /\ phase[a] = "flush" /\ UNCHANGED <<stack, phase, rows>>
    BY Writers DEF Fire, ScopeInv
  <1>2. /\ Head(tx[a].queue) = h /\ 1 \in DOMAIN tx[a].queue /\ Tail(tx[a].queue) \in Seq(Nat)
        /\ \A k \in DOMAIN Tail(tx[a].queue) : k + 1 \in DOMAIN tx[a].queue /\ Tail(tx[a].queue)[k] = tx[a].queue[k + 1]
        /\ \A k \in DOMAIN tx[a].queue : k # 1 => k - 1 \in DOMAIN Tail(tx[a].queue) /\ Tail(tx[a].queue)[k - 1] = tx[a].queue[k]
    BY <1>1, Shifted
  <1>3. h \in Pending(a) /\ h \in DOMAIN writes /\ writes[h].by = a /\ writes[h].state = "open"
    <2>1. h \in Pending(a)
      BY <1>2 DEF Pending
    <2> QED
      BY <2>1 DEF EventInv, QueueOwn
  <1>4. n \in Transaction /\ n.queue = Tail(tx[a].queue) /\ n.open = tx[a].open /\ n.guc = tx[a].guc
        /\ n.mixed = tx[a].mixed /\ n.locks = tx[a].locks
    BY <1>1, <1>2 DEF Transaction
  <1>5. w \in Write /\ w.by = a /\ w.state = "open" /\ w.event = "fired"
    <2>1. writes[h] \in Write
      BY <1>1, <1>3, Writers
    <2> QED
      BY <1>3, <2>1 DEF Write
  <1> HIDE DEF w, n
  <1>6. tx' = [tx EXCEPT ![a] = n] /\ writes' = [writes EXCEPT ![h] = w]
    BY <1>2 DEF Fire, w, n
  <1>7. \A c \in Task : tx'[c] = IF c = a THEN n ELSE tx[c]
    BY <1>1, <1>6 DEF TypeOK
  <1>8. /\ writes' \in Seq(Write) /\ DOMAIN writes' = DOMAIN writes
        /\ \A i \in DOMAIN writes : writes'[i] = IF i = h THEN w ELSE writes[i]
    <2>1. writes \in Seq(Write) /\ DOMAIN writes = 1..Len(writes)
      BY <1>1, Writers DEF TypeOK
    <2> QED
      BY <1>3, <1>5, <1>6, <2>1, ExceptSeq
  <1>9. Open(a)
    BY <1>3 DEF EventInv, EventPending
  <1>10. ScopeInv'
    <2>1. tx' \in [Task -> Transaction]
      BY <1>1, <1>4, <1>6 DEF TypeOK
    <2>2. \A c \in Task : phase'[c] = "flush" => Len(stack[c]) = 1
      BY <1>1 DEF ScopeInv, ScopesNest
    <2> QED
      BY <1>1, <1>4, <1>7, <1>8, <1>9, <2>1, <2>2, InsideScope DEF TypeOK
  <1>11. /\ \A i \in Pending(a)' : i \in Pending(a)
         /\ \A i \in Pending(a) : i # h => i \in Pending(a)'
         /\ \A c \in Task \ {a} : Pending(c)' = Pending(c)
    <2>1. tx'[a].queue = Tail(tx[a].queue) /\ \A c \in Task \ {a} : tx'[c] = tx[c]
      BY <1>4, <1>7
    <2>2. \A i \in Pending(a)' : i \in Pending(a)
      <3>1. Pending(a)' = {Tail(tx[a].queue)[k] : k \in DOMAIN Tail(tx[a].queue)}
        BY <2>1 DEF Pending
      <3> QED
        BY <1>2, <3>1 DEF Pending
    <2>3. ASSUME NEW i \in Pending(a), i # h PROVE i \in Pending(a)'
      <3>1. PICK k \in DOMAIN tx[a].queue : i = tx[a].queue[k]
        BY DEF Pending
      <3>2. k - 1 \in DOMAIN Tail(tx[a].queue) /\ Tail(tx[a].queue)[k - 1] = i
        BY <1>2, <2>3, <3>1
      <3> QED
        BY <2>1, <3>2 DEF Pending
    <2>4. \A c \in Task \ {a} : Pending(c)' = Pending(c)
      BY <2>1 DEF Pending
    <2> QED
      BY <2>2, <2>3, <2>4
  <1>12. QueueOwn'
    <2> SUFFICES ASSUME NEW c \in Task, NEW i \in Pending(c)'
                 PROVE  i \in DOMAIN writes' /\ writes'[i].by = c /\ writes'[i].state = "open"
      BY DEF QueueOwn
    <2>1. i \in Pending(c)
      BY <1>11
    <2>2. i \in DOMAIN writes /\ writes[i].by = c /\ writes[i].state = "open"
      BY <2>1 DEF EventInv, QueueOwn
    <2> QED
      BY <1>3, <1>5, <1>8, <2>2
  <1>13. EventPending'
    <2> SUFFICES ASSUME NEW c \in Task, NEW i \in DOMAIN writes', writes'[i].by = c, writes'[i].state = "open"
                 PROVE  /\ Open(c)'
                        /\ (writes'[i].event = "queued" /\ i \in Pending(c)') \/ (writes'[i].event = "fired" /\ phase'[c] = "flush")
      BY Zenon DEF EventPending
    <2>1. i \in DOMAIN writes /\ writes[i].by = c /\ writes[i].state = "open"
      BY <1>3, <1>5, <1>8
    <2>2. /\ Open(c)
          /\ (writes[i].event = "queued" /\ i \in Pending(c)) \/ (writes[i].event = "fired" /\ phase[c] = "flush")
      BY <2>1, Zenon DEF EventInv, EventPending
    <2>3. Open(c)' /\ phase'[c] = phase[c]
      BY <1>1, <1>4, <1>7, <2>2 DEF Open
    <2>4. CASE i = h
      BY <1>1, <1>3, <1>5, <1>8, <2>1, <2>3, <2>4
    <2>5. CASE i # h
      BY <1>8, <1>11, <2>1, <2>2, <2>3, <2>5
    <2> QED
      BY <2>4, <2>5
  <1>14. HonestEvents' /\ NoEventLost'
    BY <1>5, <1>8 DEF EventInv, HonestEvents, NoEventLost
  <1> QED
    BY <1>10, <1>12, <1>13, <1>14 DEF EventInv

\* A statement that went through.
LEMMA WrittenStep ==
    ASSUME ScopeInv, EventInv, NEW a \in Task, NEW r \in Record, NEW new \in RowState, Written(a, r, new)
    PROVE  ScopeInv' /\ EventInv'
  <1> DEFINE k == Len(writes) + 1
             w == [by |-> a, event |-> IF Open(a) THEN "queued" ELSE "fired", state |-> IF Open(a) THEN "open" ELSE "committed"]
             n == [tx[a] EXCEPT !.queue = Append(@, k), !.undo = Remember(@, r)]
  <1>1. /\ TypeOK /\ tx[a] \in Transaction /\ tx[a].queue \in Seq(Nat) /\ Len(writes) \in Nat
        /\ k \in Nat /\ k = Len(writes) + 1
        /\ UNCHANGED <<stack, phase>> /\ DOMAIN writes = 1..Len(writes) /\ writes \in Seq(Write)
    BY Writers DEF Written, ScopeInv, TypeOK
  <1>2. w \in Write /\ (Open(a) => w.event = "queued" /\ w.state = "open") /\ (~Open(a) => w.event = "fired" /\ w.state = "committed")
        /\ w.by = a
    BY DEF Write
  <1>3. Remember(tx[a].undo, r) \in UNION {[R -> RowState] : R \in SUBSET Record}
    <2>1. PICK R \in SUBSET Record : tx[a].undo \in [R -> RowState]
      BY <1>1 DEF Transaction
    <2>2. rows[r] \in RowState
      BY <1>1 DEF TypeOK
    <2>3. Remember(tx[a].undo, r) \in [R \cup {r} -> RowState]
      BY <2>1, <2>2 DEF Remember
    <2> QED
      BY <2>3
  <1> HIDE DEF k
  <1>4. /\ Append(tx[a].queue, k) \in Seq(Nat)
        /\ DOMAIN Append(tx[a].queue, k) = DOMAIN tx[a].queue \cup {Len(tx[a].queue) + 1}
        /\ \A i \in DOMAIN tx[a].queue : Append(tx[a].queue, k)[i] = tx[a].queue[i]
        /\ Append(tx[a].queue, k)[Len(tx[a].queue) + 1] = k
    <2>1. \A q \in Seq(Nat), e \in Nat :
             /\ Append(q, e) \in Seq(Nat) /\ DOMAIN Append(q, e) = DOMAIN q \cup {Len(q) + 1}
             /\ \A i \in DOMAIN q : Append(q, e)[i] = q[i]
             /\ Append(q, e)[Len(q) + 1] = e
      BY Pushed
    <2> QED
      BY <1>1, <2>1
  <1>5. n \in Transaction /\ n.queue = Append(tx[a].queue, k) /\ n.open = tx[a].open /\ n.guc = tx[a].guc
        /\ n.mixed = tx[a].mixed /\ n.locks = tx[a].locks
    BY <1>1, <1>3, <1>4 DEF Transaction
  <1> HIDE DEF w
  <1>6. /\ rows' = [rows EXCEPT ![r] = new] /\ writes' = Append(writes, w)
        /\ tx' = IF Open(a) THEN [tx EXCEPT ![a] = n] ELSE tx
    <2>1. rows' = [rows EXCEPT ![r] = new]
      BY DEF Written
    <2>2. writes' = Append(writes, w)
      BY DEF Written, w
    <2>3. tx' = IF Open(a) THEN [tx EXCEPT ![a] = n] ELSE tx
      BY <1>1 DEF Written, n
    <2> QED
      BY <2>1, <2>2, <2>3
  <1> HIDE DEF n
  <1>7. \A c \in Task : tx'[c] = IF c = a /\ Open(a) THEN n ELSE tx[c]
    BY <1>1, <1>6 DEF TypeOK
  <1>8. /\ writes' \in Seq(Write) /\ DOMAIN writes' = DOMAIN writes \cup {k} /\ k \notin DOMAIN writes
        /\ \A i \in DOMAIN writes : writes'[i] = writes[i]
        /\ writes'[k] = w
    BY <1>1, <1>2, <1>6, Pushed
  <1>9. ScopeInv'
    <2>1. tx' \in [Task -> Transaction] /\ rows' \in [Record -> RowState]
      BY <1>1, <1>5, <1>6 DEF TypeOK
    <2>2. \A c \in Task : phase'[c] = "flush" => Len(stack[c]) = 1
      BY <1>1 DEF ScopeInv, ScopesNest
    <2> QED
      BY <1>1, <1>5, <1>7, <1>8, <2>1, <2>2, InsideScope DEF TypeOK
  <1>10. /\ \A c \in Task \ {a} : Pending(c)' = Pending(c)
         /\ Pending(a)' = IF Open(a) THEN Pending(a) \cup {k} ELSE Pending(a)
    <2>1. \A c \in Task : (c # a \/ ~Open(a)) => Pending(c)' = Pending(c)
      BY <1>7 DEF Pending
    <2>2. CASE Open(a)
      <3>1. tx'[a].queue = Append(tx[a].queue, k)
        BY <1>5, <1>7, <2>2
      <3>2. Pending(a)' = {Append(tx[a].queue, k)[i] : i \in DOMAIN Append(tx[a].queue, k)}
        BY <3>1 DEF Pending
      <3>3. Pending(a) = {tx[a].queue[i] : i \in DOMAIN tx[a].queue}
        BY DEF Pending
      <3>4. Pending(a)' = Pending(a) \cup {k}
        BY <1>4, <3>2, <3>3
      <3> QED
        BY <2>1, <2>2, <3>4
    <2> QED
      BY <2>1, <2>2
  <1>11. QueueOwn'
    <2> SUFFICES ASSUME NEW c \in Task, NEW i \in Pending(c)'
                 PROVE  i \in DOMAIN writes' /\ writes'[i].by = c /\ writes'[i].state = "open"
      BY DEF QueueOwn
    <2>1. CASE i \in Pending(c)
      <3>1. i \in DOMAIN writes /\ writes[i].by = c /\ writes[i].state = "open"
        BY <2>1 DEF EventInv, QueueOwn
      <3> QED
        BY <1>8, <3>1
    <2>2. CASE i = k /\ c = a /\ Open(a)
      BY <1>2, <1>8, <2>2
    <2> QED
      BY <1>10, <2>1, <2>2
  <1>12. EventPending'
    <2> SUFFICES ASSUME NEW c \in Task, NEW i \in DOMAIN writes', writes'[i].by = c, writes'[i].state = "open"
                 PROVE  /\ Open(c)'
                        /\ (writes'[i].event = "queued" /\ i \in Pending(c)') \/ (writes'[i].event = "fired" /\ phase'[c] = "flush")
      BY Zenon DEF EventPending
    <2>1. Open(c)' <=> Open(c)
      BY <1>5, <1>7 DEF Open
    <2>2. CASE i = k
      <3>1. c = a /\ Open(a)
        BY <1>2, <1>8, <2>2
      <3> QED
        BY <1>2, <1>8, <1>10, <2>1, <2>2, <3>1
    <2>3. CASE i \in DOMAIN writes
      <3>1. writes[i].by = c /\ writes[i].state = "open" /\ writes'[i] = writes[i]
        BY <1>8, <2>3
      <3>2. /\ Open(c)
            /\ (writes[i].event = "queued" /\ i \in Pending(c)) \/ (writes[i].event = "fired" /\ phase[c] = "flush")
        BY <2>3, <3>1, Zenon DEF EventInv, EventPending
      <3> QED
        BY <1>1, <1>10, <2>1, <3>1, <3>2
    <2> QED
      BY <1>8, <2>2, <2>3
  <1>13. HonestEvents' /\ NoEventLost'
    BY <1>2, <1>8 DEF EventInv, HonestEvents, NoEventLost
  <1> QED
    BY <1>9, <1>11, <1>12, <1>13 DEF EventInv

\* What the actions on rows have in common.
LEMMA StatementStep ==
    ASSUME ScopeInv, EventInv, NEW a \in Task, Statement(a) PROVE ScopeInv' /\ EventInv'
  <1>1. CASE StatementFails(a)
    <2>1. /\ TypeOK /\ Open(a) /\ UNCHANGED <<stack, phase, rows, writes>>
          /\ tx' = [tx EXCEPT ![a] = [tx[a] EXCEPT !.aborted = TRUE]] /\ tx[a] \in Transaction
      BY <1>1 DEF StatementFails, ScopeInv, TypeOK
    <2> DEFINE n == [tx[a] EXCEPT !.aborted = TRUE]
    <2>2. n \in Transaction /\ n.open = tx[a].open /\ n.guc = tx[a].guc /\ n.mixed = tx[a].mixed
          /\ n.locks = tx[a].locks /\ n.queue = tx[a].queue
      BY <2>1 DEF Transaction
    <2> HIDE DEF n
    <2>3. tx' \in [Task -> Transaction] /\ \A c \in Task : tx'[c] = IF c = a THEN n ELSE tx[c]
      BY <2>1, <2>2 DEF TypeOK, n
    <2>4. ScopeInv'
      <3>1. \A c \in Task : phase'[c] = "flush" => Len(stack[c]) = 1
        BY <2>1 DEF ScopeInv, ScopesNest
      <3> QED
        BY <2>1, <2>2, <2>3, <3>1, InsideScope DEF TypeOK
    <2>5. EventInv'
      BY <2>1, <2>2, <2>3, SameEvents, Writers DEF Open
    <2> QED
      BY <2>4, <2>5
  <1>2. CASE \E r \in Record : Create(a, r) \/ Update(a, r) \/ Delete(a, r) \/ ForceDelete(a, r) \/ Restore(a, r)
    <2>1. PICK r \in Record : Create(a, r) \/ Update(a, r) \/ Delete(a, r) \/ ForceDelete(a, r) \/ Restore(a, r)
      BY <1>2
    <2>2. rows[r] \in RowState /\ {"absent", "live", "trashed"} \subseteq RowState
      BY DEF ScopeInv, TypeOK, RowState
    <2>3. \E new \in RowState : Written(a, r, new)
      BY <2>1, <2>2 DEF Create, Update, Delete, ForceDelete, Restore
    <2> QED
      BY <2>3, WrittenStep
  <1> QED
    BY <1>1, <1>2 DEF Statement

\* Entering any kind of scope.
LEMMA EnterStep ==
    ASSUME ScopeInv, EventInv, NEW a \in Task,
           RunUnit(a) \/ \E k \in Key \cup {None} : WithoutTenant(a, k) \/ \E t \in Tenant : WithTenant(a, t, k)
    PROVE  ScopeInv' /\ EventInv'
  <1>1. TypeOK /\ CurrentTenant(a) \in Tenant \cup {None} /\ Open(a) \in BOOLEAN
    <2>1. TypeOK /\ Open(a) \in BOOLEAN
      BY DEF ScopeInv, TypeOK, Open, Transaction
    <2>2. stack[a] # <<>> => CurrentTenant(a) \in Tenant \cup {None}
      BY <2>1, StackTop DEF Scopes
    <2> QED
      BY <2>1, <2>2 DEF CurrentTenant
  <1>2. PICK kind \in {"run", "tenant", "without"}, t \in Tenant \cup {None}, k \in Key \cup {None}, bound \in Tenant \cup {None} :
          /\ Run(a, Frame(a, kind, t, k), bound) /\ Unheld(a, t, k)
          /\ t \in {None, bound} \/ (bound = None /\ t = CurrentTenant(a))
    <2>1. CASE RunUnit(a)
      BY <1>1, <2>1 DEF RunUnit, Unheld
    <2>2. ASSUME NEW k \in Key \cup {None}, WithoutTenant(a, k)
          PROVE  Run(a, Frame(a, "without", None, k), None) /\ Unheld(a, None, k)
      BY <2>2 DEF WithoutTenant
    <2>3. ASSUME NEW k \in Key \cup {None}, NEW t \in Tenant, WithTenant(a, t, k)
          PROVE  Run(a, Frame(a, "tenant", t, k), t) /\ Unheld(a, t, k)
      BY <2>3 DEF WithTenant
    <2> QED
      BY <2>1, <2>2, <2>3
  <1> DEFINE f == Frame(a, kind, t, k)
  <1>3. f \in Scopes /\ f.opened = ~Open(a) /\ f.tenant = t /\ f.key = k
    BY <1>1 DEF Frame, Scopes
  <1>4. Run(a, f, bound)
    BY <1>2
  <1> HIDE DEF f
  <1>5. ScopeInv'
    BY <1>2, <1>3, <1>4, RunScope DEF Unheld
  <1>6. UNCHANGED <<phase, rows, writes>> /\ \A c \in Task : tx'[c].queue = tx[c].queue /\ (Open(c) => tx'[c].open)
    <2>1. UNCHANGED <<phase, rows, writes>>
      BY <1>4 DEF Run
    <2>2. \E n : /\ tx' = [tx EXCEPT ![a] = n] /\ n.queue = tx[a].queue /\ n.open = TRUE
      <3>1. tx[a] \in Transaction
        BY <1>1 DEF TypeOK
      <3> DEFINE u == [tx[a] EXCEPT !.open = TRUE]
                 b == IF bound = None THEN u ELSE [u EXCEPT !.guc = bound, !.mixed = @ \/ u.guc \notin {None, bound}]
                 n == IF f.key = None THEN b ELSE [b EXCEPT !.locks = @ \cup {<<f.tenant, f.key>>}]
      <3>2. u \in Transaction /\ u.queue = tx[a].queue /\ u.open = TRUE
        BY <3>1 DEF Transaction
      <3>3. b \in Transaction /\ b.queue = tx[a].queue /\ b.open = TRUE
        BY <3>2 DEF Transaction
      <3>4. n.queue = tx[a].queue /\ n.open = TRUE
        BY <3>3 DEF Transaction
      <3>5. tx' = [tx EXCEPT ![a] = n]
        BY <1>4 DEF Run
      <3> QED
        BY <3>4, <3>5
    <2> QED
      BY <1>1, <2>1, <2>2 DEF TypeOK, Open
  <1>7. EventInv'
    BY <1>1, <1>6, SameEvents, Writers
  <1> QED
    BY <1>5, <1>7

-----------------------------------------------------------------------------
(* The theorems.                                                           *)

\* Every step of the system keeps the invariant.
LEMMA StepInv ==
    ASSUME ScopeInv, EventInv, [Next]_vars PROVE ScopeInv' /\ EventInv'
  <1>1. ASSUME NEW a \in Task, Scope(a) PROVE ScopeInv' /\ EventInv'
    BY <1>1, EnterStep, ThrowStep, ReturnStep, FireStep, CommitStep, Zenon DEF Scope
  <1>2. ASSUME NEW a \in Task, Statement(a) PROVE ScopeInv' /\ EventInv'
    BY <1>2, StatementStep
  <1>3. CASE UNCHANGED vars
    <2>1. ScopeInv'
      BY <1>3 DEF vars, ScopeInv, TypeOK, ScopesNest, LocksHeld, OneTenant, Open
    <2>2. EventInv'
      BY <1>3, SameEvents, Writers DEF vars, ScopeInv, Open
    <2> QED
      BY <2>1, <2>2
  <1> QED
    BY <1>1, <1>2, <1>3 DEF Next

\* Two tasks that are inside scopes of one lock would both hold it.
LEMMA Excluded == ASSUME ScopeInv PROVE LockExcludes
  <1> SUFFICES ASSUME NEW a \in Task, NEW b \in Task, a # b, NEW i \in DOMAIN stack[a], NEW j \in DOMAIN stack[b],
                      stack[a][i].key # None, <<stack[a][i].tenant, stack[a][i].key>> = <<stack[b][j].tenant, stack[b][j].key>>
               PROVE  FALSE
    BY DEF LockExcludes
  <1>1. <<stack[a][i].tenant, stack[a][i].key>> \in tx[a].locks
    BY DEF ScopeInv, LocksHeld
  <1>2. stack[b][j].key # None
    OBVIOUS
  <1>3. <<stack[b][j].tenant, stack[b][j].key>> \in tx[b].locks
    BY <1>2 DEF ScopeInv, LocksHeld
  <1>4. tx[a].locks \cap tx[b].locks = {}
    BY DEF ScopeInv, LocksHeld
  <1> QED
    BY <1>1, <1>3, <1>4

\* The tenant of the innermost scope is the one the transaction is bound to.
LEMMA BoundTenant == ASSUME ScopeInv PROVE TenantBound
  <1> SUFFICES ASSUME NEW a \in Task, CurrentTenant(a) # None, ~tx[a].mixed PROVE tx[a].guc = CurrentTenant(a)
    BY DEF TenantBound
  <1>1. stack[a] # <<>>
    BY DEF CurrentTenant
  <1>2. PICK i \in DOMAIN stack[a] : CurrentTenant(a) = stack[a][i].tenant
    BY <1>1, StackTop DEF ScopeInv
  <1>3. stack[a][i].tenant \in {None, tx[a].guc}
    BY DEF ScopeInv, OneTenant
  <1> QED
    BY <1>2, <1>3

\* Events follow the fate of their writes, locks exclude one another and
\* tenants stay bound, whatever scopes tasks nest and wherever they fail
\* (UnitOfWork.run, TenantManager, Repository.emit).
THEOREM UnitOfWorkInvariant == Spec => []UnitOfWorkInv
  <1>1. Init => ScopeInv /\ EventInv
    BY InitScopes
  <1>2. ScopeInv /\ EventInv /\ [Next]_vars => ScopeInv' /\ EventInv'
    BY StepInv
  <1>3. ScopeInv /\ EventInv => UnitOfWorkInv
    BY Excluded, BoundTenant DEF UnitOfWorkInv
  <1> QED
    BY <1>1, <1>2, <1>3, PTL DEF Spec

\* No listener hears of a write that was rolled back, and every committed
\* write is heard of: the guarantee of the post-event queue.
THEOREM HonestOutbox == Spec => [](HonestEvents /\ NoEventLost)
  <1>1. UnitOfWorkInv => HonestEvents /\ NoEventLost
    BY DEF UnitOfWorkInv, EventInv
  <1> QED
    BY <1>1, UnitOfWorkInvariant, PTL

\* withLock and withTenantLock exclude one another for any number of tasks.
THEOREM LocksExclude == Spec => []LockExcludes
  <1>1. UnitOfWorkInv => LockExcludes
    BY DEF UnitOfWorkInv
  <1> QED
    BY <1>1, UnitOfWorkInvariant, PTL

(***************************************************************************)
(* The operators of the queue.                                             *)
(***************************************************************************)
\* What the constants of the queue are (the assumption of JobQueue).
JobsGiven ==
    /\ LaneOf \in [JobTask -> Lane] /\ Listening \in [Consumer -> SUBSET Lane]
    /\ None \notin Nat
    /\ PerJob \in [JobTask -> (Nat \ {0}) \cup {None}] /\ PerClass \in [JobTask -> (Nat \ {0}) \cup {None}]
    /\ ByDefault \in Nat \ {0} /\ Handled \subseteq JobTask
    /\ MaxJobs \in Nat /\ MaxJobFaults \in Nat /\ MaxJobCrashes \in Nat

\* The theorems of JobQueueProofs, about these constants and variables.
Queued == INSTANCE JobQueueProofs WITH
    Task <- JobTask, Worker <- Consumer, Queue <- Lane, QueueOf <- LaneOf, Listens <- Listening,
    OptAttempts <- PerJob, ClassAttempts <- PerClass, DefaultAttempts <- ByDefault, Registered <- Handled,
    NoValue <- None, MaxId <- MaxJobs, MaxFaults <- MaxJobFaults, MaxCrashes <- MaxJobCrashes, faults <- queueFaults

\* An instance has its own name for the cardinality of a set.
LEMMA OneCardinality == ASSUME NEW S PROVE Operators!Cardinality(S) = Queued!Cardinality(S)
BY DEF Operators!Cardinality, Queued!Cardinality

\* A dispatcher of one is a dispatcher of the other.
LEMMA SameDispatcher == ASSUME NEW t PROVE Operators!Dispatcher(t) <=> Queued!Dispatcher(t)
BY DEF Operators!DispatchAlone, Queued!DispatchAlone, Operators!DispatchInUow, Queued!DispatchInUow,
       Operators!DispatchMax, Queued!DispatchMax, Operators!Dispatcher, Queued!Dispatcher, Operators!NewRow,
       Queued!NewRow, Operators!UowBegin, Queued!UowBegin, Operators!UowCommit, Queued!UowCommit,
       Operators!UowRollback, Queued!UowRollback, Operators!With, Queued!With, Operators!history, Queued!history,
       Operators!tables, Queued!tables

\* The same worker.
LEMMA SameWorker == ASSUME NEW w PROVE (Operators!ProcessOne(w) \/ Operators!Crash(w)) <=> (Queued!ProcessOne(w) \/ Queued!Crash(w))
BY DEF Operators!Budget, Queued!Budget, Operators!Busy, Queued!Busy, Operators!ClaimCommit, Queued!ClaimCommit,
       Operators!ClaimSelect, Queued!ClaimSelect, Operators!Claimable, Queued!Claimable, Operators!Crash,
       Queued!Crash, Operators!DeleteDone, Queued!DeleteDone, Operators!DropUnknown, Queued!DropUnknown,
       Operators!Exhausted, Queued!Exhausted, Operators!Fault, Queued!Fault, Operators!Goto, Queued!Goto,
       Operators!HandleReturns, Queued!HandleReturns, Operators!HandleThrows, Queued!HandleThrows, Operators!Idle,
       Queued!Idle, Operators!Locked, Queued!Locked, Operators!MakeThrows, Queued!MakeThrows, Operators!MoveToFailed,
       Queued!MoveToFailed, Operators!ProcessOne, Queued!ProcessOne, Operators!ScheduleRetry, Queued!ScheduleRetry,
       Operators!With, Queued!With, Operators!Without, Queued!Without, Operators!Write, Queued!Write,
       Operators!history, Queued!history, Operators!tables, Queued!tables

\* The same console.
LEMMA SameConsole == Operators!Console <=> Queued!Console
BY OneCardinality DEF Operators!Console, Queued!Console, Operators!Flush, Queued!Flush, Operators!Locked,
       Queued!Locked, Operators!NewRow, Queued!NewRow, Operators!NoRows, Queued!NoRows, Operators!RetryAbort,
       Queued!RetryAbort, Operators!RetryCommit, Queued!RetryCommit, Operators!RetryMax, Queued!RetryMax,
       Operators!RetrySelect, Queued!RetrySelect, Operators!Without, Queued!Without, Operators!history,
       Queued!history, Operators!tables, Queued!tables

\* What starts, moves and is promised is the same.
LEMMA SameQueue ==
  /\ Operators!Init => Queued!Init
  /\ [Operators!Next]_queueVars => [Queued!Next]_(Queued!vars)
  /\ Queued!QueueInv /\ Queued!NothingLost => OperatorsInv
<1>1. Operators!Init => Queued!Init
  BY DEF Operators!Idle, Queued!Idle, Operators!Init, Queued!Init, Operators!NoRows, Queued!NoRows
<1>2. \A i : Operators!BecomeDue(i) <=> Queued!BecomeDue(i)
  BY DEF Operators!BecomeDue, Queued!BecomeDue, Operators!Locked, Queued!Locked, Operators!history, Queued!history
<1>3. Operators!Next => Queued!Next
  BY <1>2, SameDispatcher, SameWorker, SameConsole DEF Operators!Next, Queued!Next, Operators!Ids, Queued!Ids
<1>4. UNCHANGED queueVars => UNCHANGED Queued!vars
  BY DEF queueVars, Queued!vars, Queued!tables, Queued!history
<1>5. Queued!QueueInv /\ Queued!NothingLost => Operators!QueueInv /\ Operators!NothingLost
  BY OneCardinality DEF Operators!AttemptBudget, Queued!AttemptBudget, Operators!Attempts, Queued!Attempts,
         Operators!Budget, Queued!Budget, Operators!Busy, Queued!Busy, Operators!Claim, Queued!Claim,
         Operators!DeadLetter, Queued!DeadLetter, Operators!HasRow, Queued!HasRow, Operators!HeldRowsMatch,
         Queued!HeldRowsMatch, Operators!Idle, Queued!Idle, Operators!Ids, Queued!Ids, Operators!IdsFresh,
         Queued!IdsFresh, Operators!MutualExclusion, Queued!MutualExclusion, Operators!NothingLost,
         Queued!NothingLost, Operators!QueueInv, Queued!QueueInv, Operators!Row, Queued!Row, Operators!TypeOK,
         Queued!TypeOK, Operators!UowState, Queued!UowState
<1>. QED BY <1>1, <1>3, <1>4, <1>5 DEF OperatorsInv

\* The invariants of JobQueueProofs start and stay.
LEMMA QueuedHolds ==
  ASSUME JobsGiven
  PROVE  /\ Queued!Init => Queued!QueueInv /\ Queued!DeliveryInv
         /\ Queued!QueueInv /\ Queued!DeliveryInv /\ [Queued!Next]_(Queued!vars) => Queued!QueueInv' /\ Queued!DeliveryInv'
<1>1. Queued!Init => Queued!QueueInv BY Queued!InitInv DEF JobsGiven, Queued!Attempts
<1>2. Queued!QueueInv /\ [Queued!Next]_(Queued!vars) => Queued!QueueInv' BY Queued!StepInv DEF JobsGiven, Queued!Attempts
<1>3. Queued!Init => Queued!DeliveryInv BY Queued!InitDelivery DEF JobsGiven, Queued!Attempts
<1>4. Queued!DeliveryInv /\ [Queued!Next]_(Queued!vars) => Queued!DeliveryInv' BY Queued!StepDelivery DEF JobsGiven, Queued!Attempts
<1>. QED BY <1>1, <1>2, <1>3, <1>4

\* With operators racing each other and the workers the queue keeps its inductive invariant and
\* loses no job; JobQueueProofs has the argument.
THEOREM OperatorsSafe == ASSUME JobsGiven PROVE PlatformSpec => []OperatorsInv
<1>1. PlatformInit => Queued!Init BY SameQueue DEF PlatformInit
<1>2. [PlatformNext]_platformVars => [Queued!Next]_(Queued!vars)
  <2>1. PlatformNext => [Operators!Next]_queueVars BY DEF PlatformNext
  <2>2. UNCHANGED platformVars => UNCHANGED queueVars BY DEF platformVars
  <2>. QED BY <2>1, <2>2, SameQueue
<1>3. Queued!DeliveryInv => Queued!NothingLost BY DEF Queued!DeliveryInv
<1>4. Queued!QueueInv /\ Queued!DeliveryInv => OperatorsInv BY <1>3, SameQueue
<1>. QED BY <1>1, <1>2, <1>4, QueuedHolds, PTL DEF PlatformSpec

(***************************************************************************)
(* Notifications.                                                          *)
(***************************************************************************)
ChannelNames == {"webhook", "discord", "mail", "broadcast", "database", "log", "sse", "unknown"}
\* A notification names channels; a subscriber's queue holds an event at least.
SendingsBounded == Vias \subseteq [Sending -> Seq(ChannelNames)] /\ KeyOf \in Keys /\ QueueSize \in Nat \ {0}

ChannelAnswer == [channel : ChannelNames, is : {"delivered", "skipped", "error"}, retryable : BOOLEAN]
SendCall == [at : {"start", "hook"}, via : Seq(ChannelNames), answers : Seq(ChannelAnswer), bucket : Nat]
\* A send is at the channel behind those it has answered, and awaits only the hook of sse.
Underway(r) == Len(r.answers) < Len(r.via)
SendingsHold ==
    /\ sendings \in [Sending -> SendCall]
    /\ \A d \in Sending :
        /\ Len(sendings[d].answers) <= Len(sendings[d].via)
        /\ sendings[d].at = "hook" => Underway(sendings[d]) /\ Notify!Channel(d) = "sse"

\* An answer that says so, or that its channel lets one fear, stands for what was taken in.
Owns(a) == a.is # "skipped" /\ (a.is = "error" => a.retryable \/ a.channel \in {"mail", "broadcast"})
Told ==
    \A d \in Sending : \A i \in DOMAIN sendings[d].answers :
        LET a == sendings[d].answers[i] IN
        /\ a.channel = sendings[d].via[i]
        /\ a.channel \in Notify!Remote /\ a.is = "delivered" => <<a.channel, d>> \in received
Took ==
    \A d \in Sending, c \in ChannelNames : <<c, d>> \in received =>
        \E i \in DOMAIN sendings[d].answers : sendings[d].answers[i].channel = c /\ Owns(sendings[d].answers[i])

\* What a stream got is, in order, some of what was pushed to it; the rest is counted as lost.
Stream == [at : {"off", "idle", "waiting", "woken", "ended"}, key : Keys \cup {"none"}, queue : Seq(Sending),
           taken : Seq(Sending), dropped : Nat, pushed : Seq(Sending), closed : BOOLEAN]
Inside(r, f) ==
    /\ f \in [1..(Len(r.taken) + Len(r.queue)) -> 1..Len(r.pushed)]
    /\ \A i \in 1..Len(r.taken) : r.taken[i] = r.pushed[f[i]]
    /\ \A i \in 1..Len(r.queue) : r.queue[i] = r.pushed[f[Len(r.taken) + i]]
    /\ \A i, j \in 1..(Len(r.taken) + Len(r.queue)) : i < j => f[i] < f[j]
StreamHolds(r) ==
    /\ r \in Stream
    /\ r.at # "off" => r.key \in Keys
    /\ r.at = "off" => ~r.closed
    /\ r.at = "waiting" => r.queue = <<>> /\ ~r.closed
    /\ Len(r.taken) + Len(r.queue) + r.dropped = Len(r.pushed)
    /\ Len(r.queue) <= QueueSize
    /\ \E f : Inside(r, f)

\* What was taken and what waits is all that a place speaks of.
LEMMA SameInside ==
  ASSUME NEW r, NEW v, v.taken = r.taken, v.queue = r.queue, v.pushed = r.pushed, \E f : Inside(r, f)
  PROVE  \E f : Inside(v, f)
<1>1. PICK f : Inside(r, f) OBVIOUS
<1>2. Inside(v, f) BY <1>1 DEF Inside
<1>. QED BY <1>2

StreamsHold == sub \in [Listener -> Stream] /\ \A s \in Listener : StreamHolds(sub[s])

\* The registry names the bucket of the open streams of a key.
IsOpen(s) == sub[s].at # "off" /\ ~sub[s].closed
OpenOn(k) == {s \in Listener : IsOpen(s) /\ sub[s].key = k}
Registered ==
    /\ buckets \in Seq(SUBSET Listener) /\ registry \in [Keys -> Nat]
    /\ \A k \in Keys : registry[k] <= Len(buckets)
    /\ \A k, l \in Keys : registry[k] = registry[l] /\ registry[k] # 0 => k = l
    /\ \A k \in Keys : IF registry[k] = 0 THEN OpenOn(k) = {} ELSE buckets[registry[k]] = OpenOn(k) /\ OpenOn(k) # {}

NotifyIInv == SendingsHold /\ Told /\ Took /\ StreamsHold /\ Registered

\* Nothing is sent and nobody listens.
LEMMA NotifyStarts == ASSUME SendingsBounded, Notify!Init PROVE NotifyIInv
<1>1. PICK v \in Vias : sendings = [d \in Sending |-> [at |-> "start", via |-> v[d], answers |-> <<>>, bucket |-> 0]]
  BY DEF Notify!Init
<1>2. v \in [Sending -> Seq(ChannelNames)] BY DEF SendingsBounded
<1>3. <<>> \in Seq(ChannelAnswer) /\ <<>> \in Seq(Sending) /\ <<>> \in Seq(SUBSET Listener) OBVIOUS
<1>4. \A d \in Sending : sendings[d] = [at |-> "start", via |-> v[d], answers |-> <<>>, bucket |-> 0] BY <1>1
<1>5. sendings \in [Sending -> SendCall] BY <1>1, <1>2, <1>3 DEF SendCall
<1>6. \A d \in Sending : Len(sendings[d].answers) = 0 /\ DOMAIN sendings[d].answers = {} /\ Len(sendings[d].via) \in Nat
  <2> TAKE d \in Sending
  <2>0. sendings[d] = [at |-> "start", via |-> v[d], answers |-> <<>>, bucket |-> 0] BY <1>4, Zenon
  <2>1. sendings[d].answers = <<>> BY <2>0
  <2>2. sendings[d].via = v[d] BY <2>0
  <2>3. v[d] \in Seq(ChannelNames) BY <1>2
  <2>. QED BY <2>1, <2>2, <2>3
<1>7. SendingsHold /\ Told /\ Took BY <1>4, <1>5, <1>6 DEF SendingsHold, Told, Took, Notify!Init
<1>8. \A s \in Listener : sub[s] = Notify!NotYet BY DEF Notify!Init
<1>9. StreamHolds(Notify!NotYet)
  <2>1. Notify!NotYet \in Stream BY <1>3 DEF Notify!NotYet, Stream
  <2>2. Inside(Notify!NotYet, [i \in {} |-> 0])
    <3>1. Len(<<>>) = 0 /\ 1..0 = {} /\ 1..(0 + 0) = {} OBVIOUS
    <3>. QED BY <3>1 DEF Inside, Notify!NotYet
  <2>3. Len(Notify!NotYet.taken) = 0 /\ Len(Notify!NotYet.queue) = 0 /\ Len(Notify!NotYet.pushed) = 0 /\ Notify!NotYet.dropped = 0
    BY DEF Notify!NotYet
  <2>. QED BY <2>1, <2>2, <2>3 DEF StreamHolds, Notify!NotYet, SendingsBounded
<1>10. StreamsHold BY <1>8, <1>9 DEF StreamsHold, StreamHolds, Notify!Init
<1>11. Registered
  <2>1. \A k : OpenOn(k) = {} BY <1>8 DEF OpenOn, IsOpen, Notify!NotYet
  <2>2. registry = [k \in Keys |-> 0] /\ buckets = <<>> /\ Len(buckets) = 0 BY DEF Notify!Init
  <2>. QED BY <1>3, <2>1, <2>2 DEF Registered
<1>. QED BY <1>7, <1>10, <1>11 DEF NotifyIInv

\* A channel is answered: what it took in is owned, and what is said to be delivered it took in.
LEMMA ChannelIsAnswered ==
  ASSUME SendingsHold, Told, Took, NEW d \in Sending, Underway(sendings[d]),
         NEW x \in [is : {"delivered", "skipped", "error"}, retryable : BOOLEAN], Notify!Answers(d, x),
         NEW served \in SUBSET {<<Notify!Channel(d), d>>}, received' = received \cup served,
         served # {} => Owns([channel |-> Notify!Channel(d), is |-> x.is, retryable |-> x.retryable]),
         Notify!Channel(d) \in Notify!Remote /\ x.is = "delivered" => served # {}
  PROVE  SendingsHold' /\ Told' /\ Took'
<1> DEFINE c == Notify!Channel(d)
           a == [channel |-> c, is |-> x.is, retryable |-> x.retryable]
           was == sendings[d].answers
           n == Len(was)
<1>1. was \in Seq(ChannelAnswer) /\ n \in Nat /\ sendings[d].via \in Seq(ChannelNames) /\ Len(sendings[d].via) \in Nat
  BY DEF SendingsHold, SendCall
<1>2. n < Len(sendings[d].via) BY DEF Underway
<1>3. c \in ChannelNames /\ c = sendings[d].via[n + 1] BY <1>1, <1>2, ElementOfSeq DEF Notify!Channel
<1>4. a \in ChannelAnswer BY <1>3 DEF ChannelAnswer
<1>4a. a.channel = c /\ a.is = x.is /\ a.retryable = x.retryable OBVIOUS
<1>5. sendings' = [sendings EXCEPT ![d].answers = Append(was, a), ![d].at = "start"] BY DEF Notify!Answers
<1>b. /\ served # {} => Owns(a) /\ served = {<<c, d>>}
      /\ c \in Notify!Remote /\ x.is = "delivered" => served # {}
      /\ served \subseteq {<<c, d>>}
  OBVIOUS
<1> HIDE DEF c, a
<1>6. Append(was, a) \in Seq(ChannelAnswer) /\ Len(Append(was, a)) = n + 1 /\ DOMAIN Append(was, a) = 1..(n + 1)
      /\ Append(was, a)[n + 1] = a /\ \A i \in 1..n : Append(was, a)[i] = was[i]
  BY <1>1, <1>4, AppendProperties
<1>7. DOMAIN was = 1..n BY <1>1
<1> DEFINE q == Append(was, a)
<1>8. q \in Seq(ChannelAnswer) /\ Len(q) = n + 1 /\ DOMAIN q = 1..(n + 1) /\ q[n + 1] = a /\ \A i \in 1..n : q[i] = was[i] BY <1>6
<1> HIDE DEF q
<1>9. /\ sendings' \in [Sending -> SendCall] /\ \A e \in Sending \ {d} : sendings'[e] = sendings[e]
      /\ sendings'[d].answers = q /\ sendings'[d].via = sendings[d].via /\ sendings'[d].at = "start"
  <2> DEFINE v == [sendings[d] EXCEPT !.answers = q, !.at = "start"]
  <2>1. sendings' = [sendings EXCEPT ![d] = v] BY <1>5 DEF SendingsHold, q
  <2>2. v \in SendCall /\ v.answers = q /\ v.via = sendings[d].via /\ v.at = "start" BY <1>8 DEF SendingsHold, SendCall
  <2> HIDE DEF v
  <2>. QED BY <2>1, <2>2 DEF SendingsHold
<1>10. SendingsHold'
  <2> SUFFICES ASSUME NEW e \in Sending
               PROVE  /\ Len(sendings'[e].answers) <= Len(sendings'[e].via)
                      /\ sendings'[e].at = "hook" => Underway(sendings'[e]) /\ Notify!Channel(e)' = "sse"
    BY <1>9 DEF SendingsHold, Underway
  <2>1. CASE e = d
    <3>1. n + 1 <= Len(sendings[d].via) BY <1>1, <1>2
    <3>. QED BY <1>8, <1>9, <2>1, <3>1
  <2>2. CASE e # d BY <1>9, <2>2 DEF SendingsHold, Notify!Channel
  <2>. QED BY <2>1, <2>2
<1>11. Told'
  <2> SUFFICES ASSUME NEW e \in Sending, NEW i \in DOMAIN sendings'[e].answers
               PROVE  /\ sendings'[e].answers[i].channel = sendings'[e].via[i]
                      /\ sendings'[e].answers[i].channel \in Notify!Remote /\ sendings'[e].answers[i].is = "delivered"
                           => <<sendings'[e].answers[i].channel, e>> \in received'
    BY DEF Told
  <2>1. CASE e # d BY <1>9, <2>1 DEF Told
  <2>2. CASE e = d /\ i = n + 1 BY <1>3, <1>4a, <1>8, <1>9, <1>b, <2>2
  <2>3. CASE e = d /\ i # n + 1
    <3>1. i \in 1..n BY <1>1, <1>8, <1>9, <2>3
    <3>. QED BY <1>7, <1>8, <1>9, <2>3, <3>1 DEF Told
  <2>. QED BY <2>1, <2>2, <2>3
<1>12. Took'
  <2> SUFFICES ASSUME NEW e \in Sending, NEW h \in ChannelNames, <<h, e>> \in received'
               PROVE  \E i \in DOMAIN sendings'[e].answers : sendings'[e].answers[i].channel = h /\ Owns(sendings'[e].answers[i])
    BY DEF Took, Owns
  <2>1. CASE <<h, e>> \in served
    <3>1. <<h, e>> = <<c, d>> /\ Owns(a) BY <1>b, <2>1
    <3>2. h = c /\ e = d BY <3>1
    <3>3. n + 1 \in DOMAIN q BY <1>1, <1>8
    <3>. QED BY <1>4a, <1>8, <1>9, <3>1, <3>2, <3>3
  <2>2. CASE <<h, e>> \in received
    <3>1. PICK i \in DOMAIN sendings[e].answers : sendings[e].answers[i].channel = h /\ Owns(sendings[e].answers[i]) BY <2>2 DEF Took
    <3>2. CASE e # d BY <1>9, <3>1, <3>2
    <3>3. CASE e = d
      <4>1. i \in 1..n /\ i \in DOMAIN q /\ q[i] = was[i] BY <1>1, <1>7, <1>8, <3>1, <3>3
      <4>. QED BY <1>9, <3>1, <3>3, <4>1
    <3>. QED BY <3>2, <3>3
  <2>. QED BY <2>1, <2>2
<1>. QED BY <1>10, <1>11, <1>12

\* The statuses of the model, and those that are well.
LEMMA OkIs == \A q \in {0, 200, 204, 408, 422, 503} : Notify!Ok(q) <=> q \in {200, 204}
BY DEF Notify!Ok

\* Streams and registry stand when only sends and what they reach change.
LEMMA StreamsRest == ASSUME StreamsHold, Registered, UNCHANGED <<sub, registry, buckets>> PROVE StreamsHold' /\ Registered'
BY DEF StreamsHold, Registered, OpenOn, IsOpen

\* What a channel driver answers, with what the other side took in.
LEMMA DriverAnswers ==
  ASSUME NEW c \in ChannelNames \ {"sse", "unknown"}, NEW hook \in {"none", "throws", "answers", "noUrl"},
         NEW status \in {0, 200, 204, 408, 422, 503}, NEW taken \in BOOLEAN,
         hook = "noUrl" => c = "discord", c \in Notify!Remote <=> status # 200
  PROVE  LET x == Notify!Send(c, hook, status, taken)
             sent == hook = "answers" /\ c \in Notify!Remote IN
         /\ x \in [is : {"delivered", "skipped", "error"}, retryable : BOOLEAN]
         /\ c \in Notify!Remote /\ x.is = "delivered" => sent /\ Notify!Ok(status)
         /\ sent /\ status \notin {408, 422} => Owns([channel |-> c, is |-> x.is, retryable |-> x.retryable])
<1> DEFINE x == Notify!Send(c, hook, status, taken)
<1> USE DEF Notify!Delivered, Notify!Skipped, Notify!Error, Notify!Remote, Owns
<1>0. \A b \in BOOLEAN : /\ Notify!Error(b) \in [is : {"delivered", "skipped", "error"}, retryable : BOOLEAN]
                         /\ Notify!Error(b).is = "error" /\ Notify!Error(b).retryable = b
  OBVIOUS
<1>1. CASE c = "webhook"
  <2> DEFINE again == status >= 500 \/ status \in {408, 429}
  <2>1. again \in BOOLEAN /\ (status = 503 => again) OBVIOUS
  <2>2. x = IF hook = "none" THEN Notify!Skipped ELSE IF hook = "throws" THEN Notify!Error(FALSE)
            ELSE IF status = 0 THEN Notify!Error(TRUE) ELSE IF Notify!Ok(status) THEN Notify!Delivered ELSE Notify!Error(again)
    BY <1>1 DEF Notify!Send, Notify!WebhookSend
  <2> HIDE DEF again, x
  <2>3. x \in [is : {"delivered", "skipped", "error"}, retryable : BOOLEAN] BY <1>0, <2>1, <2>2
  <2>4. x.is = "delivered" => hook = "answers" /\ Notify!Ok(status) BY <1>0, <1>1, <2>1, <2>2
  <2>5. hook = "answers" /\ status \notin {408, 422} => x.is # "skipped" /\ (x.is = "error" => x.retryable)
    BY <1>0, <1>1, <2>1, <2>2, OkIs
  <2>. QED BY <1>1, <2>3, <2>4, <2>5 DEF x
<1>2. CASE c = "discord"
  <2> DEFINE again == status >= 500 \/ status = 429
  <2>1. again \in BOOLEAN /\ (status = 503 => again) OBVIOUS
  <2>2. x = IF hook \in {"none", "noUrl"} THEN Notify!Skipped ELSE IF hook = "throws" THEN Notify!Error(FALSE)
            ELSE IF status = 0 THEN Notify!Error(TRUE) ELSE IF Notify!Ok(status) THEN Notify!Delivered ELSE Notify!Error(again)
    BY <1>2 DEF Notify!Send, Notify!DiscordSend
  <2> HIDE DEF again, x
  <2>3. x \in [is : {"delivered", "skipped", "error"}, retryable : BOOLEAN] BY <1>0, <2>1, <2>2
  <2>4. x.is = "delivered" => hook = "answers" /\ Notify!Ok(status) BY <1>0, <2>1, <2>2
  <2>5. hook = "answers" /\ status \notin {408, 422} => x.is # "skipped" /\ (x.is = "error" => x.retryable)
    BY <1>0, <1>2, <2>1, <2>2, OkIs
  <2>. QED BY <1>2, <2>3, <2>4, <2>5 DEF x
<1>3. CASE c = "mail" BY <1>3, OkIs DEF Notify!Send, Notify!MailSend
<1>4. CASE c = "broadcast" BY <1>4, OkIs DEF Notify!Send, Notify!BroadcastSend
<1>5. CASE c = "database" BY <1>5 DEF Notify!Send, Notify!DatabaseSend
<1>6. CASE c = "log" BY <1>6 DEF Notify!Send, Notify!LogSend
<1>. QED BY <1>1, <1>2, <1>3, <1>4, <1>5, <1>6 DEF ChannelNames

\* The channels that have a driver.
LEMMA SendByDriverKeeps == ASSUME NotifyIInv, NEW d \in Sending, Notify!SendByDriver(d) PROVE NotifyIInv'
<1> DEFINE c == Notify!Channel(d)
<1>1. PICK hook \in {"none", "throws", "answers", "noUrl"}, status \in {0, 200, 204, 408, 422, 503} :
        LET x == Notify!Send(c, hook, status, d \in records)
            sent == hook = "answers" /\ c \in Notify!Remote IN
        /\ hook = "noUrl" => c = "discord"
        /\ c \in Notify!Remote <=> status # 200
        /\ Notify!Answers(d, x)
        /\ \E served \in SUBSET {<<c, d>>} :
             /\ served # {} => sent /\ status \notin {408, 422}
             /\ sent /\ Notify!Ok(status) => served # {}
             /\ received' = received \cup served
  BY DEF Notify!SendByDriver
<1> DEFINE taken == d \in records
           x == Notify!Send(c, hook, status, taken)
           sent == hook = "answers" /\ c \in Notify!Remote
<1>2. Underway(sendings[d]) /\ c # "sse" /\ c # "unknown" BY DEF Notify!SendByDriver, Notify!Busy, Notify!Use, Underway
<1>3. c \in ChannelNames
  <2>1. Len(sendings[d].answers) \in Nat /\ sendings[d].via \in Seq(ChannelNames) BY DEF NotifyIInv, SendingsHold, SendCall
  <2>. QED BY <1>2, <2>1, ElementOfSeq DEF Underway, Notify!Channel
<1>4. PICK served \in SUBSET {<<c, d>>} :
        /\ served # {} => sent /\ status \notin {408, 422}
        /\ sent /\ Notify!Ok(status) => served # {}
        /\ received' = received \cup served
  BY <1>1
<1>5. Notify!Answers(d, x) /\ (hook = "noUrl" => c = "discord") /\ (c \in Notify!Remote <=> status # 200) BY <1>1
<1>6. taken \in BOOLEAN OBVIOUS
<1> HIDE DEF c, taken
<1>7. /\ x \in [is : {"delivered", "skipped", "error"}, retryable : BOOLEAN]
      /\ c \in Notify!Remote /\ x.is = "delivered" => sent /\ Notify!Ok(status)
      /\ sent /\ status \notin {408, 422} => Owns([channel |-> c, is |-> x.is, retryable |-> x.retryable])
  BY <1>2, <1>3, <1>5, <1>6, DriverAnswers
<1> HIDE DEF x, sent
<1>8. SendingsHold' /\ Told' /\ Took'
  BY <1>2, <1>4, <1>5, <1>7, ChannelIsAnswered DEF NotifyIInv, c
<1>9. StreamsHold' /\ Registered' BY StreamsRest DEF NotifyIInv, Notify!SendByDriver
<1>. QED BY <1>8, <1>9 DEF NotifyIInv

\* A channel that is not configured, the sse channel before its hook and a hook that throws.
LEMMA NobodyIsReached ==
  ASSUME KeyOf \in Keys, NotifyIInv, NEW d \in Sending, Notify!UnknownChannel(d) \/ Notify!SseSend(d) \/ Notify!SseHookThrows(d)
  PROVE  NotifyIInv'
<1>1. UNCHANGED <<received, sub, registry, buckets>> BY DEF Notify!UnknownChannel, Notify!SseSend, Notify!SseHookThrows
<1>2. StreamsHold' /\ Registered' BY <1>1, StreamsRest DEF NotifyIInv
<1>3. ASSUME Underway(sendings[d]), NEW x \in [is : {"skipped", "error"}, retryable : BOOLEAN], Notify!Answers(d, x)
      PROVE  SendingsHold' /\ Told' /\ Took'
  <2> DEFINE served == {}
  <2>1. x \in [is : {"delivered", "skipped", "error"}, retryable : BOOLEAN] /\ x.is # "delivered" BY <1>3
  <2>2. served \in SUBSET {<<Notify!Channel(d), d>>} /\ received' = received \cup served /\ ~(served # {}) BY <1>1
  <2> HIDE DEF served
  <2>. QED BY <1>3, <2>1, <2>2, ChannelIsAnswered DEF NotifyIInv
<1>4. Notify!Skipped \in [is : {"skipped", "error"}, retryable : BOOLEAN] /\ Notify!Error(FALSE) \in [is : {"skipped", "error"}, retryable : BOOLEAN]
  BY DEF Notify!Skipped, Notify!Error
<1>5. CASE Notify!UnknownChannel(d) BY <1>2, <1>3, <1>4, <1>5 DEF Notify!UnknownChannel, Notify!Busy, Underway, NotifyIInv
<1>6. CASE Notify!SseHookThrows(d)
  <2>1. Underway(sendings[d]) BY <1>6 DEF Notify!SseHookThrows, NotifyIInv, SendingsHold
  <2>. QED BY <1>2, <1>3, <1>4, <1>6, <2>1 DEF Notify!SseHookThrows, NotifyIInv
<1>7. CASE Notify!SseSend(d)
  <2>1. Underway(sendings[d]) /\ Notify!Channel(d) = "sse" BY <1>7 DEF Notify!SseSend, Notify!Busy, Underway
  <2>2. CASE Notify!Answers(d, Notify!Skipped) BY <1>2, <1>3, <1>4, <2>1, <2>2 DEF NotifyIInv
  <2>3. CASE registry[KeyOf] # 0 /\ sendings' = [sendings EXCEPT ![d].at = "hook", ![d].bucket = registry[KeyOf]]
    <3> DEFINE b == registry[KeyOf]
               v == [sendings[d] EXCEPT !.at = "hook", !.bucket = b]
    <3>1. sendings' = [sendings EXCEPT ![d] = v] BY <2>3 DEF NotifyIInv, SendingsHold
    <3>2. v.answers = sendings[d].answers /\ v.via = sendings[d].via /\ v.at = "hook" BY DEF NotifyIInv, SendingsHold, SendCall
    <3>3. SendingsHold'
      <4>1. v \in SendCall BY DEF NotifyIInv, SendingsHold, SendCall, Registered
      <4> HIDE DEF v
      <4>. QED BY <2>1, <3>1, <3>2, <4>1 DEF NotifyIInv, SendingsHold, Underway, Notify!Channel
    <3> HIDE DEF v
    <3>4. \A e \in Sending : sendings'[e].answers = sendings[e].answers /\ sendings'[e].via = sendings[e].via
      BY <3>1, <3>2 DEF NotifyIInv, SendingsHold
    <3>5. Told' /\ Took' BY <1>1, <3>4 DEF NotifyIInv, Told, Took
    <3>. QED BY <1>2, <3>3, <3>5 DEF NotifyIInv
  <2>. QED BY <1>7, <2>2, <2>3 DEF Notify!SseSend
<1>. QED BY <1>5, <1>6, <1>7

\* An event reaches an open stream: behind the others, the oldest lost if the queue is full.
LEMMA PushHolds == ASSUME QueueSize \in Nat \ {0}, NEW r, StreamHolds(r), NEW d \in Sending
  PROVE  LET n == Notify!Pushed(r, d) IN
         /\ StreamHolds(n) /\ n.key = r.key /\ n.closed = r.closed /\ (n.at = "off" <=> r.at = "off")
<1>1. CASE r.closed BY <1>1 DEF Notify!Pushed
<1>2. CASE ~r.closed
  <2> DEFINE full == Len(r.queue) >= QueueSize
             rest == IF full THEN Tail(r.queue) ELSE r.queue
             q == Append(rest, d)
             lost == IF full THEN r.dropped + 1 ELSE r.dropped
             p == Append(r.pushed, d)
             at_ == IF r.at = "waiting" THEN "woken" ELSE r.at
             n == [r EXCEPT !.queue = q, !.dropped = lost, !.pushed = p, !.at = at_]
  <2>1. Notify!Pushed(r, d) = n BY <1>2 DEF Notify!Pushed, StreamHolds, Stream
  <2>2. r \in Stream BY DEF StreamHolds
  <2>3. PICK T \in Nat, Q \in Nat, P \in Nat : T = Len(r.taken) /\ Q = Len(r.queue) /\ P = Len(r.pushed)
    BY <2>2 DEF Stream
  <2>4. PICK f : Inside(r, f) BY DEF StreamHolds
  <2>5. PICK e \in {0, 1} : (full <=> e = 1) /\ (Q = 0 => e = 0) /\ Q - e + 1 <= QueueSize /\ lost = r.dropped + e
    <3>1. full => Q >= 1 BY <2>3
    <3>2. Q <= QueueSize BY <2>3 DEF StreamHolds
    <3>3. CASE full BY <2>3, <3>1, <3>2, <3>3
    <3>4. CASE ~full BY <2>2, <2>3, <3>2, <3>4 DEF Stream
    <3>. QED BY <3>3, <3>4
  <2>6. /\ rest \in Seq(Sending) /\ Len(rest) = Q - e /\ \A i \in 1..(Q - e) : rest[i] = r.queue[i + e]
    <3>1. CASE full
      <4>1. r.queue # <<>> BY <2>2, <2>3, <2>5, <3>1 DEF Stream
      <4>2. e = 1 /\ rest = Tail(r.queue) BY <2>5, <3>1
      <4>. QED BY <2>2, <2>3, <4>1, <4>2, HeadTailProperties DEF Stream
    <3>2. CASE ~full
      <4>1. e = 0 /\ rest = r.queue BY <2>5, <3>2
      <4>. QED BY <2>2, <2>3, <4>1 DEF Stream
    <3>. QED BY <3>1, <3>2
  <2> HIDE DEF rest, lost, full
  <2>7. q \in Seq(Sending) /\ Len(q) = Q - e + 1 /\ q[Q - e + 1] = d /\ \A i \in 1..(Q - e) : q[i] = r.queue[i + e]
    <3>1. q \in Seq(Sending) /\ Len(q) = Len(rest) + 1 /\ q[Len(rest) + 1] = d /\ \A i \in 1..Len(rest) : q[i] = rest[i]
      BY <2>6, AppendProperties
    <3>. QED BY <2>6, <3>1
  <2>8. p \in Seq(Sending) /\ Len(p) = P + 1 /\ p[P + 1] = d /\ \A i \in 1..P : p[i] = r.pushed[i]
    BY <2>2, <2>3, AppendProperties DEF Stream
  <2>9. at_ \in {"off", "idle", "woken", "ended"} /\ (at_ = "off" <=> r.at = "off") BY <2>2 DEF Stream
  <2>9a. lost \in Nat BY <2>2, <2>5 DEF Stream
  <2> HIDE DEF q, p, at_
  <2>10. /\ n \in Stream /\ n.queue = q /\ n.dropped = lost /\ n.pushed = p /\ n.at = at_ /\ n.taken = r.taken
         /\ n.key = r.key /\ n.closed = r.closed
    BY <2>2, <2>7, <2>8, <2>9, <2>9a DEF Stream
  <2> HIDE DEF n
  <2>11. T + (Q - e + 1) + lost = P + 1
    <3>1. r.dropped \in Nat /\ T + Q + r.dropped = P BY <2>2, <2>3 DEF StreamHolds, Stream
    <3>. QED BY <2>5, <3>1
  <2>12. \E g : Inside(n, g)
    <3> DEFINE N == T + (Q - e + 1)
               g == [i \in 1..N |-> IF i <= T THEN f[i] ELSE IF i < N THEN f[i + e] ELSE P + 1]
    <3>1. /\ f \in [1..(T + Q) -> 1..P]
          /\ \A i \in 1..T : r.taken[i] = r.pushed[f[i]]
          /\ \A i \in 1..Q : r.queue[i] = r.pushed[f[T + i]]
          /\ \A i, j \in 1..(T + Q) : i < j => f[i] < f[j]
      BY <2>3, <2>4 DEF Inside
    <3>2. N \in Nat /\ N = T + (Q - e) + 1 /\ (Q = 0 => e = 0) /\ Q - e \in Nat BY <2>5
    <3>3. \A i \in 1..N : \/ i <= T /\ i \in 1..(T + Q) /\ g[i] = f[i]
                          \/ i > T /\ i < N /\ i + e \in 1..(T + Q) /\ g[i] = f[i + e]
                          \/ i > T /\ i = N /\ g[i] = P + 1
      BY <3>2
    <3>4. \A i \in 1..N : g[i] \in 1..(P + 1) BY <3>1, <3>3
    <3>5. g \in [1..N -> 1..(P + 1)] BY <3>4
    <3>6. \A i \in 1..T : i <= N /\ g[i] = f[i] /\ f[i] \in 1..P BY <3>1, <3>2, <3>3
    <3>7. \A i \in 1..(Q - e) : g[T + i] = f[T + (i + e)] /\ f[T + (i + e)] \in 1..P /\ i + e \in 1..Q
      <4> TAKE i \in 1..(Q - e)
      <4>1. T + i \in 1..N /\ T + i > T /\ T + i < N /\ (T + i) + e = T + (i + e) /\ i + e \in 1..Q /\ T + (i + e) \in 1..(T + Q)
        BY <2>5, <3>2
      <4>. QED BY <3>1, <4>1
    <3>8. g[N] = P + 1 /\ N = T + (Q - e + 1) BY <3>2
    <3>9. ASSUME NEW i \in 1..N, NEW j \in 1..N, i < j PROVE g[i] < g[j]
      <4>1. i < N /\ i + e \in Nat /\ j + e \in Nat BY <3>2, <3>9
      <4>2. g[i] \in 1..P BY <3>1, <3>3, <4>1
      <4>3. CASE j = N BY <3>8, <4>2, <4>3
      <4>4. CASE j <= T
        <5>1. i <= T BY <3>9, <4>4
        <5>2. g[i] = f[i] /\ g[j] = f[j] /\ i \in 1..(T + Q) /\ j \in 1..(T + Q) BY <3>3, <4>4, <5>1
        <5>. QED BY <3>1, <3>9, <5>2
      <4>5. CASE j > T /\ j < N
        <5>1. g[j] = f[j + e] /\ j + e \in 1..(T + Q) BY <3>3, <4>5
        <5>2. CASE i <= T
          <6>1. g[i] = f[i] /\ i \in 1..(T + Q) /\ i < j + e BY <3>3, <3>9, <5>2
          <6>. QED BY <3>1, <5>1, <6>1
        <5>3. CASE i > T
          <6>1. g[i] = f[i + e] /\ i + e \in 1..(T + Q) BY <3>3, <4>1, <5>3
          <6>2. i + e < j + e BY <3>9
          <6>. QED BY <3>1, <5>1, <6>1, <6>2
        <5>. QED BY <5>2, <5>3
      <4>. QED BY <3>2, <4>3, <4>4, <4>5
    <3> HIDE DEF g
    <3>10. \A i \in 1..T : r.taken[i] = p[g[i]] BY <2>8, <3>1, <3>6
    <3>11. \A i \in 1..(Q - e + 1) : q[i] = p[g[T + i]]
      <4> TAKE i \in 1..(Q - e + 1)
      <4>1. CASE i = Q - e + 1 BY <2>7, <2>8, <3>8, <4>1
      <4>2. CASE i # Q - e + 1
        <5>1. i \in 1..(Q - e) BY <3>2, <4>2
        <5>2. q[i] = r.queue[i + e] BY <2>7, <5>1
        <5>3. r.queue[i + e] = r.pushed[f[T + (i + e)]] BY <3>1, <3>7, <5>1
        <5>. QED BY <2>8, <3>7, <5>1, <5>2, <5>3
      <4>. QED BY <4>1, <4>2
    <3>12. Len(n.taken) = T /\ Len(n.queue) = Q - e + 1 /\ Len(n.pushed) = P + 1 BY <2>3, <2>7, <2>8, <2>10
    <3>13. Len(n.taken) + Len(n.queue) = N BY <3>12
    <3> HIDE DEF N
    <3>14. Inside(n, g) BY <2>10, <3>5, <3>9, <3>10, <3>11, <3>12, <3>13 DEF Inside
    <3>. QED BY <3>14
  <2>13. n.at # "off" => n.key \in Keys BY <2>9, <2>10 DEF StreamHolds
  <2>14. Len(n.taken) + Len(n.queue) + n.dropped = Len(n.pushed) /\ Len(n.queue) <= QueueSize
    BY <2>3, <2>5, <2>7, <2>8, <2>10, <2>11
  <2>15. StreamHolds(n) BY <1>2, <2>9, <2>10, <2>12, <2>13, <2>14 DEF StreamHolds
  <2>. QED BY <2>1, <2>9, <2>10, <2>15
<1>. QED BY <1>1, <1>2 DEF StreamHolds, Stream

\* Where no stream opens, ends or changes its key, the registry stands.
LEMMA RegistryRests ==
  ASSUME Registered, UNCHANGED <<registry, buckets>>,
         \A s \in Listener : (IsOpen(s)' <=> IsOpen(s)) /\ sub'[s].key = sub[s].key
  PROVE  Registered'
<1>1. \A k : OpenOn(k)' = OpenOn(k) BY DEF OpenOn
<1>. QED BY <1>1 DEF Registered

\* The hook has answered: its event goes to the bucket that was looked up before.
LEMMA SsePushKeeps == ASSUME QueueSize \in Nat \ {0}, NotifyIInv, NEW d \in Sending, Notify!SsePush(d) PROVE NotifyIInv'
<1>1. Underway(sendings[d]) /\ Notify!Channel(d) = "sse" BY DEF Notify!SsePush, NotifyIInv, SendingsHold
<1>2. SendingsHold' /\ Told' /\ Took'
  <2> DEFINE served == {}
             x == Notify!Delivered
  <2>1. x \in [is : {"delivered", "skipped", "error"}, retryable : BOOLEAN] BY DEF Notify!Delivered
  <2>2. served \in SUBSET {<<Notify!Channel(d), d>>} /\ received' = received \cup served /\ ~(served # {})
        /\ Notify!Channel(d) \notin Notify!Remote
    BY <1>1 DEF Notify!SsePush, Notify!Remote
  <2>3. Notify!Answers(d, x) BY DEF Notify!SsePush
  <2> HIDE DEF served, x
  <2>. QED BY <1>1, <2>1, <2>2, <2>3, ChannelIsAnswered DEF NotifyIInv
<1>3. UNCHANGED <<registry, buckets>> BY DEF Notify!SsePush
<1>4. \A s \in Listener : sub'[s] = Notify!Pushed(sub[s], d) \/ sub'[s] = sub[s] BY DEF Notify!SsePush
<1>5. \A s \in Listener : /\ StreamHolds(sub'[s]) /\ sub'[s].key = sub[s].key /\ sub'[s].closed = sub[s].closed
                          /\ sub'[s].at = "off" <=> sub[s].at = "off"
  BY <1>4, PushHolds DEF NotifyIInv, StreamsHold
<1>6. StreamsHold'
  <2>1. sub' = [s \in Listener |-> sub'[s]] BY DEF Notify!SsePush
  <2>2. \A s \in Listener : sub'[s] \in Stream BY <1>5 DEF StreamHolds
  <2>. QED BY <1>5, <2>1, <2>2 DEF StreamsHold, StreamHolds, Inside
<1>7. Registered' BY <1>3, <1>5, RegistryRests DEF NotifyIInv, IsOpen
<1>. QED BY <1>2, <1>6, <1>7 DEF NotifyIInv

\* Sends stand when a subscriber moves.
LEMMA SendsRest == ASSUME SendingsHold, Told, Took, UNCHANGED <<sendings, received>> PROVE SendingsHold' /\ Told' /\ Took'
BY DEF SendingsHold, Told, Took, Notify!Channel

\* One stream moves.
LEMMA StreamMoves == ASSUME StreamsHold, NEW s \in Listener, NEW v, StreamHolds(v), sub' = [sub EXCEPT ![s] = v] PROVE StreamsHold'
<1>1. \A z \in Listener : sub'[z] = IF z = s THEN v ELSE sub[z] BY DEF StreamsHold
<1>2. v \in Stream BY DEF StreamHolds
<1>3. sub' \in [Listener -> Stream] BY <1>2 DEF StreamsHold
<1>4. \A z \in Listener : StreamHolds(sub'[z]) BY <1>1 DEF StreamsHold
<1>. QED BY <1>3, <1>4 DEF StreamsHold, StreamHolds, Inside

\* The oldest event of the queue is taken, or the consumer learns that there is none.
LEMMA PullHolds == ASSUME QueueSize \in Nat \ {0}, NEW r, StreamHolds(r), r.at \in {"idle", "woken"}
  PROVE  LET n == Notify!Pulled(r) IN StreamHolds(n) /\ n.key = r.key /\ n.closed = r.closed /\ n.at # "off"
<1>0. r \in Stream BY DEF StreamHolds
<1>1. CASE r.queue = <<>>
  <2> DEFINE at_ == IF r.closed THEN "ended" ELSE "waiting"
             n == [r EXCEPT !.at = at_]
  <2>1. Notify!Pulled(r) = n BY <1>1 DEF Notify!Pulled
  <2>2. at_ \in {"ended", "waiting"} /\ (at_ = "waiting" => ~r.closed) BY <1>0 DEF Stream
  <2> HIDE DEF at_
  <2>3. /\ n \in Stream /\ n.at = at_ /\ n.queue = r.queue /\ n.taken = r.taken /\ n.pushed = r.pushed /\ n.dropped = r.dropped
        /\ n.closed = r.closed /\ n.key = r.key
    BY <1>0, <2>2 DEF Stream
  <2> HIDE DEF n
  <2>4. \E f : Inside(n, f)
    <3>1. \E f : Inside(r, f) BY DEF StreamHolds
    <3>. QED BY <2>3, <3>1, SameInside
  <2>5. StreamHolds(n) BY <1>1, <2>2, <2>3, <2>4 DEF StreamHolds
  <2>. QED BY <2>1, <2>2, <2>3, <2>5
<1>2. CASE r.queue # <<>>
  <2> DEFINE t == Append(r.taken, Head(r.queue))
             q == Tail(r.queue)
             n == [r EXCEPT !.at = "idle", !.taken = t, !.queue = q]
  <2>1. Notify!Pulled(r) = n BY <1>2 DEF Notify!Pulled
  <2>2. PICK T \in Nat, Q \in Nat, P \in Nat : T = Len(r.taken) /\ Q = Len(r.queue) /\ P = Len(r.pushed) BY <1>0 DEF Stream
  <2>3. PICK f : Inside(r, f) BY DEF StreamHolds
  <2>4. Q >= 1 BY <1>0, <1>2, <2>2 DEF Stream
  <2>5. /\ Head(r.queue) \in Sending /\ q \in Seq(Sending) /\ Len(q) = Q - 1 /\ Head(r.queue) = r.queue[1]
        /\ \A i \in 1..(Q - 1) : q[i] = r.queue[i + 1]
    BY <1>0, <1>2, <2>2, HeadTailProperties DEF Stream
  <2>6. t \in Seq(Sending) /\ Len(t) = T + 1 /\ t[T + 1] = r.queue[1] /\ \A i \in 1..T : t[i] = r.taken[i]
    BY <1>0, <2>2, <2>5, AppendProperties DEF Stream
  <2> HIDE DEF t, q
  <2>7. /\ n \in Stream /\ n.at = "idle" /\ n.queue = q /\ n.taken = t /\ n.pushed = r.pushed /\ n.dropped = r.dropped
        /\ n.closed = r.closed /\ n.key = r.key
    BY <1>0, <2>5, <2>6 DEF Stream
  <2> HIDE DEF n
  <2>8. (T + 1) + (Q - 1) = T + Q OBVIOUS
  <2>9. Inside(n, f)
    <3>1. /\ f \in [1..(T + Q) -> 1..P]
          /\ \A i \in 1..T : r.taken[i] = r.pushed[f[i]]
          /\ \A i \in 1..Q : r.queue[i] = r.pushed[f[T + i]]
          /\ \A i, j \in 1..(T + Q) : i < j => f[i] < f[j]
      BY <2>2, <2>3 DEF Inside
    <3>2. \A i \in 1..(T + 1) : t[i] = r.pushed[f[i]]
      <4> TAKE i \in 1..(T + 1)
      <4>1. CASE i = T + 1
        <5>1. 1 \in 1..Q BY <2>4
        <5>. QED BY <2>6, <3>1, <4>1, <5>1
      <4>2. CASE i # T + 1
        <5>1. i \in 1..T BY <4>2
        <5>. QED BY <2>6, <3>1, <5>1
      <4>. QED BY <4>1, <4>2
    <3>3. \A i \in 1..(Q - 1) : q[i] = r.pushed[f[(T + 1) + i]]
      <4> TAKE i \in 1..(Q - 1)
      <4>1. i + 1 \in 1..Q /\ T + (i + 1) = (T + 1) + i BY <2>4
      <4>. QED BY <2>5, <3>1, <4>1
    <3>4. Len(n.taken) = T + 1 /\ Len(n.queue) = Q - 1 /\ Len(n.pushed) = P BY <2>2, <2>5, <2>6, <2>7
    <3>5. Len(n.taken) + Len(n.queue) = T + Q BY <2>8, <3>4
    <3>. QED BY <2>7, <3>1, <3>2, <3>3, <3>4, <3>5 DEF Inside
  <2>10. Len(n.taken) + Len(n.queue) + n.dropped = Len(n.pushed) /\ Len(n.queue) <= QueueSize
    <3>1. T + Q + r.dropped = P /\ Q <= QueueSize /\ r.dropped \in Nat BY <1>0, <2>2 DEF StreamHolds, Stream
    <3>2. (T + 1) + (Q - 1) + r.dropped = P /\ Q - 1 <= QueueSize BY <3>1
    <3>. QED BY <2>2, <2>5, <2>6, <2>7, <3>2
  <2>11. StreamHolds(n)
    <3>1. r.key \in Keys BY DEF StreamHolds
    <3>. QED BY <2>7, <2>9, <2>10, <3>1 DEF StreamHolds
  <2>. QED BY <2>1, <2>7, <2>11
<1>. QED BY <1>1, <1>2

\* next().
LEMMA PullKeeps == ASSUME QueueSize \in Nat \ {0}, NotifyIInv, NEW s \in Listener, Notify!Pull(s) PROVE NotifyIInv'
<1>1. /\ sub[s].at \in {"idle", "woken"} /\ sub' = [sub EXCEPT ![s] = Notify!Pulled(sub[s])]
      /\ UNCHANGED <<sendings, received, registry, buckets>>
  BY DEF Notify!Pull
<1> DEFINE v == Notify!Pulled(sub[s])
<1>2. StreamHolds(v) /\ v.key = sub[s].key /\ v.closed = sub[s].closed /\ v.at # "off"
  BY <1>1, PullHolds DEF NotifyIInv, StreamsHold
<1> HIDE DEF v
<1>3. sub' = [sub EXCEPT ![s] = v] BY <1>1 DEF v
<1>4. StreamsHold' BY <1>2, <1>3, StreamMoves DEF NotifyIInv
<1>5. Registered'
  <2>1. \A z \in Listener : (IsOpen(z)' <=> IsOpen(z)) /\ sub'[z].key = sub[z].key
    BY <1>1, <1>2, <1>3 DEF NotifyIInv, StreamsHold, IsOpen
  <2>. QED BY <1>1, <2>1, RegistryRests DEF NotifyIInv
<1>. QED BY <1>1, <1>4, <1>5, SendsRest DEF NotifyIInv

\* A stream opens: in the bucket of its key, or in a new one.
LEMMA SubscribeKeeps == ASSUME QueueSize \in Nat \ {0}, NotifyIInv, NEW s \in Listener, NEW k \in Keys, Notify!Subscribe(s, k) PROVE NotifyIInv'
<1>1. /\ sub[s].at = "off" /\ sub' = [sub EXCEPT ![s].at = "idle", ![s].key = k] /\ UNCHANGED <<sendings, received>>
      /\ IF registry[k] = 0
         THEN buckets' = Append(buckets, {s}) /\ registry' = [registry EXCEPT ![k] = Len(buckets')]
         ELSE buckets' = [buckets EXCEPT ![registry[k]] = @ \cup {s}] /\ registry' = registry
  <2>1. sub[s].at = "off" /\ sub' = [sub EXCEPT ![s].at = "idle", ![s].key = k] BY Zenon DEF Notify!Subscribe
  <2>2. IF registry[k] = 0
        THEN buckets' = Append(buckets, {s}) /\ registry' = [registry EXCEPT ![k] = Len(buckets')]
        ELSE buckets' = [buckets EXCEPT ![registry[k]] = @ \cup {s}] /\ UNCHANGED registry
    BY Zenon DEF Notify!Subscribe
  <2>3. UNCHANGED <<sendings, received>> BY Zenon DEF Notify!Subscribe
  <2>. QED BY <2>1, <2>2, <2>3, Zenon
<1> DEFINE v == [sub[s] EXCEPT !.at = "idle", !.key = k]
<1>2. sub[s] \in Stream /\ StreamHolds(sub[s]) /\ ~sub[s].closed BY <1>1 DEF NotifyIInv, StreamsHold, StreamHolds
<1>3. sub' = [sub EXCEPT ![s] = v] BY <1>1 DEF NotifyIInv, StreamsHold
<1>4. /\ v \in Stream /\ v.at = "idle" /\ v.key = k /\ v.queue = sub[s].queue /\ v.taken = sub[s].taken /\ v.pushed = sub[s].pushed
      /\ v.dropped = sub[s].dropped /\ v.closed = FALSE
  BY <1>2 DEF Stream
<1> HIDE DEF v
<1>5. \E f : Inside(v, f) BY <1>2, <1>4 DEF StreamHolds, Inside
<1>6. StreamHolds(v) BY <1>2, <1>4, <1>5 DEF StreamHolds
<1>7. StreamsHold' BY <1>3, <1>6, StreamMoves DEF NotifyIInv
<1>8. \A l \in Keys : OpenOn(l)' = IF l = k THEN OpenOn(l) \cup {s} ELSE OpenOn(l)
  <2>1. \A z \in Listener : sub'[z] = IF z = s THEN v ELSE sub[z] BY <1>3 DEF NotifyIInv, StreamsHold
  <2>2. \A z \in Listener : IsOpen(z)' <=> z = s \/ IsOpen(z) BY <1>4, <2>1 DEF IsOpen
  <2>3. ~IsOpen(s) BY <1>1 DEF IsOpen
  <2>4. \A z \in Listener : sub'[z].key = IF z = s THEN k ELSE sub[z].key BY <1>4, <2>1
  <2>. QED BY <2>2, <2>3, <2>4 DEF OpenOn
<1>9. Registered BY DEF NotifyIInv
<1>b. buckets \in Seq(SUBSET Listener) /\ Len(buckets) \in Nat /\ DOMAIN buckets = 1..Len(buckets) /\ {s} \in SUBSET Listener
  BY <1>9 DEF Registered
<1>10. Registered'
  <2>1. CASE registry[k] = 0
    <3> DEFINE n == Len(buckets) + 1
    <3>1. /\ buckets' \in Seq(SUBSET Listener) /\ Len(buckets') = n /\ buckets'[n] = {s}
          /\ \A i \in 1..Len(buckets) : buckets'[i] = buckets[i]
      BY <1>1, <1>b, <2>1, AppendProperties
    <3>2. n \in Nat /\ n # 0 /\ \A i \in 0..Len(buckets) : i # n /\ i <= n BY <1>b
    <3>3. registry' = [registry EXCEPT ![k] = n] BY <1>1, <2>1, <3>1
    <3>4. \A l \in Keys : registry[l] \in 0..Len(buckets) BY <1>9, <1>b DEF Registered
    <3> HIDE DEF n
    <3>5. \A l \in Keys : registry'[l] = IF l = k THEN n ELSE registry[l] BY <1>9, <3>3 DEF Registered
    <3>6. registry' \in [Keys -> Nat] BY <1>9, <3>2, <3>3 DEF Registered
    <3>7. \A l \in Keys : registry'[l] <= Len(buckets') BY <3>1, <3>2, <3>4, <3>5
    <3>8. \A l, m \in Keys : registry'[l] = registry'[m] /\ registry'[l] # 0 => l = m BY <1>9, <3>2, <3>4, <3>5 DEF Registered
    <3>9. ASSUME NEW l \in Keys
          PROVE  IF registry'[l] = 0 THEN OpenOn(l)' = {} ELSE buckets'[registry'[l]] = OpenOn(l)' /\ OpenOn(l)' # {}
      <4>1. CASE l = k
        <5>1. OpenOn(k) = {} BY <1>9, <2>1 DEF Registered
        <5>. QED BY <1>8, <3>1, <3>2, <3>5, <4>1, <5>1
      <4>2. CASE l # k
        <5>1. registry'[l] = registry[l] /\ OpenOn(l)' = OpenOn(l) BY <1>8, <3>5, <4>2
        <5>2. registry[l] # 0 => registry[l] \in 1..Len(buckets) BY <1>b, <3>4
        <5>3. registry[l] # 0 => buckets'[registry[l]] = buckets[registry[l]] BY <3>1, <5>2
        <5>. QED BY <1>9, <5>1, <5>3 DEF Registered
      <4>. QED BY <4>1, <4>2
    <3>. QED BY <3>1, <3>6, <3>7, <3>8, <3>9 DEF Registered
  <2>2. CASE registry[k] # 0
    <3> DEFINE b == registry[k]
               more == buckets[b] \cup {s}
    <3>1. b \in 1..Len(buckets) /\ buckets[b] = OpenOn(k) BY <1>9, <1>b, <2>2 DEF Registered
    <3>2. buckets' = [buckets EXCEPT ![b] = more] /\ registry' = registry BY <1>1, <2>2
    <3>3. more \in SUBSET Listener /\ more = OpenOn(k) \cup {s} BY <3>1 DEF OpenOn
    <3> HIDE DEF b, more
    <3>4. buckets' \in Seq(SUBSET Listener) /\ Len(buckets') = Len(buckets) /\ buckets'[b] = more
          /\ \A i \in 1..Len(buckets) : i # b => buckets'[i] = buckets[i]
      BY <1>b, <3>1, <3>2, <3>3, ExceptSeq
    <3>5. ASSUME NEW l \in Keys
          PROVE  IF registry'[l] = 0 THEN OpenOn(l)' = {} ELSE buckets'[registry'[l]] = OpenOn(l)' /\ OpenOn(l)' # {}
      <4>1. CASE l = k BY <1>8, <2>2, <3>2, <3>3, <3>4, <4>1 DEF b
      <4>2. CASE l # k
        <5>1. OpenOn(l)' = OpenOn(l) BY <1>8, <4>2
        <5>2. registry[l] # 0 => registry[l] # b /\ registry[l] \in 1..Len(buckets) BY <1>9, <1>b, <4>2 DEF Registered, b
        <5>. QED BY <1>9, <3>2, <3>4, <5>1, <5>2 DEF Registered
      <4>. QED BY <4>1, <4>2
    <3>. QED BY <1>9, <3>2, <3>4, <3>5 DEF Registered
  <2>. QED BY <2>1, <2>2
<1>. QED BY <1>1, <1>7, <1>10, SendsRest DEF NotifyIInv

\* A stream is closed: its bucket goes with the last of them.
LEMMA DetachKeeps == ASSUME QueueSize \in Nat \ {0}, NotifyIInv, NEW s \in Listener, Notify!Detach(s) PROVE NotifyIInv'
<1>a. sub[s] \in Stream /\ StreamHolds(sub[s]) /\ sub[s].at \notin {"off", "ended"} /\ ~sub[s].closed /\ sub[s].key \in Keys
  BY DEF NotifyIInv, StreamsHold, StreamHolds, Notify!Detach
<1>k. PICK k \in Keys : k = sub[s].key BY <1>a
<1>b. PICK b : b = registry[k] OBVIOUS
<1>9. Registered BY DEF NotifyIInv
<1>n. b # 0 /\ b \in 1..Len(buckets) /\ buckets[b] = OpenOn(k) /\ s \in OpenOn(k)
  <2>1. s \in OpenOn(k) BY <1>a, <1>k DEF OpenOn, IsOpen
  <2>. QED BY <1>9, <1>b, <2>1 DEF Registered
<1>l. PICK left : left = OpenOn(k) \ {s} OBVIOUS
<1>1. /\ sub' = [sub EXCEPT ![s].closed = TRUE, ![s].at = IF @ = "waiting" THEN "woken" ELSE @]
      /\ buckets' = [buckets EXCEPT ![b] = left]
      /\ registry' = IF left = {} THEN [registry EXCEPT ![k] = 0] ELSE registry
      /\ UNCHANGED <<sendings, received>>
  BY <1>b, <1>k, <1>l, <1>n DEF Notify!Detach
<1> DEFINE at_ == IF sub[s].at = "waiting" THEN "woken" ELSE sub[s].at
           v == [sub[s] EXCEPT !.closed = TRUE, !.at = at_]
<1>3. sub' = [sub EXCEPT ![s] = v] BY <1>1 DEF NotifyIInv, StreamsHold
<1>4a. at_ \in {"idle", "woken"} BY <1>a DEF Stream
<1> HIDE DEF at_
<1>4. /\ v \in Stream /\ v.at = at_ /\ v.key = k /\ v.queue = sub[s].queue /\ v.taken = sub[s].taken /\ v.pushed = sub[s].pushed
      /\ v.dropped = sub[s].dropped /\ v.closed = TRUE
  BY <1>a, <1>k, <1>4a DEF Stream
<1> HIDE DEF v
<1>5. \E f : Inside(v, f)
  <2>1. \E f : Inside(sub[s], f) BY <1>a DEF StreamHolds
  <2>. QED BY <1>4, <2>1, SameInside
<1>6. StreamHolds(v) BY <1>a, <1>4, <1>4a, <1>5 DEF StreamHolds
<1>7. StreamsHold' BY <1>3, <1>6, StreamMoves DEF NotifyIInv
<1>8. \A l \in Keys : OpenOn(l)' = IF l = k THEN left ELSE OpenOn(l)
  <2>1. \A z \in Listener : sub'[z] = IF z = s THEN v ELSE sub[z] BY <1>3 DEF NotifyIInv, StreamsHold
  <2>. QED BY <1>k, <1>l, <1>4, <2>1 DEF OpenOn, IsOpen
<1>10. Registered'
  <2>1. buckets \in Seq(SUBSET Listener) /\ left \in SUBSET Listener BY <1>9, <1>l DEF Registered, OpenOn
  <2>2. /\ buckets' \in Seq(SUBSET Listener) /\ Len(buckets') = Len(buckets) /\ buckets'[b] = left
        /\ \A i \in 1..Len(buckets) : i # b => buckets'[i] = buckets[i]
    BY <1>1, <1>n, <2>1, ExceptSeq
  <2>3. registry' \in [Keys -> Nat] /\ \A l \in Keys : registry'[l] = IF l = k /\ left = {} THEN 0 ELSE registry[l]
    BY <1>1, <1>9 DEF Registered
  <2>4. \A l \in Keys : registry'[l] <= Len(buckets')
    <3>1. Len(buckets) \in Nat BY <2>1
    <3>2. \A l \in Keys : registry[l] <= Len(buckets) BY <1>9 DEF Registered
    <3>. QED BY <2>2, <2>3, <3>1, <3>2
  <2>5. \A l, m \in Keys : registry'[l] = registry'[m] /\ registry'[l] # 0 => l = m BY <1>9, <2>3 DEF Registered
  <2>6. ASSUME NEW l \in Keys
        PROVE  IF registry'[l] = 0 THEN OpenOn(l)' = {} ELSE buckets'[registry'[l]] = OpenOn(l)' /\ OpenOn(l)' # {}
    <3>1. CASE l = k BY <1>8, <1>b, <1>n, <2>2, <2>3, <3>1
    <3>2. CASE l # k
      <4>1. OpenOn(l)' = OpenOn(l) /\ registry'[l] = registry[l] BY <1>8, <2>3, <3>2
      <4>2. registry[l] # 0 => registry[l] # b /\ registry[l] \in 1..Len(buckets) BY <1>9, <1>b, <3>2 DEF Registered
      <4>. QED BY <1>9, <2>2, <4>1, <4>2 DEF Registered
    <3>. QED BY <3>1, <3>2
  <2>. QED BY <2>2, <2>3, <2>4, <2>5, <2>6 DEF Registered
<1>. QED BY <1>1, <1>7, <1>10, SendsRest DEF NotifyIInv

\* Each step keeps the invariant.
LEMMA NotifyKept == ASSUME SendingsBounded, NotifyIInv, [Notify!Next]_notifyVars PROVE NotifyIInv'
<1>0. KeyOf \in Keys /\ QueueSize \in Nat \ {0} BY DEF SendingsBounded
<1>1. CASE Notify!Next
  <2>1. ASSUME NEW d \in Sending, Notify!UnknownChannel(d) \/ Notify!SseSend(d) \/ Notify!SseHookThrows(d) PROVE NotifyIInv'
    BY <1>0, <2>1, NobodyIsReached
  <2>2. ASSUME NEW d \in Sending, Notify!SendByDriver(d) PROVE NotifyIInv' BY <1>0, <2>2, SendByDriverKeeps
  <2>3. ASSUME NEW d \in Sending, Notify!SsePush(d) PROVE NotifyIInv' BY <1>0, <2>3, SsePushKeeps
  <2>4. ASSUME NEW s \in Listener, Notify!Pull(s) PROVE NotifyIInv' BY <1>0, <2>4, PullKeeps
  <2>5. ASSUME NEW s \in Listener, Notify!Detach(s) PROVE NotifyIInv' BY <1>0, <2>5, DetachKeeps
  <2>6. ASSUME NEW s \in Listener, NEW k \in Keys, Notify!Subscribe(s, k) PROVE NotifyIInv' BY <1>0, <2>6, SubscribeKeeps
  <2>. QED BY <1>1, <2>1, <2>2, <2>3, <2>4, <2>5, <2>6, Zenon DEF Notify!Next
<1>2. CASE UNCHANGED notifyVars
  <2>1. UNCHANGED <<sendings, received, sub, registry, buckets>> BY <1>2 DEF notifyVars
  <2>. QED BY <2>1, SendsRest, StreamsRest DEF NotifyIInv
<1>. QED BY <1>1, <1>2

\* What it says of the run.
LEMMA NotifyHolds == ASSUME NotifyIInv PROVE Notify!NotificationsInv
<1>1. Notify!EveryChannelAnswered BY DEF NotifyIInv, Told, Notify!EveryChannelAnswered
<1>2. Notify!AnswersAreTrue
  <2> SUFFICES ASSUME NEW d \in Sending, NEW i \in DOMAIN sendings[d].answers, sendings[d].answers[i].channel \in Notify!Remote
               PROVE  LET a == sendings[d].answers[i]
                          once == \A j \in DOMAIN sendings[d].via : sendings[d].via[j] = a.channel => j = i IN
                      /\ a.is = "delivered" => <<a.channel, d>> \in received
                      /\ once /\ <<a.channel, d>> \in received => Owns(a)
    BY DEF Notify!AnswersAreTrue, Owns
  <2>1. PICK c : c = sendings[d].answers[i].channel OBVIOUS
  <2>2. sendings[d].answers[i].is = "delivered" => <<c, d>> \in received BY <2>1 DEF NotifyIInv, Told
  <2>3. c \in ChannelNames BY <2>1 DEF Notify!Remote, ChannelNames
  <2>4. ASSUME \A j \in DOMAIN sendings[d].via : sendings[d].via[j] = c => j = i, <<c, d>> \in received
        PROVE  Owns(sendings[d].answers[i])
    <3>1. PICK h \in DOMAIN sendings[d].answers : sendings[d].answers[h].channel = c /\ Owns(sendings[d].answers[h])
      BY <2>3, <2>4 DEF NotifyIInv, Took
    <3>2. h \in DOMAIN sendings[d].via
      <4>1. sendings[d].answers \in Seq(ChannelAnswer) /\ sendings[d].via \in Seq(ChannelNames)
            /\ Len(sendings[d].answers) <= Len(sendings[d].via)
        BY DEF NotifyIInv, SendingsHold, SendCall
      <4>. QED BY <3>1, <4>1
    <3>3. sendings[d].via[h] = c BY <3>1 DEF NotifyIInv, Told
    <3>. QED BY <2>4, <3>1, <3>2, <3>3
  <2>. QED BY <2>1, <2>2, <2>4
<1>3. Notify!RegistryHoldsTheOpen BY DEF NotifyIInv, Registered, OpenOn, IsOpen, Notify!RegistryHoldsTheOpen
<1>4. Notify!SubscribersGetTheirEvents
  <2> SUFFICES ASSUME NEW s \in Listener
               PROVE  LET got == sub[s].taken \o sub[s].queue IN
                      /\ Len(got) + sub[s].dropped = Len(sub[s].pushed)
                      /\ \E f \in [DOMAIN got -> DOMAIN sub[s].pushed] :
                           \A i, j \in DOMAIN got : got[i] = sub[s].pushed[f[i]] /\ (i < j => f[i] < f[j])
                      /\ Len(sub[s].queue) <= QueueSize
                      /\ sub[s].at = "waiting" => sub[s].queue = <<>> /\ ~sub[s].closed
    BY DEF Notify!SubscribersGetTheirEvents
  <2>1. StreamHolds(sub[s]) BY DEF NotifyIInv, StreamsHold
  <2> DEFINE got == sub[s].taken \o sub[s].queue
             p == sub[s].pushed
  <2>2. PICK T \in Nat, Q \in Nat, P \in Nat : T = Len(sub[s].taken) /\ Q = Len(sub[s].queue) /\ P = Len(p) /\ DOMAIN p = 1..P
    BY <2>1 DEF StreamHolds, Stream
  <2>3. /\ Len(got) = T + Q /\ DOMAIN got = 1..(T + Q) /\ \A i \in 1..T : got[i] = sub[s].taken[i]
        /\ \A i \in 1..(T + Q) : i > T => got[i] = sub[s].queue[i - T]
    <3>1. sub[s].taken \in Seq(Sending) /\ sub[s].queue \in Seq(Sending) BY <2>1 DEF StreamHolds, Stream
    <3>2. got \in Seq(Sending) /\ Len(got) = T + Q /\ \A i \in 1..(T + Q) : got[i] = IF i <= T THEN sub[s].taken[i] ELSE sub[s].queue[i - T]
      BY <2>2, <3>1, ConcatProperties
    <3>4. \A i \in 1..T : i \in 1..(T + Q) /\ i <= T OBVIOUS
    <3>5. \A i \in 1..(T + Q) : i > T => ~(i <= T) OBVIOUS
    <3> HIDE DEF got
    <3>3. DOMAIN got = 1..(T + Q) BY <3>2
    <3>6. \A i \in 1..T : got[i] = sub[s].taken[i] BY <3>2, <3>4
    <3>7. \A i \in 1..(T + Q) : i > T => got[i] = sub[s].queue[i - T] BY <3>2, <3>5
    <3>. QED BY <3>2, <3>3, <3>6, <3>7
  <2>4. PICK f : Inside(sub[s], f) BY <2>1 DEF StreamHolds
  <2>5. /\ f \in [1..(T + Q) -> 1..P] /\ \A i \in 1..T : sub[s].taken[i] = p[f[i]]
        /\ \A i \in 1..Q : sub[s].queue[i] = p[f[T + i]]
        /\ \A i, j \in 1..(T + Q) : i < j => f[i] < f[j]
    BY <2>2, <2>4 DEF Inside
  <2> HIDE DEF got, p
  <2>6. \A i \in 1..(T + Q) : got[i] = p[f[i]]
    <3> TAKE i \in 1..(T + Q)
    <3>1. CASE i <= T
      <4>1. i \in 1..T BY <3>1
      <4>. QED BY <2>3, <2>5, <4>1
    <3>2. CASE i > T
      <4>1. i - T \in 1..Q /\ T + (i - T) = i BY <3>2
      <4>. QED BY <2>3, <2>5, <3>2, <4>1
    <3>. QED BY <3>1, <3>2
  <2>7. \E g \in [DOMAIN got -> DOMAIN p] : \A i, j \in DOMAIN got : got[i] = p[g[i]] /\ (i < j => g[i] < g[j])
    BY <2>2, <2>3, <2>5, <2>6
  <2>8. Len(got) + sub[s].dropped = Len(p) BY <2>1, <2>2, <2>3 DEF StreamHolds, p
  <2>. QED BY <2>1, <2>7, <2>8 DEF StreamHolds, got, p
<1>. QED BY <1>1, <1>2, <1>3, <1>4 DEF Notify!NotificationsInv

\* NotificationManager.send and the sse channel: each channel a notification names is answered
\* once and truthfully, and a subscriber gets what was pushed to it in order and once.
THEOREM ChannelsAreAnswered ==
  ASSUME SendingsBounded
  PROVE  Notify!Init /\ [][Notify!Next]_notifyVars => []Notify!NotificationsInv
<1>1. Notify!Init => NotifyIInv BY NotifyStarts
<1>2. NotifyIInv /\ [Notify!Next]_notifyVars => NotifyIInv' BY NotifyKept
<1>3. NotifyIInv => Notify!NotificationsInv BY NotifyHolds
<1>. QED BY <1>1, <1>2, <1>3, PTL

(***************************************************************************)
(* Mail and LINE.                                                          *)
(***************************************************************************)
\* The drivers there are; a LINE request is a list of events; a mailable is tried at least once;
\* and what a side puts on the answers it generates says so, to either parser.
MailGiven ==
    /\ Transports \subseteq {"resend", "sendgrid", "mailgun", "alibaba", "log", "array"}
    /\ LinePosts \subseteq Seq(STRING) /\ MaxAttempts \in Nat \ {0} /\ MaxMailLost \in Nat
    /\ \A side \in Mail!Side :
         Mail!IsAutoGeneratedMessage([name \in Mail!HeaderNames |-> Mail!Value(MarkOf[side], name)])

Field == (UNION Mailables) \cup {"from", "to", "text", "headers"}
HeaderLists == {<<>>} \cup {MarkOf[side] : side \in Mail!Side}
MailAnswer == [ok : BOOLEAN, retryable : BOOLEAN, sent : SUBSET Field]
MailJob == [by : Mail!Side, message : SUBSET Field, headers : HeaderLists, answers : Nat, state : {"queued", "sent", "dead"},
            attempts : Nat, last : MailAnswer, taken : BOOLEAN, accepted : Nat, unheard : Nat]
MailSent == [by : Mail!Side, fields : SUBSET Field, job : Nat, answers : Nat, headers : HeaderLists,
             hook : {"kept", "due", "answered"}, deliveries : Nat, unheard : Nat]
MailTyped ==
    /\ via \in [Mail!Side -> Transports]
    /\ mailJobs \in Seq(MailJob) /\ mails \in Seq(MailSent)
    /\ \A i \in DOMAIN mails : mails[i].job \in DOMAIN mailJobs
    /\ \A j \in DOMAIN mailJobs : mailJobs[j].answers # 0 => mailJobs[j].answers \in DOMAIN mails

\* A mail is what a transport made of its job; an answer is marked as one.
MailsAreJobs ==
    /\ \A i \in DOMAIN mails :
         LET j == mailJobs[mails[i].job] IN
         /\ mails[i].by = j.by /\ mails[i].answers = j.answers
         /\ mails[i].headers = IF "headers" \in mails[i].fields THEN j.headers ELSE <<>>
    /\ \A j \in DOMAIN mailJobs : mailJobs[j].answers # 0 =>
         mailJobs[j].headers = MarkOf[mailJobs[j].by] /\ "headers" \in mailJobs[j].message

\* While a job may be tried again each copy of it is one the worker did not hear of.
TriesCounted == \A j \in DOMAIN mailJobs : mailJobs[j].state # "sent" => mailJobs[j].accepted <= mailJobs[j].unheard

\* Before its webhook was answered a mail was answered only in deliveries that went unheard.
MailAnswers(i) == {j \in DOMAIN mailJobs : mailJobs[j].answers = i}
AnswersCounted ==
    \A i \in DOMAIN mails :
      Cardinality(MailAnswers(i)) <= IF mails[i].hook = "answered" THEN 1 + mails[i].unheard ELSE mails[i].unheard

\* Whatever was touched of a LINE batch, everything before it was handled.
Touched(k) == tokens[k] + handled[k] # 0
BatchTyped ==
    /\ batch \in [events : Seq(STRING), at : Nat, deliveries : Nat]
    /\ tokens \in [DOMAIN batch.events -> {0, 1}] /\ handled \in [DOMAIN batch.events -> Nat]
Passed ==
    /\ batch.at # 0 \/ (\E k \in DOMAIN batch.events : Touched(k)) =>
         \A i \in DOMAIN batch.events : Mail!Readable(batch.events[i])
    /\ \A i, k \in DOMAIN batch.events : i < k /\ Touched(k) => handled[i] # 0
    /\ \A i \in DOMAIN batch.events : i < batch.at => handled[i] # 0

MailIInv ==
    /\ MailTyped /\ MailsAreJobs /\ TriesCounted /\ AnswersCounted
    /\ Mail!LoopsEnd /\ Mail!CopiesHaveACause /\ Mail!NothingDropped
BatchIInv == BatchTyped /\ Passed

\* At first nothing was sent and nothing posted.
LEMMA MailStarts == ASSUME MailGiven, Mail!Init PROVE MailIInv /\ BatchIInv
<1>1. mailJobs = <<>> /\ mails = <<>> /\ via \in [Mail!Side -> Transports] BY DEF Mail!Init
<1>2. mailJobs \in Seq(MailJob) /\ mails \in Seq(MailSent) /\ DOMAIN mailJobs = {} /\ DOMAIN mails = {} BY <1>1
<1>3. MailIInv
  BY <1>1, <1>2 DEF MailIInv, MailTyped, MailsAreJobs, TriesCounted, AnswersCounted, Mail!LoopsEnd, Mail!CopiesHaveACause, Mail!NothingDropped
<1>4. PICK events \in LinePosts : batch = [events |-> events, at |-> 0, deliveries |-> 0] BY DEF Mail!Init
<1>5. batch \in [events : Seq(STRING), at : Nat, deliveries : Nat] /\ batch.at = 0 BY <1>4 DEF MailGiven
<1>6. tokens = [i \in DOMAIN batch.events |-> 0] /\ handled = [i \in DOMAIN batch.events |-> 0] BY DEF Mail!Init
<1>7. BatchTyped BY <1>5, <1>6 DEF BatchTyped
<1>8. DOMAIN batch.events = 1..Len(batch.events) /\ Len(batch.events) \in Nat BY <1>5
<1>9. \A k \in DOMAIN batch.events : ~Touched(k) BY <1>6 DEF Touched
<1>10. Passed BY <1>5, <1>8, <1>9 DEF Passed
<1>. QED BY <1>3, <1>7, <1>10 DEF BatchIInv

\* What the statuses come to.
LEMMA StatusesKnown ==
  ASSUME NEW status \in {0, 202, 422, 429, 503}, NEW fields \in SUBSET Field
  PROVE  /\ Mail!Answered(status, fields) \in MailAnswer
         /\ Mail!Answered(status, fields).sent = fields
         /\ status \in {0, 202, 503} => Mail!Answered(status, fields).ok \/ Mail!Answered(status, fields).retryable
         /\ status = 202 => Mail!Answered(status, fields).ok
<1> DEFINE o == status \in 200..299
           r == status = 0 \/ Mail!IsRetryableStatus(status)
<1>1. o \in BOOLEAN /\ r \in BOOLEAN OBVIOUS
<1>2. (status \in {0, 202, 503} => o \/ r) /\ (status = 202 => o) BY DEF Mail!IsRetryableStatus
<1>3. Mail!Answered(status, fields) = [ok |-> o, retryable |-> r, sent |-> fields] BY Zenon DEF Mail!Answered
<1> HIDE DEF o, r
<1>. QED BY <1>1, <1>2, <1>3 DEF MailAnswer

\* A transport sends the whole message, but for what its provider has no room for, or nothing.
LEMMA TransportsSend ==
  ASSUME MailGiven, NEW driver \in Transports, NEW m \in SUBSET Field, NEW status \in {0, 202, 422, 429, 503}
  PROVE  /\ Mail!BuildTransport(driver, m, status) \in MailAnswer
         /\ Mail!BuildTransport(driver, m, status).sent # {} =>
              /\ status \in {0, 202, 503} =>
                   Mail!BuildTransport(driver, m, status).ok \/ Mail!BuildTransport(driver, m, status).retryable
              /\ m \ Mail!BuildTransport(driver, m, status).sent
                   \subseteq {"secondReplyTo"} \cup (IF driver = "alibaba" THEN {"headers"} ELSE {})
              /\ driver \notin Mail!Local => "from" \in Mail!BuildTransport(driver, m, status).sent
<1>r. Mail!Refused \in MailAnswer /\ Mail!Refused.sent = {} BY DEF Mail!Refused, MailAnswer
<1>s. driver \in {"resend", "sendgrid", "mailgun", "alibaba", "log", "array"} BY DEF MailGiven
<1>1. CASE driver \in {"resend", "mailgun"}
  <2>1. \/ Mail!BuildTransport(driver, m, status) = Mail!Refused
        \/ Mail!BuildTransport(driver, m, status) = Mail!Answered(status, m) /\ "from" \in m
    BY <1>1 DEF Mail!BuildTransport, Mail!ResendSend, Mail!MailgunSend
  <2>. QED BY <1>1, <1>r, <2>1, StatusesKnown
<1>2. CASE driver = "sendgrid"
  <2>1. \/ Mail!BuildTransport(driver, m, status) = Mail!Refused
        \/ Mail!BuildTransport(driver, m, status) = Mail!Answered(status, m \ {"secondReplyTo"}) /\ "from" \in m
    BY <1>2 DEF Mail!BuildTransport, Mail!SendGridSend
  <2>2. m \ {"secondReplyTo"} \in SUBSET Field OBVIOUS
  <2>. QED BY <1>2, <1>r, <2>1, <2>2, StatusesKnown
<1>3. CASE driver = "alibaba"
  <2>1. \/ Mail!BuildTransport(driver, m, status) = Mail!Refused
        \/ Mail!BuildTransport(driver, m, status) = Mail!Answered(status, m \ {"secondReplyTo", "headers"}) /\ "from" \in m
    BY <1>3 DEF Mail!BuildTransport, Mail!AlibabaSend
  <2>2. m \ {"secondReplyTo", "headers"} \in SUBSET Field OBVIOUS
  <2>. QED BY <1>3, <1>r, <2>1, <2>2, StatusesKnown
<1>4. CASE driver \in {"log", "array"}
  <2>1. Mail!BuildTransport(driver, m, status) = Mail!Answered(202, m)
    BY <1>4 DEF Mail!BuildTransport, Mail!LogSend, Mail!ArraySend
  <2>. QED BY <1>4, <2>1, StatusesKnown DEF Mail!Local
<1>. QED BY <1>s, <1>1, <1>2, <1>3, <1>4

\* A mailable is dispatched.
LEMMA DispatchKeeps == ASSUME MailGiven, MailIInv, NEW m \in Mailables, Mail!Dispatch(m) PROVE MailIInv'
<1>1. mails' = mails /\ via' = via /\ mailJobs = <<>> /\ mailJobs' = <<Mail!Job("app", m, <<>>, 0)>> BY DEF Mail!Dispatch
<1>2. DOMAIN mails = {}
  <2>1. DOMAIN mailJobs = {} BY <1>1
  <2>. QED BY <2>1 DEF MailIInv, MailTyped
<1>3. Mail!Answered(202, {}) \in MailAnswer /\ Mail!Answered(202, {}).ok BY StatusesKnown
<1>4. PICK v \in MailAnswer : v = Mail!Answered(202, {}) BY <1>3
<1>5. m \in SUBSET Field /\ <<>> \in HeaderLists BY DEF Field, HeaderLists
<1>f. PICK no \in BOOLEAN : ~no OBVIOUS
<1>6. Mail!Job("app", m, <<>>, 0) = [by |-> "app", message |-> m, headers |-> <<>>, answers |-> 0, state |-> "queued", attempts |-> 0,
                                     last |-> v, taken |-> no, accepted |-> 0, unheard |-> 0]
  BY <1>4, <1>f DEF Mail!Job
<1>7. PICK b \in MailJob : b = Mail!Job("app", m, <<>>, 0) /\ b.answers = 0 /\ b.accepted = 0 /\ b.unheard = 0 /\ b.state = "queued" /\ ~b.taken
  <2>1. PICK b : b = Mail!Job("app", m, <<>>, 0) OBVIOUS
  <2>2. b.answers = 0 /\ b.accepted = 0 /\ b.unheard = 0 /\ b.state = "queued" /\ ~b.taken BY <1>6, <1>f, <2>1
  <2>3. "app" \in Mail!Side BY DEF Mail!Side
  <2>4. b \in MailJob BY <1>5, <1>6, <2>1, <2>3 DEF MailJob
  <2>. QED BY <2>1, <2>2, <2>4
<1>8. mailJobs' \in Seq(MailJob) /\ DOMAIN mailJobs' = {1} /\ mailJobs'[1] = b BY <1>1, <1>7
<1>9. MailTyped' BY <1>1, <1>2, <1>7, <1>8 DEF MailIInv, MailTyped
<1>10. (MailsAreJobs /\ TriesCounted /\ AnswersCounted)' BY <1>1, <1>2, <1>7, <1>8 DEF MailsAreJobs, TriesCounted, AnswersCounted
<1>11. (Mail!LoopsEnd /\ Mail!CopiesHaveACause /\ Mail!NothingDropped)'
  BY <1>1, <1>2, <1>7, <1>8 DEF Mail!LoopsEnd, Mail!CopiesHaveACause, Mail!NothingDropped
<1>. QED BY <1>9, <1>10, <1>11 DEF MailIInv

\* A worker tries a mailable: its job is written back, and the provider may have taken it in.
LEMMA AttemptKeeps == ASSUME MailGiven, MailIInv, NEW j \in DOMAIN mailJobs, Mail!Handle(j) PROVE MailIInv'
<1>t. MailTyped /\ MailsAreJobs /\ TriesCounted /\ AnswersCounted BY DEF MailIInv
<1>p. Mail!LoopsEnd /\ Mail!CopiesHaveACause /\ Mail!NothingDropped BY DEF MailIInv
<1>n. DOMAIN mailJobs = 1..Len(mailJobs) /\ DOMAIN mails = 1..Len(mails) /\ Len(mailJobs) \in Nat /\ Len(mails) \in Nat BY <1>t DEF MailTyped
<1>j. mailJobs[j] \in MailJob BY <1>t DEF MailTyped
<1>d. PICK driver : driver = via[mailJobs[j].by] OBVIOUS
<1>m. PICK m : m = Mail!ApplyDefaultFrom(mailJobs[j].message) OBVIOUS
<1>0. PICK status \in {0, 202, 422, 429, 503}, served \in BOOLEAN, dies \in BOOLEAN :
        LET transport == via[mailJobs[j].by]
            reply == Mail!BuildTransport(transport, Mail!ApplyDefaultFrom(mailJobs[j].message), status)
            attempts == mailJobs[j].attempts + 1
            unheard == IF served /\ (dies \/ ~reply.ok) THEN 1 ELSE 0
            mail == [by |-> mailJobs[j].by, fields |-> reply.sent, job |-> j, answers |-> mailJobs[j].answers,
                     headers |-> IF "headers" \in reply.sent THEN mailJobs[j].headers ELSE <<>>,
                     hook |-> IF transport \in Mail!Local THEN "kept" ELSE "due", deliveries |-> 0, unheard |-> 0] IN
        /\ mailJobs[j].state = "queued"
        /\ reply.sent = {} \/ transport \in Mail!Local => status = 202
        /\ served => reply.sent # {} /\ status \in {0, 202, 503}
        /\ (reply.ok => served) /\ (dies => reply.ok)
        /\ mailLost' = mailLost + unheard /\ mailLost' <= MaxMailLost
        /\ mails' = IF served THEN Append(mails, mail) ELSE mails
        /\ mailJobs' = [mailJobs EXCEPT ![j].attempts = attempts, ![j].last = reply, ![j].taken = served,
                          ![j].accepted = IF served THEN @ + 1 ELSE @, ![j].unheard = @ + unheard,
                          ![j].state = IF reply.ok /\ ~dies THEN "sent" ELSE IF attempts = MaxAttempts THEN "dead" ELSE "queued"]
        /\ UNCHANGED <<via, parser, batch, tokens, handled>>
  BY Zenon DEF Mail!Handle
<1>r. PICK reply : reply = Mail!BuildTransport(driver, m, status) OBVIOUS
<1>u. PICK unheard : unheard = IF served /\ (dies \/ ~reply.ok) THEN 1 ELSE 0 OBVIOUS
<1>v. via' = via BY <1>0
<1>1. /\ mailJobs[j].state = "queued" /\ via' = via
      /\ served => reply.sent # {} /\ status \in {0, 202, 503}
      /\ (reply.ok => served) /\ (dies => reply.ok)
      /\ mails' = IF served
                  THEN Append(mails, [by |-> mailJobs[j].by, fields |-> reply.sent, job |-> j, answers |-> mailJobs[j].answers,
                                      headers |-> IF "headers" \in reply.sent THEN mailJobs[j].headers ELSE <<>>,
                                      hook |-> IF driver \in Mail!Local THEN "kept" ELSE "due", deliveries |-> 0, unheard |-> 0])
                  ELSE mails
      /\ mailJobs' = [mailJobs EXCEPT ![j].attempts = mailJobs[j].attempts + 1, ![j].last = reply, ![j].taken = served,
                        ![j].accepted = IF served THEN @ + 1 ELSE @, ![j].unheard = @ + unheard,
                        ![j].state = IF reply.ok /\ ~dies THEN "sent"
                                     ELSE IF mailJobs[j].attempts + 1 = MaxAttempts THEN "dead" ELSE "queued"]
  BY <1>0, <1>d, <1>m, <1>r, <1>u, <1>v
<1>2. m \in SUBSET Field /\ driver \in Transports /\ mailJobs[j].message \subseteq m
  <2>1. mailJobs[j].by \in Mail!Side /\ mailJobs[j].message \in SUBSET Field BY <1>j DEF MailJob
  <2>2. driver \in Transports BY <1>d, <1>t, <2>1 DEF MailTyped
  <2>3. m = mailJobs[j].message \/ m = mailJobs[j].message \cup {"from"} BY <1>m DEF Mail!ApplyDefaultFrom
  <2>4. "from" \in Field BY DEF Field
  <2>. QED BY <2>1, <2>2, <2>3, <2>4
<1>3. reply \in MailAnswer /\ unheard \in {0, 1} BY <1>r, <1>u, <1>2, TransportsSend
<1>4. reply.sent # {} =>
        /\ status \in {0, 202, 503} => reply.ok \/ reply.retryable
        /\ m \ reply.sent \subseteq {"secondReplyTo"} \cup (IF driver = "alibaba" THEN {"headers"} ELSE {})
        /\ driver \notin Mail!Local => "from" \in reply.sent
  BY <1>r, <1>2, TransportsSend
<1>5. PICK b \in MailJob :
        /\ mailJobs' = [mailJobs EXCEPT ![j] = b]
        /\ b.by = mailJobs[j].by /\ b.message = mailJobs[j].message /\ b.headers = mailJobs[j].headers /\ b.answers = mailJobs[j].answers
        /\ b.taken = served /\ b.last = reply /\ (b.state = "sent" <=> reply.ok /\ ~dies)
        /\ b.accepted = (IF served THEN mailJobs[j].accepted + 1 ELSE mailJobs[j].accepted)
        /\ b.unheard = mailJobs[j].unheard + unheard
  <2> DEFINE b == [mailJobs[j] EXCEPT !.attempts = mailJobs[j].attempts + 1, !.last = reply, !.taken = served,
                          !.accepted = IF served THEN mailJobs[j].accepted + 1 ELSE mailJobs[j].accepted, !.unheard = mailJobs[j].unheard + unheard,
                          !.state = IF reply.ok /\ ~dies THEN "sent"
                                    ELSE IF mailJobs[j].attempts + 1 = MaxAttempts THEN "dead" ELSE "queued"]
  <2>0. mailJobs' = [mailJobs EXCEPT ![j].attempts = mailJobs[j].attempts + 1, ![j].last = reply, ![j].taken = served,
                        ![j].accepted = IF served THEN mailJobs[j].accepted + 1 ELSE mailJobs[j].accepted, ![j].unheard = mailJobs[j].unheard + unheard,
                        ![j].state = IF reply.ok /\ ~dies THEN "sent"
                                     ELSE IF mailJobs[j].attempts + 1 = MaxAttempts THEN "dead" ELSE "queued"]
    BY <1>1, <1>j DEF MailJob
  <2>1. mailJobs' = [mailJobs EXCEPT ![j] = b] BY <2>0, <1>j
  <2>2. b \in MailJob
    <3>1. PICK x \in Nat : x = mailJobs[j].attempts + 1 BY <1>j DEF MailJob
    <3>2. PICK y \in Nat : y = IF served THEN mailJobs[j].accepted + 1 ELSE mailJobs[j].accepted BY <1>j DEF MailJob
    <3>3. PICK z \in Nat : z = mailJobs[j].unheard + unheard BY <1>3, <1>j DEF MailJob
    <3>4. (IF reply.ok /\ ~dies THEN "sent" ELSE IF mailJobs[j].attempts + 1 = MaxAttempts THEN "dead" ELSE "queued")
            \in {"queued", "sent", "dead"} OBVIOUS
    <3>5. PICK st \in {"queued", "sent", "dead"} :
            st = IF reply.ok /\ ~dies THEN "sent" ELSE IF mailJobs[j].attempts + 1 = MaxAttempts THEN "dead" ELSE "queued"
      BY <3>4
    <3>6. b = [mailJobs[j] EXCEPT !.attempts = x, !.last = reply, !.taken = served, !.accepted = y, !.unheard = z, !.state = st]
      BY <3>1, <3>2, <3>3, <3>5
    <3> HIDE DEF b
    <3>. QED BY <1>3, <1>j, <3>6 DEF MailJob
  <2>3. /\ b.by = mailJobs[j].by /\ b.message = mailJobs[j].message /\ b.headers = mailJobs[j].headers /\ b.answers = mailJobs[j].answers
        /\ b.taken = served /\ b.last = reply /\ (b.state = "sent" <=> reply.ok /\ ~dies)
        /\ b.accepted = (IF served THEN mailJobs[j].accepted + 1 ELSE mailJobs[j].accepted)
        /\ b.unheard = mailJobs[j].unheard + unheard
    BY <1>j DEF MailJob
  <2> HIDE DEF b
  <2>. QED BY <2>1, <2>2, <2>3
<1>6. /\ mailJobs' \in Seq(MailJob) /\ DOMAIN mailJobs' = DOMAIN mailJobs /\ mailJobs'[j] = b
      /\ \A k \in DOMAIN mailJobs : k # j => mailJobs'[k] = mailJobs[k]
  BY <1>5, <1>t DEF MailTyped
<1>7. \A k \in DOMAIN mailJobs :
        /\ mailJobs'[k].by = mailJobs[k].by /\ mailJobs'[k].message = mailJobs[k].message
        /\ mailJobs'[k].headers = mailJobs[k].headers /\ mailJobs'[k].answers = mailJobs[k].answers
  BY <1>5, <1>6
<1>8. /\ mails' \in Seq(MailSent) /\ DOMAIN mails \subseteq DOMAIN mails' /\ \A i \in DOMAIN mails : mails'[i] = mails[i]
      /\ \A i \in DOMAIN mails' : i \notin DOMAIN mails =>
           /\ mails'[i].by = mailJobs[j].by /\ mails'[i].fields = reply.sent /\ mails'[i].job = j /\ mails'[i].answers = mailJobs[j].answers
           /\ mails'[i].headers = (IF "headers" \in reply.sent THEN mailJobs[j].headers ELSE <<>>)
           /\ mails'[i].hook # "answered" /\ mails'[i].unheard = 0 /\ reply.sent # {}
  <2>1. CASE ~served BY <1>1, <1>t, <2>1 DEF MailTyped
  <2>2. CASE served
    <3> DEFINE e == [by |-> mailJobs[j].by, fields |-> reply.sent, job |-> j, answers |-> mailJobs[j].answers,
                        headers |-> IF "headers" \in reply.sent THEN mailJobs[j].headers ELSE <<>>,
                        hook |-> IF driver \in Mail!Local THEN "kept" ELSE "due", deliveries |-> 0, unheard |-> 0]
    <3>2. j \in Nat BY <1>n
    <3>3. PICK h \in HeaderLists : h = IF "headers" \in reply.sent THEN mailJobs[j].headers ELSE <<>> BY <1>j DEF MailJob, HeaderLists
    <3>k. (IF driver \in Mail!Local THEN "kept" ELSE "due") \in {"kept", "due"} OBVIOUS
    <3>4. PICK k \in {"kept", "due"} : k = IF driver \in Mail!Local THEN "kept" ELSE "due" BY <3>k
    <3>5. e = [by |-> mailJobs[j].by, fields |-> reply.sent, job |-> j, answers |-> mailJobs[j].answers, headers |-> h, hook |-> k,
               deliveries |-> 0, unheard |-> 0]
      BY <3>3, <3>4
    <3>6. mailJobs[j].by \in Mail!Side /\ reply.sent \in SUBSET Field /\ mailJobs[j].answers \in Nat BY <1>3, <1>j DEF MailJob, MailAnswer
    <3>7. e \in MailSent BY <3>2, <3>5, <3>6 DEF MailSent
    <3>8. mails' = Append(mails, e) BY <1>1, <2>2
    <3> HIDE DEF e
    <3>9. /\ mails' \in Seq(MailSent) /\ DOMAIN mails' = 1..(Len(mails) + 1) /\ mails'[Len(mails) + 1] = e
          /\ \A i \in DOMAIN mails : mails'[i] = mails[i]
      BY <1>t, <3>7, <3>8 DEF MailTyped
    <3>10. \A i \in DOMAIN mails' : i \notin DOMAIN mails => i = Len(mails) + 1 BY <1>n, <3>9
    <3>. QED BY <1>1, <1>n, <2>2, <3>3, <3>5, <3>9, <3>10
  <2>. QED BY <2>1, <2>2
<1>9. MailTyped' BY <1>1, <1>6, <1>7, <1>8, <1>t DEF MailTyped
<1>10. MailsAreJobs'
  <2>1. \A i \in DOMAIN mails' : /\ mails'[i].by = mailJobs'[mails'[i].job].by /\ mails'[i].answers = mailJobs'[mails'[i].job].answers
                                 /\ mails'[i].headers = IF "headers" \in mails'[i].fields THEN mailJobs'[mails'[i].job].headers ELSE <<>>
    <3> SUFFICES ASSUME NEW i \in DOMAIN mails'
                 PROVE  /\ mails'[i].by = mailJobs'[mails'[i].job].by /\ mails'[i].answers = mailJobs'[mails'[i].job].answers
                        /\ mails'[i].headers = IF "headers" \in mails'[i].fields THEN mailJobs'[mails'[i].job].headers ELSE <<>>
      OBVIOUS
    <3>1. CASE i \in DOMAIN mails
      <4>1. mails[i].job \in DOMAIN mailJobs BY <1>t, <3>1 DEF MailTyped
      <4>. QED BY <1>7, <1>8, <1>t, <3>1, <4>1 DEF MailsAreJobs
    <3>2. CASE i \notin DOMAIN mails BY <1>7, <1>8, <3>2
    <3>. QED BY <3>1, <3>2
  <2>2. \A k \in DOMAIN mailJobs' : mailJobs'[k].answers # 0 =>
          mailJobs'[k].headers = MarkOf[mailJobs'[k].by] /\ "headers" \in mailJobs'[k].message
    BY <1>6, <1>7, <1>t DEF MailsAreJobs
  <2>. QED BY <2>1, <2>2 DEF MailsAreJobs
<1>11. /\ mailJobs[j].accepted \in Nat /\ mailJobs[j].unheard \in Nat /\ mailJobs[j].accepted <= mailJobs[j].unheard
       /\ b.state # "sent" => b.accepted <= b.unheard
       /\ b.accepted <= 1 + b.unheard /\ (b.state = "sent" => b.accepted > 0)
  <2>1. mailJobs[j].accepted \in Nat /\ mailJobs[j].unheard \in Nat /\ mailJobs[j].accepted <= mailJobs[j].unheard
    BY <1>1, <1>j, <1>t DEF MailJob, TriesCounted
  <2>2. PICK x \in Nat, y \in Nat : x = mailJobs[j].accepted /\ y = mailJobs[j].unheard BY <2>1
  <2>3. x <= y /\ b.accepted = (IF served THEN x + 1 ELSE x) /\ b.unheard = y + unheard BY <1>5, <2>1, <2>2
  <2>4. served /\ (dies \/ ~reply.ok) => unheard = 1 BY <1>u
  <2>5. (b.state = "sent" => served /\ reply.ok /\ ~dies) /\ (b.state # "sent" => ~served \/ dies \/ ~reply.ok) BY <1>1, <1>5
  <2>. QED BY <1>3, <2>1, <2>2, <2>3, <2>4, <2>5
<1>12. TriesCounted' BY <1>6, <1>11, <1>t DEF TriesCounted
<1>13. Mail!CopiesHaveACause'
  <2>1. ~b.last.ok /\ ~b.last.retryable => ~b.taken BY <1>1, <1>4, <1>5
  <2>. QED BY <1>6, <1>11, <1>p, <2>1 DEF Mail!CopiesHaveACause
<1>14. AnswersCounted'
  <2>1. \A i : MailAnswers(i)' = MailAnswers(i) BY <1>6, <1>7 DEF MailAnswers
  <2> SUFFICES ASSUME NEW i \in DOMAIN mails'
               PROVE  Cardinality(MailAnswers(i)) <= IF mails'[i].hook = "answered" THEN 1 + mails'[i].unheard ELSE mails'[i].unheard
    BY <2>1 DEF AnswersCounted
  <2>2. CASE i \in DOMAIN mails BY <1>8, <1>t, <2>2 DEF AnswersCounted
  <2>3. CASE i \notin DOMAIN mails
    <3>1. i # 0 BY <1>8
    <3>2. MailAnswers(i) = {} BY <1>t, <2>3, <3>1 DEF MailAnswers, MailTyped
    <3>. QED BY <1>8, <2>3, <3>2, FS_EmptySet
  <2>. QED BY <2>2, <2>3
<1>15. Mail!LoopsEnd'
  <2> SUFFICES ASSUME NEW k \in DOMAIN mailJobs, mailJobs[k].answers # 0, mails'[mailJobs[k].answers].answers # 0
               PROVE  via[mails'[mailJobs[k].answers].by] = "alibaba"
    <3>1. SUFFICES \A k \in DOMAIN mailJobs' : mailJobs'[k].answers # 0 /\ mails'[mailJobs'[k].answers].answers # 0 =>
                     via'[mails'[mailJobs'[k].answers].by] = "alibaba"
      BY DEF Mail!LoopsEnd
    <3>. QED BY <1>6, <1>7, <1>v
  <2>1. mailJobs[k].answers \in DOMAIN mails BY <1>t DEF MailTyped
  <2>. QED BY <1>8, <1>p, <2>1 DEF Mail!LoopsEnd
<1>16. Mail!NothingDropped'
  <2> SUFFICES ASSUME NEW i \in DOMAIN mails'
               PROVE  /\ Mail!ApplyDefaultFrom(mailJobs'[mails'[i].job].message) \ mails'[i].fields
                           \subseteq {"secondReplyTo"} \cup (IF via[mails'[i].by] = "alibaba" THEN {"headers"} ELSE {})
                      /\ via[mails'[i].by] \notin Mail!Local => "from" \in mails'[i].fields
    <3>1. SUFFICES \A i \in DOMAIN mails' :
                     /\ Mail!ApplyDefaultFrom(mailJobs'[mails'[i].job].message) \ mails'[i].fields
                           \subseteq {"secondReplyTo"} \cup (IF via'[mails'[i].by] = "alibaba" THEN {"headers"} ELSE {})
                     /\ via'[mails'[i].by] \notin Mail!Local => "from" \in mails'[i].fields
      BY DEF Mail!NothingDropped, Mail!ApplyDefaultFrom
    <3>. QED BY <1>v
  <2>1. CASE i \in DOMAIN mails
    <3>1. mails[i].job \in DOMAIN mailJobs BY <1>t, <2>1 DEF MailTyped
    <3>. QED BY <1>7, <1>8, <1>p, <2>1, <3>1 DEF Mail!NothingDropped
  <2>2. CASE i \notin DOMAIN mails
    <3>1. Mail!ApplyDefaultFrom(mailJobs'[mails'[i].job].message) = m BY <1>7, <1>8, <1>m, <2>2
    <3>2. via[mails'[i].by] = driver /\ mails'[i].fields = reply.sent /\ reply.sent # {} BY <1>8, <1>d, <2>2
    <3>. QED BY <1>4, <3>1, <3>2
  <2>. QED BY <2>1, <2>2
<1>. QED BY <1>9, <1>10, <1>12, <1>13, <1>14, <1>15, <1>16 DEF MailIInv

\* An answer whose headers went out is seen to be one, by either parser.
LEMMA AnswersAreMarked ==
  ASSUME MailGiven, MailIInv, NEW i \in DOMAIN mails, mails[i].answers # 0, via[mails[i].by] # "alibaba"
  PROVE  Mail!IsAutoGenerated(mails[i])
<1>t. MailTyped /\ MailsAreJobs /\ Mail!NothingDropped BY DEF MailIInv
<1>1. PICK j \in DOMAIN mailJobs : j = mails[i].job BY <1>t DEF MailTyped
<1>2. mailJobs[j] \in MailJob /\ mails[i] \in MailSent BY <1>t DEF MailTyped
<1>3. mails[i].by = mailJobs[j].by /\ mailJobs[j].headers = MarkOf[mailJobs[j].by] /\ "headers" \in mailJobs[j].message
  BY <1>1, <1>t DEF MailsAreJobs
<1>4. "headers" \in Mail!ApplyDefaultFrom(mailJobs[j].message) BY <1>3 DEF Mail!ApplyDefaultFrom
<1>5. "headers" \in mails[i].fields BY <1>1, <1>4, <1>t DEF Mail!NothingDropped
<1>6. mails[i].headers = MarkOf[mails[i].by] /\ mails[i].by \in Mail!Side BY <1>1, <1>2, <1>3, <1>5, <1>t DEF MailsAreJobs, MailSent
<1>7. Mail!IsAutoGeneratedMessage([name \in Mail!HeaderNames |-> Mail!Value(mails[i].headers, name)])
  BY <1>6, Zenon DEF MailGiven
<1>. QED BY <1>7, Zenon DEF Mail!IsAutoGenerated, Mail!MailgunHeaders, Mail!PostmarkHeaders

\* A mail is posted to the other side's webhook, which may answer it.
LEMMA ReceiveKeeps == ASSUME MailGiven, MailIInv, NEW i \in DOMAIN mails, Mail!Receive(i) PROVE MailIInv'
<1>t. MailTyped /\ MailsAreJobs /\ TriesCounted /\ AnswersCounted BY DEF MailIInv
<1>p. Mail!LoopsEnd /\ Mail!CopiesHaveACause /\ Mail!NothingDropped BY DEF MailIInv
<1>n. DOMAIN mailJobs = 1..Len(mailJobs) /\ DOMAIN mails = 1..Len(mails) /\ Len(mailJobs) \in Nat /\ Len(mails) \in Nat BY <1>t DEF MailTyped
<1>i. mails[i] \in MailSent /\ mails[i].hook = "due" BY <1>t DEF MailTyped, Mail!Receive
<1>v. via' = via BY DEF Mail!Receive
<1>1. PICK request \in Mail!Request, heard \in BOOLEAN :
        /\ mails' = [mails EXCEPT ![i].hook = IF heard THEN "answered" ELSE "due", ![i].deliveries = @ + 1,
                       ![i].unheard = IF heard THEN @ ELSE @ + 1]
        /\ IF Mail!Parses(request) /\ ~Mail!IsAutoGenerated(mails[i])
           THEN LET side == Mail!Other(mails[i].by) IN
                mailJobs' = Append(mailJobs, Mail!Job(side, {"to", "text", "headers"}, MarkOf[side], i))
           ELSE UNCHANGED mailJobs
  BY Zenon DEF Mail!Receive
<1>2. PICK e \in MailSent :
        /\ mails' = [mails EXCEPT ![i] = e]
        /\ e.by = mails[i].by /\ e.fields = mails[i].fields /\ e.job = mails[i].job /\ e.answers = mails[i].answers /\ e.headers = mails[i].headers
        /\ e.hook = (IF heard THEN "answered" ELSE "due") /\ e.unheard = (IF heard THEN mails[i].unheard ELSE mails[i].unheard + 1)
  <2> DEFINE e == [mails[i] EXCEPT !.hook = IF heard THEN "answered" ELSE "due", !.deliveries = mails[i].deliveries + 1,
                     !.unheard = IF heard THEN mails[i].unheard ELSE mails[i].unheard + 1]
  <2>1. mails' = [mails EXCEPT ![i] = e] BY <1>1, <1>i DEF MailSent
  <2>2. /\ e.by = mails[i].by /\ e.fields = mails[i].fields /\ e.job = mails[i].job /\ e.answers = mails[i].answers /\ e.headers = mails[i].headers
        /\ e.hook = (IF heard THEN "answered" ELSE "due") /\ e.unheard = (IF heard THEN mails[i].unheard ELSE mails[i].unheard + 1)
    BY <1>i DEF MailSent
  <2>3. e \in MailSent
    <3>1. PICK x \in Nat : x = mails[i].deliveries + 1 BY <1>i DEF MailSent
    <3>2. PICK y \in Nat : y = IF heard THEN mails[i].unheard ELSE mails[i].unheard + 1 BY <1>i DEF MailSent
    <3>3. (IF heard THEN "answered" ELSE "due") \in {"kept", "due", "answered"} OBVIOUS
    <3>4. PICK h \in {"kept", "due", "answered"} : h = IF heard THEN "answered" ELSE "due" BY <3>3
    <3>5. e = [mails[i] EXCEPT !.hook = h, !.deliveries = x, !.unheard = y] BY <3>1, <3>2, <3>4
    <3> HIDE DEF e
    <3>. QED BY <1>i, <3>5 DEF MailSent
  <2> HIDE DEF e
  <2>. QED BY <2>1, <2>2, <2>3
<1>3. /\ mails' \in Seq(MailSent) /\ DOMAIN mails' = DOMAIN mails /\ mails'[i] = e
      /\ \A k \in DOMAIN mails : k # i => mails'[k] = mails[k]
  BY <1>2, <1>t DEF MailTyped
<1>4. \A k \in DOMAIN mails : /\ mails'[k].by = mails[k].by /\ mails'[k].fields = mails[k].fields /\ mails'[k].job = mails[k].job
                              /\ mails'[k].answers = mails[k].answers /\ mails'[k].headers = mails[k].headers
  BY <1>2, <1>3
<1>5. /\ mailJobs' \in Seq(MailJob) /\ DOMAIN mailJobs \subseteq DOMAIN mailJobs'
      /\ DOMAIN mailJobs' \subseteq DOMAIN mailJobs \cup {Len(mailJobs) + 1}
      /\ \A j \in DOMAIN mailJobs : mailJobs'[j] = mailJobs[j]
      /\ \A j \in DOMAIN mailJobs' : j \notin DOMAIN mailJobs =>
           /\ mailJobs'[j].answers = i /\ mailJobs'[j].headers = MarkOf[mailJobs'[j].by] /\ "headers" \in mailJobs'[j].message
           /\ mailJobs'[j].accepted = 0 /\ mailJobs'[j].unheard = 0 /\ mailJobs'[j].last.ok /\ mailJobs'[j].state = "queued"
           /\ ~Mail!IsAutoGenerated(mails[i])
  <2>1. CASE mailJobs' = mailJobs BY <1>t, <2>1 DEF MailTyped
  <2>2. CASE mailJobs' # mailJobs
    <3>1. PICK side : side = Mail!Other(mails[i].by) OBVIOUS
    <3>2. side \in Mail!Side
      <4>1. mails[i].by \in {"app", "peer"} BY <1>i DEF MailSent, Mail!Side
      <4>2. \E x \in Mail!Side : x # mails[i].by BY <4>1 DEF Mail!Side
      <4>. QED BY <3>1, <4>2 DEF Mail!Other
    <3>3. /\ mailJobs' = Append(mailJobs, Mail!Job(side, {"to", "text", "headers"}, MarkOf[side], i)) /\ ~Mail!IsAutoGenerated(mails[i])
      BY <1>1, <2>2, <3>1
    <3>4. Mail!Answered(202, {}) \in MailAnswer /\ Mail!Answered(202, {}).ok BY StatusesKnown
    <3>5. PICK v \in MailAnswer : v = Mail!Answered(202, {}) BY <3>4
    <3>6. PICK no \in BOOLEAN : ~no OBVIOUS
    <3>7. PICK b : b = Mail!Job(side, {"to", "text", "headers"}, MarkOf[side], i) OBVIOUS
    <3>8. b = [by |-> side, message |-> {"to", "text", "headers"}, headers |-> MarkOf[side], answers |-> i, state |-> "queued", attempts |-> 0,
               last |-> v, taken |-> no, accepted |-> 0, unheard |-> 0]
      BY <3>5, <3>6, <3>7 DEF Mail!Job
    <3>9. i \in Nat /\ MarkOf[side] \in HeaderLists /\ {"to", "text", "headers"} \in SUBSET Field BY <1>n, <3>2 DEF HeaderLists, Field
    <3>10. b \in MailJob BY <3>2, <3>8, <3>9 DEF MailJob
    <3>11. /\ mailJobs' \in Seq(MailJob) /\ DOMAIN mailJobs' = 1..(Len(mailJobs) + 1) /\ mailJobs'[Len(mailJobs) + 1] = b
           /\ \A j \in DOMAIN mailJobs : mailJobs'[j] = mailJobs[j]
      BY <1>t, <3>3, <3>7, <3>10 DEF MailTyped
    <3>12. /\ DOMAIN mailJobs \subseteq DOMAIN mailJobs'
           /\ \A j \in DOMAIN mailJobs' : j \in DOMAIN mailJobs \/ j = Len(mailJobs) + 1
      BY <1>n, <3>11
    <3>13. /\ b.answers = i /\ b.by = side /\ b.headers = MarkOf[side] /\ "headers" \in b.message /\ b.accepted = 0 /\ b.unheard = 0
           /\ b.last.ok /\ b.state = "queued"
      BY <3>4, <3>5, <3>8
    <3>. QED BY <3>3, <3>11, <3>12, <3>13
  <2>. QED BY <2>1, <2>2
<1>6. MailTyped'
  <2>1. \A k \in DOMAIN mails' : mails'[k].job \in DOMAIN mailJobs' BY <1>3, <1>4, <1>5, <1>t DEF MailTyped
  <2>2. \A j \in DOMAIN mailJobs' : mailJobs'[j].answers # 0 => mailJobs'[j].answers \in DOMAIN mails' BY <1>3, <1>5, <1>t DEF MailTyped
  <2>. QED BY <1>3, <1>5, <1>t, <1>v, <2>1, <2>2 DEF MailTyped
<1>7. MailsAreJobs'
  <2>1. \A k \in DOMAIN mails : /\ mails[k].job \in DOMAIN mailJobs /\ mailJobs'[mails[k].job] = mailJobs[mails[k].job] BY <1>5, <1>t DEF MailTyped
  <2>2. \A k \in DOMAIN mails' : /\ mails'[k].by = mailJobs'[mails'[k].job].by /\ mails'[k].answers = mailJobs'[mails'[k].job].answers
                                 /\ mails'[k].headers = IF "headers" \in mails'[k].fields THEN mailJobs'[mails'[k].job].headers ELSE <<>>
    BY <1>3, <1>4, <1>t, <2>1 DEF MailsAreJobs
  <2>3. \A j \in DOMAIN mailJobs' : mailJobs'[j].answers # 0 =>
          mailJobs'[j].headers = MarkOf[mailJobs'[j].by] /\ "headers" \in mailJobs'[j].message
    BY <1>5, <1>t DEF MailsAreJobs
  <2>. QED BY <2>2, <2>3 DEF MailsAreJobs
<1>8. TriesCounted'
  <2>1. \A j \in DOMAIN mailJobs' : mailJobs'[j].state # "sent" => mailJobs'[j].accepted <= mailJobs'[j].unheard
    BY <1>5, <1>t DEF TriesCounted
  <2>. QED BY <2>1 DEF TriesCounted
<1>9. Mail!CopiesHaveACause'
  <2>1. \A j \in DOMAIN mailJobs' :
          /\ mailJobs'[j].accepted <= 1 + mailJobs'[j].unheard
          /\ mailJobs'[j].state = "sent" => mailJobs'[j].accepted > 0
          /\ ~mailJobs'[j].last.ok /\ ~mailJobs'[j].last.retryable => ~mailJobs'[j].taken
    <3> SUFFICES ASSUME NEW j \in DOMAIN mailJobs'
                 PROVE  /\ mailJobs'[j].accepted <= 1 + mailJobs'[j].unheard
                        /\ mailJobs'[j].state = "sent" => mailJobs'[j].accepted > 0
                        /\ ~mailJobs'[j].last.ok /\ ~mailJobs'[j].last.retryable => ~mailJobs'[j].taken
      OBVIOUS
    <3>1. CASE j \in DOMAIN mailJobs BY <1>5, <1>p, <3>1 DEF Mail!CopiesHaveACause
    <3>2. CASE j \notin DOMAIN mailJobs BY <1>5, <3>2
    <3>. QED BY <3>1, <3>2
  <2>. QED BY <2>1 DEF Mail!CopiesHaveACause
<1>10. AnswersCounted'
  <2> SUFFICES ASSUME NEW k \in DOMAIN mails
               PROVE  Cardinality(MailAnswers(k)') <= IF mails'[k].hook = "answered" THEN 1 + mails'[k].unheard ELSE mails'[k].unheard
    BY <1>3 DEF AnswersCounted
  <2>1. MailAnswers(k)' = MailAnswers(k) \/ (k = i /\ MailAnswers(k)' = MailAnswers(k) \cup {Len(mailJobs) + 1}) BY <1>5 DEF MailAnswers
  <2>2. IsFiniteSet(MailAnswers(k)) /\ Cardinality(MailAnswers(k)) \in Nat
    <3>1. IsFiniteSet(1..Len(mailJobs)) BY <1>n, FS_Interval
    <3>2. MailAnswers(k) \subseteq 1..Len(mailJobs) BY <1>n DEF MailAnswers
    <3>. QED BY <3>1, <3>2, FS_Subset, FS_CardinalityType
  <2>3. PICK c \in Nat : c = Cardinality(MailAnswers(k)) BY <2>2
  <2>4. CASE k # i BY <1>3, <1>t, <2>1, <2>4 DEF AnswersCounted
  <2>5. CASE k = i
    <3>1. PICK u \in Nat : u = mails[i].unheard BY <1>i DEF MailSent
    <3>2. c <= u BY <1>i, <1>t, <2>3, <2>5, <3>1 DEF AnswersCounted
    <3>3. Cardinality(MailAnswers(k)') = c \/ Cardinality(MailAnswers(k)') = c + 1
      <4>1. Cardinality(MailAnswers(k) \cup {Len(mailJobs) + 1}) \in {c, c + 1} BY <2>2, <2>3, FS_AddElement
      <4>. QED BY <2>1, <2>3, <4>1
    <3>4. (mails'[k].hook = "answered" /\ mails'[k].unheard = u) \/ (mails'[k].hook = "due" /\ mails'[k].unheard = u + 1)
      BY <1>2, <1>3, <2>5, <3>1
    <3>. QED BY <3>2, <3>3, <3>4
  <2>. QED BY <2>4, <2>5
<1>11. Mail!LoopsEnd'
  <2> SUFFICES \A j \in DOMAIN mailJobs' : mailJobs'[j].answers # 0 /\ mails'[mailJobs'[j].answers].answers # 0 =>
                 via'[mails'[mailJobs'[j].answers].by] = "alibaba"
    BY DEF Mail!LoopsEnd
  <2> SUFFICES ASSUME NEW j \in DOMAIN mailJobs', mailJobs'[j].answers # 0, mails'[mailJobs'[j].answers].answers # 0
               PROVE  via[mails'[mailJobs'[j].answers].by] = "alibaba"
    BY <1>v
  <2>1. CASE j \in DOMAIN mailJobs
    <3>1. mailJobs[j].answers \in DOMAIN mails /\ mailJobs'[j] = mailJobs[j] BY <1>5, <1>t, <2>1 DEF MailTyped
    <3>. QED BY <1>4, <1>p, <2>1, <3>1 DEF Mail!LoopsEnd
  <2>2. CASE j \notin DOMAIN mailJobs
    <3>1. mailJobs'[j].answers = i /\ ~Mail!IsAutoGenerated(mails[i]) BY <1>5, <2>2
    <3>2. mails[i].answers # 0 /\ mails'[i].by = mails[i].by BY <1>4, <3>1
    <3>. QED BY <3>1, <3>2, AnswersAreMarked
  <2>. QED BY <2>1, <2>2
<1>12. Mail!NothingDropped'
  <2> SUFFICES \A k \in DOMAIN mails' :
                 /\ Mail!ApplyDefaultFrom(mailJobs'[mails'[k].job].message) \ mails'[k].fields
                       \subseteq {"secondReplyTo"} \cup (IF via'[mails'[k].by] = "alibaba" THEN {"headers"} ELSE {})
                 /\ via'[mails'[k].by] \notin Mail!Local => "from" \in mails'[k].fields
    BY DEF Mail!NothingDropped, Mail!ApplyDefaultFrom
  <2>1. \A k \in DOMAIN mails : mails[k].job \in DOMAIN mailJobs /\ mailJobs'[mails[k].job] = mailJobs[mails[k].job] BY <1>5, <1>t DEF MailTyped
  <2>. QED BY <1>3, <1>4, <1>p, <1>v, <2>1 DEF Mail!NothingDropped
<1>. QED BY <1>6, <1>7, <1>8, <1>9, <1>10, <1>11, <1>12 DEF MailIInv

\* LINE posts its batch, or posts it again.
LEMMA DeliverKeeps == ASSUME BatchIInv, Mail!Deliver PROVE BatchIInv'
<1>t. BatchTyped /\ Passed BY DEF BatchIInv
<1>1. batch.events # <<>> /\ batch.at = 0 /\ UNCHANGED <<tokens, handled>> BY DEF Mail!Deliver
<1>2. /\ batch' \in [events : Seq(STRING), at : Nat, deliveries : Nat] /\ batch'.events = batch.events
      /\ batch'.at = IF Mail!ParseLineWebhook(batch.events) = <<>> THEN 0 ELSE 1
  <2>1. PICK k \in Nat : k = batch.deliveries + 1 BY <1>t DEF BatchTyped
  <2>2. (IF Mail!ParseLineWebhook(batch.events) = <<>> THEN 0 ELSE 1) \in Nat OBVIOUS
  <2>3. PICK x \in Nat : x = IF Mail!ParseLineWebhook(batch.events) = <<>> THEN 0 ELSE 1 BY <2>2
  <2>4. batch' = [batch EXCEPT !.deliveries = k, !.at = x] BY <1>t, <2>1, <2>3 DEF Mail!Deliver, BatchTyped
  <2>. QED BY <1>t, <2>3, <2>4 DEF BatchTyped
<1>3. batch'.at # 0 => \A i \in DOMAIN batch.events : Mail!Readable(batch.events[i]) BY <1>2, Zenon DEF Mail!ParseLineWebhook
<1>4. \A i \in DOMAIN batch.events : ~(i < batch'.at)
  <2>1. DOMAIN batch.events = 1..Len(batch.events) /\ Len(batch.events) \in Nat BY <1>t DEF BatchTyped
  <2>2. batch'.at \in {0, 1} BY <1>2
  <2>. QED BY <2>1, <2>2
<1>5. \A k : Touched(k)' <=> Touched(k) BY <1>1 DEF Touched
<1>6. BatchTyped' BY <1>1, <1>2, <1>t DEF BatchTyped
<1>7. Passed'
  <2>1. batch'.at # 0 \/ (\E k \in DOMAIN batch.events : Touched(k)) => \A i \in DOMAIN batch.events : Mail!Readable(batch.events[i])
    BY <1>3, <1>t DEF Passed
  <2>2. \A i, k \in DOMAIN batch.events : i < k /\ Touched(k) => handled'[i] # 0 BY <1>1, <1>t DEF Passed
  <2>. QED BY <1>2, <1>4, <1>5, <2>1, <2>2 DEF Passed, Mail!Readable
<1>. QED BY <1>6, <1>7 DEF BatchIInv

\* The route handles the event it is at, or ends there.
LEMMA EventKeeps == ASSUME BatchIInv, Mail!HandleEvent PROVE BatchIInv'
<1>t. BatchTyped /\ Passed BY DEF BatchIInv
<1>1. PICK k \in DOMAIN batch.events : k = batch.at BY DEF Mail!HandleEvent
<1>2. DOMAIN batch.events = 1..Len(batch.events) /\ Len(batch.events) \in Nat BY <1>t DEF BatchTyped
<1>3. tokens' = tokens \/ (tokens' = [tokens EXCEPT ![k] = @ + 1] /\ ~(tokens[k] > 0)) BY <1>1 DEF Mail!HandleEvent
<1>4. \/ batch' = [batch EXCEPT !.at = 0] /\ handled' = handled
      \/ batch' = [batch EXCEPT !.at = batch.at + 1] /\ handled' = [handled EXCEPT ![k] = @ + 1]
  BY <1>1 DEF Mail!HandleEvent, Mail!Throws, Mail!Returns
<1>5. /\ tokens' \in [DOMAIN batch.events -> {0, 1}] /\ \A i \in DOMAIN batch.events : i # k => tokens'[i] = tokens[i]
  BY <1>3, <1>t DEF BatchTyped
<1>6. /\ handled' \in [DOMAIN batch.events -> Nat]
      /\ \A i \in DOMAIN batch.events : (handled[i] # 0 => handled'[i] # 0) /\ (i # k => handled'[i] = handled[i])
  BY <1>4, <1>t DEF BatchTyped
<1>7. /\ batch' \in [events : Seq(STRING), at : Nat, deliveries : Nat] /\ batch'.events = batch.events
      /\ batch'.at = 0 \/ (batch'.at = k + 1 /\ handled'[k] # 0)
  <2>1. PICK x \in Nat : x = batch.at + 1 BY <1>t DEF BatchTyped
  <2>2. CASE batch' = [batch EXCEPT !.at = 0] BY <1>t, <2>2 DEF BatchTyped
  <2>3. CASE batch' = [batch EXCEPT !.at = x] /\ handled' = [handled EXCEPT ![k] = @ + 1]
    <3>1. batch' \in [events : Seq(STRING), at : Nat, deliveries : Nat] /\ batch'.events = batch.events /\ batch'.at = x
      BY <1>t, <2>1, <2>3 DEF BatchTyped
    <3>2. handled'[k] # 0 BY <1>t, <2>3 DEF BatchTyped
    <3>. QED BY <1>1, <2>1, <3>1, <3>2
  <2>. QED BY <1>4, <2>1, <2>2, <2>3
<1>8. BatchTyped' BY <1>5, <1>6, <1>7 DEF BatchTyped
<1>9. batch.at # 0 BY <1>1, <1>2
<1>10. \A i \in DOMAIN batch.events : Mail!Readable(batch.events[i]) BY <1>9, <1>t DEF Passed
<1>11. \A i \in DOMAIN batch.events : i < k => handled[i] # 0 BY <1>1, <1>t DEF Passed
<1>12. \A i, j \in DOMAIN batch.events : i < j /\ Touched(j)' => handled'[i] # 0
  <2> SUFFICES ASSUME NEW i \in DOMAIN batch.events, NEW j \in DOMAIN batch.events, i < j, Touched(j)' PROVE handled'[i] # 0 OBVIOUS
  <2>1. CASE j = k BY <1>6, <1>11, <2>1
  <2>2. CASE j # k
    <3>1. Touched(j) BY <1>5, <1>6, <2>2 DEF Touched
    <3>. QED BY <1>6, <1>t, <3>1 DEF Passed
  <2>. QED BY <2>1, <2>2
<1>13. \A i \in DOMAIN batch.events : i < batch'.at => handled'[i] # 0
  <2>1. CASE batch'.at = 0 BY <1>2, <2>1
  <2>2. CASE batch'.at = k + 1 /\ handled'[k] # 0
    <3>1. \A i \in DOMAIN batch.events : i < k + 1 => i < k \/ i = k BY <1>2
    <3>. QED BY <1>6, <1>11, <2>2, <3>1
  <2>. QED BY <1>7, <2>1, <2>2
<1>14. Passed' BY <1>7, <1>10, <1>12, <1>13 DEF Passed, Mail!Readable
<1>. QED BY <1>8, <1>14 DEF BatchIInv

\* What LINE sees of the batch follows.
LEMMA BatchFollows == ASSUME BatchIInv PROVE Mail!BatchInOrder
<1>t. BatchTyped /\ Passed BY DEF BatchIInv
<1> SUFFICES ASSUME NEW i \in DOMAIN batch.events
             PROVE  /\ ~Mail!Readable(batch.events[i]) => \A k \in DOMAIN batch.events : tokens[k] + handled[k] = 0
                    /\ tokens[i] > handled[i] /\ batch.at # i => \A k \in DOMAIN batch.events : k > i => tokens[k] + handled[k] = 0
  BY Zenon DEF Mail!BatchInOrder
<1>1. ~Mail!Readable(batch.events[i]) => \A k \in DOMAIN batch.events : tokens[k] + handled[k] = 0 BY <1>t DEF Passed, Touched
<1>2. ASSUME tokens[i] > handled[i] PROVE \A k \in DOMAIN batch.events : k > i => tokens[k] + handled[k] = 0
  <2>1. handled[i] = 0
    <3>1. tokens[i] \in {0, 1} /\ handled[i] \in Nat BY <1>t DEF BatchTyped
    <3>2. PICK x \in {0, 1}, y \in Nat : x = tokens[i] /\ y = handled[i] BY <3>1
    <3>3. x > y BY <1>2, <3>2
    <3>. QED BY <3>2, <3>3
  <2>2. \A k \in DOMAIN batch.events : k > i => i < k BY <1>t DEF BatchTyped
  <2>. QED BY <1>t, <2>1, <2>2 DEF Passed, Touched
<1>. QED BY <1>1, <1>2

\* Each step keeps both.
LEMMA MailKept == ASSUME MailGiven, MailIInv /\ BatchIInv, [Mail!Next]_mailVars PROVE (MailIInv /\ BatchIInv)'
<1>m. ASSUME UNCHANGED <<via, mailJobs, mails>> PROVE MailIInv'
  <2>1. \A i : MailAnswers(i)' = MailAnswers(i) BY <1>m DEF MailAnswers
  <2>2. (MailTyped /\ MailsAreJobs /\ TriesCounted)' BY <1>m DEF MailIInv, MailTyped, MailsAreJobs, TriesCounted
  <2>3. AnswersCounted' BY <1>m, <2>1 DEF MailIInv, AnswersCounted
  <2>4. (Mail!LoopsEnd /\ Mail!CopiesHaveACause /\ Mail!NothingDropped)'
    BY <1>m DEF MailIInv, Mail!LoopsEnd, Mail!CopiesHaveACause, Mail!NothingDropped, Mail!ApplyDefaultFrom
  <2>. QED BY <2>2, <2>3, <2>4 DEF MailIInv
<1>b. ASSUME UNCHANGED <<batch, tokens, handled>> PROVE BatchIInv'
  BY <1>b DEF BatchIInv, BatchTyped, Passed, Touched, Mail!Readable
<1>1. ASSUME NEW m \in Mailables, Mail!Dispatch(m) PROVE (MailIInv /\ BatchIInv)'
  <2>1. UNCHANGED <<batch, tokens, handled>> BY <1>1 DEF Mail!Dispatch
  <2>. QED BY <1>1, <1>b, <2>1, DispatchKeeps
<1>2. ASSUME NEW j \in DOMAIN mailJobs, Mail!Handle(j) PROVE (MailIInv /\ BatchIInv)'
  <2>1. UNCHANGED <<batch, tokens, handled>> BY <1>2 DEF Mail!Handle
  <2>. QED BY <1>2, <1>b, <2>1, AttemptKeeps
<1>3. ASSUME NEW i \in DOMAIN mails, Mail!Receive(i) PROVE (MailIInv /\ BatchIInv)'
  <2>1. UNCHANGED <<batch, tokens, handled>> BY <1>3 DEF Mail!Receive
  <2>. QED BY <1>3, <1>b, <2>1, ReceiveKeeps
<1>4. CASE Mail!Deliver
  <2>1. UNCHANGED <<via, mailJobs, mails>> BY <1>4 DEF Mail!Deliver
  <2>. QED BY <1>4, <1>m, <2>1, DeliverKeeps
<1>5. CASE Mail!HandleEvent
  <2>1. UNCHANGED <<via, mailJobs, mails>> BY <1>5 DEF Mail!HandleEvent
  <2>. QED BY <1>5, <1>m, <2>1, EventKeeps
<1>6. CASE UNCHANGED mailVars
  <2>1. UNCHANGED <<via, mailJobs, mails>> /\ UNCHANGED <<batch, tokens, handled>> BY <1>6 DEF mailVars
  <2>. QED BY <1>b, <1>m, <2>1
<1>. QED BY <1>1, <1>2, <1>3, <1>4, <1>5, <1>6 DEF Mail!Next

\* Mailables, inbound mail and LINE's webhook: whatever the providers answer, lose or deliver
\* again, answers to answers need a transport that drops headers, each copy and each answer is
\* accounted for, no field goes missing, and a batch is handled in order.
THEOREM MailIsAnsweredOnce ==
  ASSUME MailGiven
  PROVE  Mail!Init /\ [][Mail!Next]_mailVars => []Mail!MailingInv
<1>1. Mail!Init => MailIInv /\ BatchIInv BY MailStarts
<1>2. (MailIInv /\ BatchIInv) /\ [Mail!Next]_mailVars => (MailIInv /\ BatchIInv)' BY MailKept
<1>3. MailIInv /\ BatchIInv => Mail!MailingInv
  <2> SUFFICES ASSUME MailIInv, BatchIInv PROVE Mail!MailingInv OBVIOUS
  <2>1. \A i \in DOMAIN mails : Cardinality(MailAnswers(i)) <= 1 + mails[i].unheard
    <3> SUFFICES ASSUME NEW i \in DOMAIN mails PROVE Cardinality(MailAnswers(i)) <= 1 + mails[i].unheard OBVIOUS
    <3>0. mails[i] \in MailSent BY DEF MailIInv, MailTyped
    <3>1. mails[i].unheard \in Nat BY <3>0 DEF MailSent
    <3>2. Cardinality(MailAnswers(i)) \in Nat
      <4>1. DOMAIN mailJobs = 1..Len(mailJobs) /\ Len(mailJobs) \in Nat BY DEF MailIInv, MailTyped
      <4>2. IsFiniteSet(1..Len(mailJobs)) /\ MailAnswers(i) \subseteq 1..Len(mailJobs) BY <4>1, FS_Interval DEF MailAnswers
      <4>. QED BY <4>2, FS_Subset, FS_CardinalityType
    <3>. QED BY <3>1, <3>2 DEF MailIInv, AnswersCounted
  <2>2. Mail!AnswersHaveACause
    <3>1. \A S : Mail!Cardinality(S) = Cardinality(S) BY Zenon DEF Mail!Cardinality, Cardinality
    <3>. QED BY <2>1, <3>1 DEF Mail!AnswersHaveACause, MailAnswers
  <2>3. Mail!BatchInOrder BY BatchFollows
  <2>. QED BY <2>2, <2>3 DEF MailIInv, Mail!MailingInv
<1>. QED BY <1>1, <1>2, <1>3, PTL

(***************************************************************************)
(* Social sign-in.                                                         *)
(***************************************************************************)
\* The drivers there are, finitely many tabs, each of a session.
SocialGiven ==
    /\ Provider \subseteq {"google", "facebook", "line", "mock"} /\ IsFiniteSet(Tab) /\ SessionOf \in [Tab -> Session]

ScopeName == {"openid", "profile", "email", "public_profile"}
CodeRow == [of : Identity, state : Nat, verifier : Nat, scopes : SUBSET ScopeName, offline : BOOLEAN, used : BOOLEAN]
TokenSet == [of : Identity, live : BOOLEAN, refresh : Nat]
LinkRow == [id : Nat, tenant : Branch \cup {"all"}, user : User, identity : Identity, access : Nat, refresh : Nat, by : {"connect", "refresh"}]
SocialTyped ==
    /\ provider \in {"google", "facebook", "line", "mock"} /\ DOMAIN actor = Tab
    /\ session \in [Session -> [state : Nat, verifier : Nat]]
    /\ codes \in Seq(CodeRow) /\ issued \in Seq(TokenSet) /\ links \subseteq LinkRow
    /\ flows \in Nat /\ nextId \in Nat

\* A code is the flow it was handed out in; what a session remembers is a flow of its own, and at
\* the mock driver one whose code was not used.
FlowsInOrder ==
    /\ Len(codes) = flows /\ \A k \in DOMAIN codes : codes[k].state = k
    /\ \A s \in Session : session[s].state <= flows
    /\ \A a \in Tab : actor[a].at = "back" =>
         actor[a].code \in DOMAIN codes /\ \A s \in Session : session[s].state = actor[a].code => s = SessionOf[a]
    /\ provider = "mock" => \A s \in Session : session[s].state # 0 => ~codes[session[s].state].used

\* Two tokens that belong together, by driver and what was issued and withdrawn: they are one
\* identity's, and where the refresh token is no longer taken the access token is not either.
Paired(t, by, sets, revoked) ==
    /\ t.access \in DOMAIN sets /\ t.refresh \in DOMAIN sets \cup {0}
    /\ t.refresh # 0 => sets[t.refresh].of = sets[t.access].of
    /\ t.refresh \in revoked => ~sets[t.access].live
    /\ by = "mock" => t.refresh = t.access
TokensIssued ==
    /\ \A k \in DOMAIN issued :
         /\ issued[k].refresh \in DOMAIN issued \cup {0}
         /\ issued[k].refresh # 0 => issued[issued[k].refresh].of = issued[k].of
         /\ provider = "mock" => issued[k].refresh = k
    /\ dead \subseteq DOMAIN issued

\* What a tab or a job goes by is still so when it writes.
HoldsTokens(x) == x.at \in {"exchanged", "known", "found", "refreshed"}
ActorsHold ==
    \A a \in Tab :
      /\ actor[a].at \in {"idle", "back", "exchanged", "known", "found", "refreshed"}
      /\ HoldsTokens(actor[a]) => Paired(actor[a].tokens, provider, issued, dead)
      /\ actor[a].at \in {"back", "exchanged", "known", "found"} => actor[a].tenant \in Branch \cup {"all"}
      /\ actor[a].at \in {"known", "found"} => actor[a].identity = issued[actor[a].tokens.access].of
      /\ actor[a].at = "found" =>
           /\ actor[a].user \in User
           /\ \A r \in actor[a].rows : r.id \in Nat /\ r.id < nextId /\ \A o \in links : o.id = r.id => o.identity = actor[a].identity
      /\ actor[a].at = "refreshed" =>
           /\ actor[a].id \in Nat /\ actor[a].id < nextId /\ (provider # "facebook" => actor[a].tokens.refresh # 0)
           /\ \A o \in links : o.id = actor[a].id => o.identity = issued[actor[a].tokens.access].of
LinksHold ==
    \A r \in links :
      /\ Paired(r, provider, issued, dead) /\ issued[r.access].of = r.identity /\ r.id < nextId
      /\ provider # "facebook" /\ r.by = "refresh" => r.refresh # 0
      /\ \A o \in links : o # r => o.id # r.id /\ o.user # r.user /\ (o.tenant = r.tenant => o.identity # r.identity)

\* A code is used up for each tab that holds an answer.
Answering == {a \in Tab : actor[a].at \in {"exchanged", "known", "found"}}
UsedUp == {k \in DOMAIN codes : codes[k].used}
CodesUsedUp == Cardinality(Answering) <= Cardinality(UsedUp)

SocialIInv == SocialTyped /\ FlowsInOrder /\ TokensIssued /\ ActorsHold /\ LinksHold /\ CodesUsedUp

\* Before the first flow.
LEMMA SocialStarts == ASSUME SocialGiven, Social!Init PROVE SocialIInv
<1>1. /\ provider \in {"google", "facebook", "line", "mock"} /\ codes = <<>> /\ issued = <<>> /\ dead = {} /\ links = {} /\ flows = 0 /\ nextId = 1
      /\ session = [s \in Session |-> [state |-> 0, verifier |-> 0]]
  BY DEF SocialGiven, Social!Init
<1>2. actor = [a \in Tab |-> Social!Idle] BY DEF Social!Init
<1>3. \A a \in Tab : actor[a].at = "idle" BY <1>2 DEF Social!Idle
<1>4. /\ DOMAIN codes = {} /\ DOMAIN issued = {} /\ Len(codes) = 0 /\ codes \in Seq(CodeRow) /\ issued \in Seq(TokenSet) BY <1>1
<1>5. SocialTyped BY <1>1, <1>2, <1>4 DEF SocialTyped
<1>6. FlowsInOrder BY <1>1, <1>3, <1>4 DEF FlowsInOrder
<1>7. TokensIssued /\ ActorsHold /\ LinksHold BY <1>1, <1>3, <1>4 DEF TokensIssued, ActorsHold, HoldsTokens, LinksHold
<1>8. Answering = {} /\ UsedUp = {} BY <1>3, <1>4 DEF Answering, UsedUp
<1>9. Cardinality({}) = 0 BY FS_EmptySet
<1>. QED BY <1>5, <1>6, <1>7, <1>8, <1>9 DEF SocialIInv, CodesUsedUp

\* What is issued stays whose it is, and no token comes back.
Grows ==
    /\ DOMAIN issued \subseteq DOMAIN issued'
    /\ \A k \in DOMAIN issued : /\ issued'[k].of = issued[k].of /\ issued'[k].refresh = issued[k].refresh
                                /\ issued'[k].live => issued[k].live
    /\ \A t : Paired(t, provider, issued, dead) /\ t.refresh \in dead' => ~issued'[t.access].live

\* So two tokens that belong together still do.
LEMMA PairsStay ==
  ASSUME SocialTyped, Grows, provider' = provider
  PROVE  \A t : Paired(t, provider, issued, dead) => Paired(t, provider', issued', dead') /\ issued'[t.access].of = issued[t.access].of
<1> SUFFICES ASSUME NEW t, Paired(t, provider, issued, dead)
             PROVE  Paired(t, provider, issued', dead') /\ issued'[t.access].of = issued[t.access].of
  OBVIOUS
<1>1. t.access \in DOMAIN issued /\ t.refresh \in DOMAIN issued \cup {0} BY DEF Paired
<1>2. t.refresh \in dead' => ~issued'[t.access].live BY DEF Grows
<1>3. issued'[t.access].of = issued[t.access].of BY <1>1 DEF Grows
<1>4. t.refresh # 0 => issued'[t.refresh].of = issued'[t.access].of BY <1>1, <1>3 DEF Grows, Paired
<1>. QED BY <1>1, <1>2, <1>3, <1>4 DEF Grows, Paired

\* Links and tabs keep what they hold when more is issued or withdrawn and the rows stay.
LEMMA HoldersStay ==
  ASSUME SocialIInv, Grows, UNCHANGED <<provider, links, nextId>>
  PROVE  /\ LinksHold'
         /\ \A a \in Tab : actor'[a] = actor[a] =>
              /\ HoldsTokens(actor'[a]) => Paired(actor'[a].tokens, provider', issued', dead')
              /\ actor'[a].at \in {"known", "found"} => actor'[a].identity = issued'[actor'[a].tokens.access].of
              /\ actor'[a].at = "refreshed" => \A o \in links' : o.id = actor'[a].id => o.identity = issued'[actor'[a].tokens.access].of
<1>i. SocialTyped /\ ActorsHold /\ LinksHold BY DEF SocialIInv
<1>1. \A t : Paired(t, provider, issued, dead) => Paired(t, provider', issued', dead') /\ issued'[t.access].of = issued[t.access].of
  BY <1>i, PairsStay
<1>2. LinksHold'
  <2> SUFFICES ASSUME NEW r \in links
               PROVE  /\ Paired(r, provider', issued', dead') /\ issued'[r.access].of = r.identity /\ r.id < nextId
                      /\ provider # "facebook" /\ r.by = "refresh" => r.refresh # 0
                      /\ \A o \in links : o # r => o.id # r.id /\ o.user # r.user /\ (o.tenant = r.tenant => o.identity # r.identity)
    BY DEF LinksHold
  <2>. QED BY <1>1, <1>i DEF LinksHold
<1>3. ASSUME NEW a \in Tab, actor'[a] = actor[a]
      PROVE  /\ HoldsTokens(actor'[a]) => Paired(actor'[a].tokens, provider', issued', dead')
             /\ actor'[a].at \in {"known", "found"} => actor'[a].identity = issued'[actor'[a].tokens.access].of
             /\ actor'[a].at = "refreshed" => \A o \in links' : o.id = actor'[a].id => o.identity = issued'[actor'[a].tokens.access].of
  <2>1. PICK x : x = actor[a] OBVIOUS
  <2>2. HoldsTokens(x) => Paired(x.tokens, provider, issued, dead) BY <1>i, <2>1 DEF ActorsHold
  <2>3. HoldsTokens(x) => Paired(x.tokens, provider', issued', dead') /\ issued'[x.tokens.access].of = issued[x.tokens.access].of
    BY <1>1, <2>2
  <2>4. x.at \in {"known", "found"} => HoldsTokens(x) /\ x.identity = issued[x.tokens.access].of BY <1>i, <2>1 DEF ActorsHold, HoldsTokens
  <2>5. x.at = "refreshed" => HoldsTokens(x) /\ \A o \in links : o.id = x.id => o.identity = issued[x.tokens.access].of
    BY <1>i, <2>1 DEF ActorsHold, HoldsTokens
  <2>. QED BY <1>3, <2>1, <2>3, <2>4, <2>5
<1>. QED BY <1>2, <1>3

\* What a step leaves alone.
LEMMA SocialRests ==
  ASSUME SocialIInv, UNCHANGED <<provider, issued, dead>>
  PROVE  TokensIssued'
BY DEF SocialIInv, TokensIssued

\* Tabs that hold no answer they did not hold before, no code coming back.
LEMMA CountsStay ==
  ASSUME SocialGiven, SocialIInv, UNCHANGED codes, Answering' \subseteq Answering
  PROVE  CodesUsedUp'
<1>1. IsFiniteSet(Answering) BY FS_Subset DEF SocialGiven, Answering
<1>2. Cardinality(Answering') <= Cardinality(Answering) /\ Cardinality(Answering) \in Nat /\ Cardinality(Answering') \in Nat
  BY <1>1, FS_Subset, FS_CardinalityType
<1>3. UsedUp' = UsedUp BY DEF UsedUp
<1>4. UsedUp \subseteq 1..Len(codes) /\ Len(codes) \in Nat BY DEF SocialIInv, SocialTyped, UsedUp
<1>5. Cardinality(UsedUp) \in Nat
  <2>1. IsFiniteSet(1..Len(codes)) BY <1>4, FS_Interval
  <2>2. IsFiniteSet(UsedUp) BY <1>4, <2>1, FS_Subset
  <2>. QED BY <2>2, FS_CardinalityType
<1>. QED BY <1>2, <1>3, <1>5 DEF SocialIInv, CodesUsedUp

\* Nothing is issued, nothing withdrawn.
LEMMA NothingWithdrawn == ASSUME UNCHANGED <<issued, dead>> PROVE Grows
BY DEF Grows, Paired

\* A tab moves while the rows stay.
LEMMA ActorMoves ==
  ASSUME SocialIInv, Grows, UNCHANGED <<provider, links, nextId>>, NEW a \in Tab, NEW v,
         DOMAIN actor' = Tab, \A b \in Tab : actor'[b] = IF b = a THEN v ELSE actor[b],
         v.at \in {"idle", "back", "exchanged", "known", "found", "refreshed"},
         HoldsTokens(v) => Paired(v.tokens, provider, issued', dead'),
         v.at \in {"back", "exchanged", "known", "found"} => v.tenant \in Branch \cup {"all"},
         v.at \in {"known", "found"} => v.identity = issued'[v.tokens.access].of,
         v.at = "found" =>
           v.user \in User /\ \A r \in v.rows : r.id \in Nat /\ r.id < nextId /\ \A o \in links : o.id = r.id => o.identity = v.identity,
         v.at = "refreshed" =>
           /\ v.id \in Nat /\ v.id < nextId /\ (provider # "facebook" => v.tokens.refresh # 0)
           /\ \A o \in links : o.id = v.id => o.identity = issued'[v.tokens.access].of
  PROVE  DOMAIN actor' = Tab /\ ActorsHold' /\ LinksHold'
<1>1. DOMAIN actor' = Tab /\ actor'[a] = v /\ \A b \in Tab : b # a => actor'[b] = actor[b] OBVIOUS
<1>2. LinksHold' BY HoldersStay
<1>3. ActorsHold'
  <2> SUFFICES ASSUME NEW b \in Tab
               PROVE  /\ actor'[b].at \in {"idle", "back", "exchanged", "known", "found", "refreshed"}
                      /\ HoldsTokens(actor'[b]) => Paired(actor'[b].tokens, provider', issued', dead')
                      /\ actor'[b].at \in {"back", "exchanged", "known", "found"} => actor'[b].tenant \in Branch \cup {"all"}
                      /\ actor'[b].at \in {"known", "found"} => actor'[b].identity = issued'[actor'[b].tokens.access].of
                      /\ actor'[b].at = "found" =>
                           /\ actor'[b].user \in User
                           /\ \A r \in actor'[b].rows : r.id \in Nat /\ r.id < nextId' /\ \A o \in links' : o.id = r.id => o.identity = actor'[b].identity
                      /\ actor'[b].at = "refreshed" =>
                           /\ actor'[b].id \in Nat /\ actor'[b].id < nextId' /\ (provider' # "facebook" => actor'[b].tokens.refresh # 0)
                           /\ \A o \in links' : o.id = actor'[b].id => o.identity = issued'[actor'[b].tokens.access].of
    BY Zenon DEF ActorsHold, HoldsTokens
  <2>1. CASE b = a BY <1>1, <2>1
  <2>2. CASE b # a
    <3>1. actor'[b] = actor[b] BY <1>1, <2>2
    <3>2. /\ HoldsTokens(actor'[b]) => Paired(actor'[b].tokens, provider', issued', dead')
          /\ actor'[b].at \in {"known", "found"} => actor'[b].identity = issued'[actor'[b].tokens.access].of
          /\ actor'[b].at = "refreshed" => \A o \in links' : o.id = actor'[b].id => o.identity = issued'[actor'[b].tokens.access].of
      BY <3>1, HoldersStay
    <3>. QED BY <3>1, <3>2 DEF SocialIInv, ActorsHold
  <2>. QED BY <2>1, <2>2
<1>. QED BY <1>1, <1>2, <1>3

\* Rows change and the tokens stay: a row keeps its identity, or is new.
LEMMA HoldersSee ==
  ASSUME SocialIInv, UNCHANGED <<provider, issued, dead>>, nextId' \in {nextId, nextId + 1},
         \A o \in links' : o.id = nextId \/ \E p \in links : p.id = o.id /\ p.identity = o.identity,
         \A b \in Tab : actor'[b] = actor[b] \/ actor'[b].at = "idle"
  PROVE  ActorsHold'
<1>n. nextId \in Nat BY DEF SocialIInv, SocialTyped
<1> SUFFICES ASSUME NEW b \in Tab, actor'[b] = actor[b]
             PROVE  /\ actor'[b].at = "found" =>
                         \A r \in actor'[b].rows : r.id \in Nat /\ r.id < nextId' /\ \A o \in links' : o.id = r.id => o.identity = actor'[b].identity
                    /\ actor'[b].at = "refreshed" =>
                         /\ actor'[b].id \in Nat /\ actor'[b].id < nextId'
                         /\ \A o \in links' : o.id = actor'[b].id => o.identity = issued'[actor'[b].tokens.access].of
  BY DEF SocialIInv, ActorsHold, HoldsTokens
<1>1. PICK x : x = actor[b] OBVIOUS
<1>2. ASSUME NEW i \in Nat, i < nextId PROVE i < nextId' /\ i # nextId BY <1>n, <1>2
<1>3. ASSUME NEW i \in Nat, i < nextId, NEW y, \A o \in links : o.id = i => o.identity = y PROVE \A o \in links' : o.id = i => o.identity = y
  BY <1>2, <1>3
<1>4. x.at = "found" => \A r \in x.rows : r.id \in Nat /\ r.id < nextId /\ \A o \in links : o.id = r.id => o.identity = x.identity
  BY <1>1 DEF SocialIInv, ActorsHold
<1>5. x.at = "refreshed" => x.id \in Nat /\ x.id < nextId /\ \A o \in links : o.id = x.id => o.identity = issued[x.tokens.access].of
  BY <1>1 DEF SocialIInv, ActorsHold
<1>6. x.at = "found" => \A r \in x.rows : r.id \in Nat /\ r.id < nextId' /\ \A o \in links' : o.id = r.id => o.identity = x.identity
  BY <1>2, <1>3, <1>4
<1>7. x.at = "refreshed" => x.id \in Nat /\ x.id < nextId' /\ \A o \in links' : o.id = x.id => o.identity = issued[x.tokens.access].of
  BY <1>2, <1>3, <1>5
<1>. QED BY <1>1, <1>6, <1>7

\* What the session, the codes and the tabs agree on.
LEMMA FlowsRest ==
  ASSUME SocialIInv, UNCHANGED <<provider, codes, session, flows>>,
         \A a \in Tab : actor'[a].at = "back" => actor'[a] = actor[a]
  PROVE  FlowsInOrder'
BY DEF SocialIInv, FlowsInOrder

\* A flow starts.
LEMMA AuthorizeKnown ==
  ASSUME SocialIInv, NEW n \in Nat, NEW i \in Identity
  PROVE  \E c \in CodeRow : /\ c.state = n /\ ~c.used
                            /\ c = [of |-> i, state |-> Social!Authorize(n).state, verifier |-> Social!Authorize(n).verifier,
                                    scopes |-> Social!Authorize(n).scopes, offline |-> Social!Authorize(n).offline, used |-> FALSE]
                            /\ Social!Authorize(n).state = n /\ Social!Authorize(n).verifier \in Nat
<1>p. provider \in {"google", "facebook", "line", "mock"} BY DEF SocialIInv, SocialTyped
<1> DEFINE on == "online" \notin extra
<1>1. on \in BOOLEAN OBVIOUS
<1>2. PICK v \in Nat : v = IF "no_pkce" \in extra THEN 0 ELSE n OBVIOUS
<1>3. PICK yes \in BOOLEAN, no \in BOOLEAN : yes /\ ~no OBVIOUS
<1>4. \E w \in {v, n}, z \in SUBSET ScopeName, o \in BOOLEAN : Social!Authorize(n) = [state |-> n, verifier |-> w, scopes |-> z, offline |-> o]
  <2>1. CASE provider = "google"
    <3>1. Social!Authorize(n) = [state |-> n, verifier |-> v, scopes |-> {"openid", "profile", "email"}, offline |-> on]
      BY <1>2, <2>1, Zenon DEF Social!Authorize, Social!GoogleAuthorize
    <3>2. {"openid", "profile", "email"} \in SUBSET ScopeName /\ v \in {v, n} BY DEF ScopeName
    <3> HIDE DEF on
    <3>. QED BY <1>1, <3>1, <3>2, Zenon
  <2>2. CASE provider = "facebook"
    <3>1. Social!Authorize(n) = [state |-> n, verifier |-> v, scopes |-> {"public_profile"}, offline |-> no]
      BY <1>2, <1>3, <2>2 DEF Social!Authorize, Social!FacebookAuthorize
    <3>2. {"public_profile"} \in SUBSET ScopeName /\ v \in {v, n} BY DEF ScopeName
    <3>. QED BY <3>1, <3>2, Zenon
  <2>3. CASE provider = "line"
    <3>1. Social!Authorize(n) = [state |-> n, verifier |-> v, scopes |-> {"profile"}, offline |-> yes]
      BY <1>2, <1>3, <2>3 DEF Social!Authorize, Social!LineAuthorize
    <3>2. {"profile"} \in SUBSET ScopeName /\ v \in {v, n} BY DEF ScopeName
    <3>. QED BY <3>1, <3>2, Zenon
  <2>4. CASE provider = "mock"
    <3>1. Social!Authorize(n) = [state |-> n, verifier |-> n, scopes |-> {"profile"}, offline |-> yes]
      BY <1>2, <1>3, <2>4 DEF Social!Authorize, Social!MockAuthorize
    <3>2. {"profile"} \in SUBSET ScopeName /\ n \in {v, n} BY DEF ScopeName
    <3>. QED BY <3>1, <3>2, Zenon
  <2>. QED BY <1>p, <2>1, <2>2, <2>3, <2>4
<1>5. PICK w \in Nat, z \in SUBSET ScopeName, o \in BOOLEAN : Social!Authorize(n) = [state |-> n, verifier |-> w, scopes |-> z, offline |-> o]
  BY <1>2, <1>4
<1> HIDE DEF on
<1>6. PICK c : c = [of |-> i, state |-> n, verifier |-> w, scopes |-> z, offline |-> o, used |-> no] OBVIOUS
<1>7. c \in CodeRow /\ c.state = n /\ ~c.used BY <1>3, <1>6 DEF CodeRow
<1>8. Social!Authorize(n).state = n /\ Social!Authorize(n).verifier = w /\ Social!Authorize(n).scopes = z /\ Social!Authorize(n).offline = o BY <1>5
<1>9. c = [of |-> i, state |-> Social!Authorize(n).state, verifier |-> Social!Authorize(n).verifier,
           scopes |-> Social!Authorize(n).scopes, offline |-> Social!Authorize(n).offline, used |-> FALSE]
  BY <1>3, <1>6, <1>8
<1>. QED BY <1>7, <1>8, <1>9

\* The session remembers the new flow, and its code is the flow's.
LEMMA StartKeeps == ASSUME SocialGiven, SocialIInv, NEW a \in Tab, Social!Start(a) PROVE SocialIInv'
<1>i. SocialTyped /\ FlowsInOrder /\ TokensIssued /\ ActorsHold /\ LinksHold BY DEF SocialIInv
<1>0. actor[a].at = "idle" /\ flows' = flows + 1 /\ UNCHANGED <<provider, issued, dead, links, nextId>> BY DEF Social!Start
<1>n. flows \in Nat /\ flows' \in Nat /\ flows' # 0 /\ flows < flows' BY <1>0, <1>i DEF SocialTyped
<1>1. PICK i \in Identity, tenant \in Social!Scope :
        /\ session' = [session EXCEPT ![SessionOf[a]] = [state |-> Social!Authorize(flows').state, verifier |-> Social!Authorize(flows').verifier]]
        /\ codes' = Append(codes, [of |-> i, state |-> Social!Authorize(flows').state, verifier |-> Social!Authorize(flows').verifier,
                                   scopes |-> Social!Authorize(flows').scopes, offline |-> Social!Authorize(flows').offline, used |-> FALSE])
        /\ actor' = [actor EXCEPT ![a] = [at |-> "back", code |-> flows', tenant |-> tenant]]
  BY Zenon DEF Social!Start, Social!Becomes
<1>2. PICK n \in Nat : n = flows' BY <1>n
<1>3. PICK c \in CodeRow :
        /\ c.state = n /\ ~c.used
        /\ c = [of |-> i, state |-> Social!Authorize(n).state, verifier |-> Social!Authorize(n).verifier,
                scopes |-> Social!Authorize(n).scopes, offline |-> Social!Authorize(n).offline, used |-> FALSE]
        /\ Social!Authorize(n).state = n /\ Social!Authorize(n).verifier \in Nat
  BY AuthorizeKnown
<1>4. codes' = Append(codes, c) BY <1>1, <1>2, <1>3
<1>5. PICK w \in Nat : session' = [session EXCEPT ![SessionOf[a]] = [state |-> n, verifier |-> w]] BY <1>1, <1>2, <1>3
<1>6. /\ codes' \in Seq(CodeRow) /\ Len(codes') = n /\ DOMAIN codes = 1..Len(codes) /\ DOMAIN codes' = 1..n /\ codes'[n] = c
      /\ \A k \in DOMAIN codes : codes'[k] = codes[k]
  BY <1>0, <1>2, <1>4, <1>i DEF SocialTyped, FlowsInOrder
<1>c. DOMAIN codes \subseteq DOMAIN codes' /\ n \in DOMAIN codes' /\ n \notin DOMAIN codes /\ \A k \in DOMAIN codes' : k \in DOMAIN codes \/ k = n
  BY <1>0, <1>2, <1>6, <1>i, <1>n DEF FlowsInOrder
<1>7. /\ session' \in [Session -> [state : Nat, verifier : Nat]]
      /\ \A s \in Session : session'[s].state = IF s = SessionOf[a] THEN n ELSE session[s].state
  BY <1>5, <1>i DEF SocialTyped
<1>8. PICK v : v = [at |-> "back", code |-> n, tenant |-> tenant] OBVIOUS
<1>9. v.at = "back" /\ v.code = n /\ v.tenant \in Branch \cup {"all"} BY <1>8 DEF Social!Scope
<1>10. actor' = [actor EXCEPT ![a] = v] BY <1>1, <1>2, <1>8
<1>13. DOMAIN actor' = Tab /\ \A b \in Tab : actor'[b] = IF b = a THEN v ELSE actor[b] BY <1>10, <1>i DEF SocialTyped
<1>11. DOMAIN actor' = Tab /\ ActorsHold' /\ LinksHold'
  <2>1. Grows BY <1>0, NothingWithdrawn
  <2>2. ~HoldsTokens(v) BY <1>9 DEF HoldsTokens
  <2>. QED BY <1>0, <1>9, <1>13, <2>1, <2>2, ActorMoves
<1>12. SocialTyped' BY <1>0, <1>6, <1>7, <1>11, <1>i, <1>n DEF SocialTyped
<1>14. FlowsInOrder'
  <2>1. \A k \in DOMAIN codes' : codes'[k].state = k BY <1>3, <1>6, <1>c, <1>i DEF FlowsInOrder
  <2>2. \A s \in Session : session[s].state \in Nat /\ session[s].state <= flows BY <1>i DEF SocialTyped, FlowsInOrder
  <2>3. \A s \in Session : session'[s].state <= flows' BY <1>2, <1>7, <1>n, <2>2
  <2>4. ASSUME NEW b \in Tab, actor'[b].at = "back"
        PROVE  actor'[b].code \in DOMAIN codes' /\ \A s \in Session : session'[s].state = actor'[b].code => s = SessionOf[b]
    <3>1. CASE b = a
      <4>1. \A s \in Session : session[s].state # n BY <1>2, <1>n, <2>2
      <4>. QED BY <1>7, <1>9, <1>13, <1>c, <3>1, <4>1
    <3>2. CASE b # a
      <4>1. actor'[b] = actor[b] /\ actor[b].at = "back" BY <1>13, <2>4, <3>2
      <4>2. actor[b].code \in DOMAIN codes /\ \A s \in Session : session[s].state = actor[b].code => s = SessionOf[b] BY <1>i, <4>1 DEF FlowsInOrder
      <4>. QED BY <1>7, <1>c, <4>1, <4>2
    <3>. QED BY <3>1, <3>2
  <2>5. ASSUME provider = "mock", NEW s \in Session, session'[s].state # 0 PROVE ~codes'[session'[s].state].used
    <3>1. CASE s = SessionOf[a] BY <1>3, <1>6, <1>7, <3>1
    <3>2. CASE s # SessionOf[a]
      <4>1. session'[s].state = session[s].state BY <1>7, <3>2
      <4>2. session[s].state \in DOMAIN codes BY <1>6, <1>i, <2>2, <2>5, <4>1 DEF FlowsInOrder
      <4>. QED BY <1>6, <1>i, <2>5, <4>1, <4>2 DEF FlowsInOrder
    <3>. QED BY <3>1, <3>2
  <2>. QED BY <1>0, <1>2, <1>6, <2>1, <2>3, <2>4, <2>5 DEF FlowsInOrder
<1>15. TokensIssued' BY <1>0, SocialRests
<1>16. CodesUsedUp'
  <2>1. Answering' = Answering BY <1>0, <1>9, <1>13 DEF Answering
  <2>2. UsedUp' = UsedUp BY <1>3, <1>6, <1>c DEF UsedUp
  <2>. QED BY <2>1, <2>2 DEF SocialIInv, CodesUsedUp
<1>. QED BY <1>11, <1>12, <1>14, <1>15, <1>16 DEF SocialIInv

\* What a provider grants: a refresh token with it, or none.
LEMMA GrantedKnown ==
  ASSUME SocialIInv, NEW c
  PROVE  /\ Social!Granted(c).access = Len(issued) + 1 /\ Social!Granted(c).refresh \in {0, Len(issued) + 1}
         /\ provider = "mock" => Social!Granted(c).refresh = Len(issued) + 1
<1> DEFINE b == "openid" \in c.scopes
           r == CASE provider = "facebook" -> 0
                  [] provider = "google" -> IF c.offline /\ Social!FirstConsent(c.of) THEN Len(issued) + 1 ELSE 0
                  [] OTHER -> Len(issued) + 1
<1>1. Social!Granted(c) = [access |-> Len(issued) + 1, openid |-> b, refresh |-> r] BY Zenon DEF Social!Granted
<1>2. r \in {0, Len(issued) + 1} /\ (provider = "mock" => r = Len(issued) + 1)
  <2>1. CASE provider = "facebook" BY <2>1
  <2>2. CASE provider = "google" BY <2>2
  <2>3. CASE provider \notin {"facebook", "google"} BY <2>3
  <2>. QED BY <2>1, <2>2, <2>3
<1>3. b \in BOOLEAN OBVIOUS
<1> HIDE DEF b, r
<1>. QED BY <1>1, <1>2, <1>3

\* The callback either comes to nothing, or takes a code that nobody used.
LEMMA CallbackDoes ==
  ASSUME SocialIInv, NEW a \in Tab, Social!Callback(a)
  PROVE  /\ actor[a].at = "back" /\ UNCHANGED <<provider, dead, links, flows, nextId>>
         /\ \/ actor' = [actor EXCEPT ![a] = Social!Idle] /\ UNCHANGED <<session, codes, issued>>
            \/ \E t :
                 /\ ~codes[actor[a].code].used /\ codes' = [codes EXCEPT ![actor[a].code].used = TRUE]
                 /\ t.access = Len(issued) + 1 /\ t.refresh \in {0, Len(issued) + 1} /\ (provider = "mock" => t.refresh = Len(issued) + 1)
                 /\ issued' = Append(issued, [of |-> codes[actor[a].code].of, live |-> TRUE, refresh |-> t.refresh])
                 /\ \/ /\ session' = [session EXCEPT ![SessionOf[a]] = [state |-> 0, verifier |-> 0]]
                       /\ actor' = [actor EXCEPT ![a] = [at |-> "exchanged", tokens |-> t, tenant |-> actor[a].tenant]]
                    \/ provider # "mock" /\ UNCHANGED <<session, actor>>
<1>p. provider \in {"google", "facebook", "line", "mock"} BY DEF SocialIInv, SocialTyped
<1> DEFINE c == codes[actor[a].code]
           kept == session[SessionOf[a]]
           input == [state |-> c.state, expected |-> kept.state, verifier |-> kept.verifier]
           takes == ~c.used /\ c.verifier = input.verifier
           outcome == CASE provider = "google" -> Social!GoogleExchange(input, IF takes THEN 200 ELSE 400)
                        [] provider = "facebook" -> Social!FacebookExchange(input, IF takes THEN 200 ELSE 400)
                        [] provider = "line" -> Social!LineExchange(input, IF takes THEN 200 ELSE 400)
                        [] provider = "mock" -> Social!MockExchange(input, {codes[k] : k \in {k \in DOMAIN codes : ~codes[k].used}})
           granted == CASE provider = "google" -> Social!GoogleTokens(Social!Granted(c))
                        [] provider = "facebook" -> Social!FacebookTokens(Social!Granted(c))
                        [] provider = "line" -> Social!LineTokens(Social!Granted(c)) [] provider = "mock" -> Social!Granted(c)
<1>1. /\ actor[a].at = "back"
      /\ IF outcome # "ok" THEN Social!Becomes(a, Social!Idle) /\ UNCHANGED <<session, codes, issued>>
         ELSE /\ codes' = [codes EXCEPT ![actor[a].code].used = TRUE]
              /\ Social!Issue(c.of, granted)
              /\ \/ /\ session' = [session EXCEPT ![SessionOf[a]] = [state |-> 0, verifier |-> 0]]
                    /\ Social!Becomes(a, [at |-> "exchanged", tokens |-> granted, tenant |-> actor[a].tenant])
                 \/ provider # "mock" /\ UNCHANGED <<session, actor>>
      /\ UNCHANGED <<provider, tenanted, extra, dead, links, flows, nextId>>
  BY Zenon DEF Social!Callback
<1>k. actor[a].code \in DOMAIN codes /\ \A k \in DOMAIN codes : codes[k].state = k BY <1>1 DEF SocialIInv, FlowsInOrder
<1>2. outcome = "ok" => ~c.used
  <2>1. ASSUME NEW x, x = IF takes THEN 200 ELSE 400, x = 200 PROVE ~c.used BY <2>1
  <2>2. CASE provider = "google"
    <3>1. outcome = Social!GoogleExchange(input, IF takes THEN 200 ELSE 400) BY <2>2
    <3> HIDE DEF takes, input, outcome, c
    <3>. QED BY <2>1, <3>1 DEF Social!GoogleExchange
  <2>3. CASE provider = "facebook"
    <3>1. outcome = Social!FacebookExchange(input, IF takes THEN 200 ELSE 400) BY <2>3
    <3> HIDE DEF takes, input, outcome, c
    <3>. QED BY <2>1, <3>1 DEF Social!FacebookExchange
  <2>4. CASE provider = "line"
    <3>1. outcome = Social!LineExchange(input, IF takes THEN 200 ELSE 400) BY <2>4
    <3> HIDE DEF takes, input, outcome, c
    <3>. QED BY <2>1, <3>1 DEF Social!LineExchange
  <2>5. CASE provider = "mock"
    <3>1. outcome = Social!MockExchange(input, {codes[k] : k \in {k \in DOMAIN codes : ~codes[k].used}}) BY <2>5
    <3>2. input.state = actor[a].code BY <1>k
    <3> HIDE DEF input, outcome
    <3>3. ASSUME outcome = "ok" PROVE \E k \in DOMAIN codes : ~codes[k].used /\ codes[k].state = actor[a].code
      <4>1. input.state \in {d.state : d \in {codes[k] : k \in {k \in DOMAIN codes : ~codes[k].used}}} BY <3>1, <3>3 DEF Social!MockExchange
      <4>. QED BY <3>2, <4>1
    <3>. QED BY <1>k, <3>3
  <2>. QED BY <1>p, <2>2, <2>3, <2>4, <2>5
<1>3. /\ granted.access = Len(issued) + 1 /\ granted.refresh \in {0, Len(issued) + 1}
      /\ provider = "mock" => granted.refresh = Len(issued) + 1
  <2>1. PICK g : g = Social!Granted(c) OBVIOUS
  <2>2. /\ g.access = Len(issued) + 1 /\ g.refresh \in {0, Len(issued) + 1} /\ (provider = "mock" => g.refresh = Len(issued) + 1)
    BY <2>1, GrantedKnown
  <2>3. PICK no \in BOOLEAN : ~no OBVIOUS
  <2>4. /\ Social!GoogleTokens(g) = [access |-> g.access, refresh |-> g.refresh, openid |-> g.openid]
        /\ Social!LineTokens(g) = [access |-> g.access, refresh |-> g.refresh, openid |-> g.openid]
        /\ Social!FacebookTokens(g) = [access |-> g.access, refresh |-> 0, openid |-> no]
    BY <2>3 DEF Social!GoogleTokens, Social!LineTokens, Social!FacebookTokens
  <2>5. granted \in {Social!GoogleTokens(g), Social!LineTokens(g), Social!FacebookTokens(g), g} /\ (provider = "mock" => granted = g)
    BY <1>p, <2>1
  <2> HIDE DEF granted
  <2>. QED BY <2>2, <2>4, <2>5
<1>4. c.of = codes[actor[a].code].of /\ c.used = codes[actor[a].code].used OBVIOUS
<1> HIDE DEF outcome, granted, c, takes, input
<1>5. CASE outcome # "ok" BY <1>1, <1>5 DEF Social!Becomes
<1>6. CASE outcome = "ok"
  <2>1. ~codes[actor[a].code].used BY <1>2, <1>4, <1>6
  <2>2. PICK t : t = granted OBVIOUS
  <2>3. issued' = Append(issued, [of |-> codes[actor[a].code].of, live |-> TRUE, refresh |-> t.refresh]) BY <1>1, <1>4, <1>6, <2>2 DEF Social!Issue
  <2>4. \/ /\ session' = [session EXCEPT ![SessionOf[a]] = [state |-> 0, verifier |-> 0]]
           /\ actor' = [actor EXCEPT ![a] = [at |-> "exchanged", tokens |-> t, tenant |-> actor[a].tenant]]
        \/ provider # "mock" /\ UNCHANGED <<session, actor>>
    BY <1>1, <1>6, <2>2 DEF Social!Becomes
  <2>5. codes' = [codes EXCEPT ![actor[a].code].used = TRUE] BY <1>1, <1>6
  <2>. QED BY <1>1, <1>3, <2>1, <2>2, <2>3, <2>4, <2>5
<1>. QED BY <1>5, <1>6

\* A code comes back: it is exchanged once, and what is issued for it is new.
LEMMA CallbackKeeps == ASSUME SocialGiven, SocialIInv, NEW a \in Tab, Social!Callback(a) PROVE SocialIInv'
<1>i. SocialTyped /\ FlowsInOrder /\ TokensIssued /\ ActorsHold /\ LinksHold BY DEF SocialIInv
<1>0. actor[a].at = "back" /\ UNCHANGED <<provider, dead, links, flows, nextId>> BY CallbackDoes
<1>1. CASE actor' = [actor EXCEPT ![a] = Social!Idle] /\ UNCHANGED <<session, codes, issued>>
  <2>1. PICK v : v = Social!Idle OBVIOUS
  <2>2. v.at = "idle" /\ ~HoldsTokens(v) BY <2>1 DEF Social!Idle, HoldsTokens
  <2>3. Grows BY <1>0, <1>1, NothingWithdrawn
  <2>4. actor' = [actor EXCEPT ![a] = v] BY <1>1, <2>1
  <2>6. DOMAIN actor' = Tab /\ \A b \in Tab : actor'[b] = IF b = a THEN v ELSE actor[b] BY <1>i, <2>4 DEF SocialTyped
  <2>5. DOMAIN actor' = Tab /\ ActorsHold' /\ LinksHold' BY <1>0, <2>2, <2>3, <2>6, ActorMoves
  <2>7. SocialTyped' BY <1>0, <1>1, <1>i, <2>5 DEF SocialTyped
  <2>8. FlowsInOrder' BY <1>0, <1>1, <2>2, <2>6, FlowsRest
  <2>9. TokensIssued' BY <1>0, <1>1, SocialRests
  <2>10. Answering' \subseteq Answering BY <2>2, <2>6 DEF Answering
  <2>11. CodesUsedUp' BY <1>1, <2>10, CountsStay
  <2>. QED BY <2>5, <2>7, <2>8, <2>9, <2>11 DEF SocialIInv
<1>2. ASSUME NEW t,
         /\ ~codes[actor[a].code].used /\ codes' = [codes EXCEPT ![actor[a].code].used = TRUE]
         /\ t.access = Len(issued) + 1 /\ t.refresh \in {0, Len(issued) + 1} /\ (provider = "mock" => t.refresh = Len(issued) + 1)
         /\ issued' = Append(issued, [of |-> codes[actor[a].code].of, live |-> TRUE, refresh |-> t.refresh])
         /\ \/ /\ session' = [session EXCEPT ![SessionOf[a]] = [state |-> 0, verifier |-> 0]]
               /\ actor' = [actor EXCEPT ![a] = [at |-> "exchanged", tokens |-> t, tenant |-> actor[a].tenant]]
            \/ provider # "mock" /\ UNCHANGED <<session, actor>>
      PROVE SocialIInv'
  <2>1. PICK k \in DOMAIN codes : k = actor[a].code BY <1>0, <1>i DEF FlowsInOrder
  <2>2. PICK n \in Nat : n = Len(issued) + 1 /\ DOMAIN issued = 1..(n - 1) /\ n # 0 BY <1>i DEF SocialTyped
  <2>3. PICK yes \in BOOLEAN : yes OBVIOUS
  <2>c. codes[k] \in CodeRow BY <1>i DEF SocialTyped
  <2>4. PICK e \in TokenSet : e = [of |-> codes[k].of, live |-> TRUE, refresh |-> t.refresh]
    <3>1. t.refresh \in Nat BY <1>2, <2>2
    <3>2. codes[k].of \in Identity BY <2>c DEF CodeRow
    <3>3. [of |-> codes[k].of, live |-> TRUE, refresh |-> t.refresh] = [of |-> codes[k].of, live |-> yes, refresh |-> t.refresh] BY <2>3
    <3>. QED BY <3>1, <3>2, <3>3 DEF TokenSet
  <2>5. e.refresh = t.refresh /\ e.live BY <2>4
  <2>6. /\ issued' \in Seq(TokenSet) /\ DOMAIN issued' = 1..n /\ issued'[n] = e /\ \A j \in DOMAIN issued : issued'[j] = issued[j]
    BY <1>2, <1>i, <2>1, <2>2, <2>4 DEF SocialTyped
  <2>7. /\ DOMAIN issued \subseteq DOMAIN issued' /\ n \in DOMAIN issued' /\ n \notin DOMAIN issued /\ 0 \notin DOMAIN issued
        /\ \A j \in DOMAIN issued' : j \in DOMAIN issued \/ j = n
    BY <2>2, <2>6
  <2>8. Grows BY <1>0, <2>6, <2>7 DEF Grows, Paired
  <2>9. PICK spent \in CodeRow : codes' = [codes EXCEPT ![k] = spent] /\ spent.used /\ spent.state = codes[k].state
    <3>1. [codes[k] EXCEPT !.used = TRUE] = [codes[k] EXCEPT !.used = yes] BY <2>3
    <3>2. [codes[k] EXCEPT !.used = yes] \in CodeRow BY <2>c DEF CodeRow
    <3>3. [codes[k] EXCEPT !.used = yes].used = yes /\ [codes[k] EXCEPT !.used = yes].state = codes[k].state BY <2>c DEF CodeRow
    <3>4. codes' = [codes EXCEPT ![k] = [codes[k] EXCEPT !.used = TRUE]] BY <1>2, <2>1
    <3>. QED BY <2>3, <3>1, <3>2, <3>3, <3>4
  <2>10. /\ codes' \in Seq(CodeRow) /\ DOMAIN codes' = DOMAIN codes /\ Len(codes') = Len(codes) /\ codes'[k] = spent
         /\ \A j \in DOMAIN codes : j # k => codes'[j] = codes[j]
    BY <1>i, <2>9 DEF SocialTyped
  <2>11. Paired(t, provider', issued', dead')
    <3>1. t.refresh \notin dead BY <1>2, <1>i, <2>2, <2>7 DEF TokensIssued
    <3>2. t.refresh # 0 => t.refresh = t.access BY <1>2
    <3>3. t.access \in DOMAIN issued' /\ t.refresh \in DOMAIN issued' \cup {0} BY <1>2, <2>2, <2>7
    <3>. QED BY <1>0, <1>2, <3>1, <3>2, <3>3 DEF Paired
  <2>12. TokensIssued'
    <3>1. ASSUME NEW j \in DOMAIN issued'
          PROVE  /\ issued'[j].refresh \in DOMAIN issued' \cup {0}
                 /\ issued'[j].refresh # 0 => issued'[issued'[j].refresh].of = issued'[j].of
                 /\ provider' = "mock" => issued'[j].refresh = j
      <4>1. CASE j \in DOMAIN issued
        <5>1. issued'[j] = issued[j] BY <2>6, <4>1
        <5>2. issued[j].refresh # 0 => issued'[issued[j].refresh] = issued[issued[j].refresh] BY <1>i, <2>6, <4>1 DEF TokensIssued
        <5>. QED BY <1>0, <1>i, <2>7, <4>1, <5>1, <5>2 DEF TokensIssued
      <4>2. CASE j = n BY <1>0, <1>2, <2>2, <2>5, <2>6, <2>7, <4>2
      <4>. QED BY <2>7, <4>1, <4>2
    <3>2. dead' \subseteq DOMAIN issued' BY <1>0, <1>i, <2>7 DEF TokensIssued
    <3>. QED BY <3>1, <3>2 DEF TokensIssued
  <2>13. PICK v : v = IF actor' = actor THEN actor[a] ELSE [at |-> "exchanged", tokens |-> t, tenant |-> actor[a].tenant] OBVIOUS
  <2>18. DOMAIN actor' = Tab /\ \A b \in Tab : actor'[b] = IF b = a THEN v ELSE actor[b]
    <3>1. CASE actor' = actor BY <1>i, <2>13, <3>1 DEF SocialTyped
    <3>2. CASE actor' # actor
      <4>1. actor' = [actor EXCEPT ![a] = v] BY <1>2, <2>13, <3>2
      <4>. QED BY <1>i, <4>1 DEF SocialTyped
    <3>. QED BY <3>1, <3>2
  <2>15. \/ v.at = "back" /\ v = actor[a]
         \/ v.at = "exchanged" /\ v.tokens = t /\ v.tenant = actor[a].tenant /\ session' = [session EXCEPT ![SessionOf[a]] = [state |-> 0, verifier |-> 0]]
    BY <1>0, <1>2, <2>13
  <2>16. v.tenant \in Branch \cup {"all"} BY <1>0, <1>i, <2>15 DEF ActorsHold
  <2>17. DOMAIN actor' = Tab /\ ActorsHold' /\ LinksHold'
    <3>1. HoldsTokens(v) => v.tokens = t BY <2>15 DEF HoldsTokens
    <3>. QED BY <1>0, <2>8, <2>11, <2>15, <2>16, <2>18, <3>1, ActorMoves
  <2>19. /\ session' \in [Session -> [state : Nat, verifier : Nat]]
         /\ \A s \in Session : session'[s].state \in {0, session[s].state}
         /\ session'[SessionOf[a]].state = 0 \/ provider # "mock"
    <3>1. SessionOf[a] \in Session BY DEF SocialGiven
    <3>2. CASE session' = session /\ provider # "mock" BY <1>i, <3>2 DEF SocialTyped
    <3>3. CASE session' = [session EXCEPT ![SessionOf[a]] = [state |-> 0, verifier |-> 0]]
      <4>0. [state |-> 0, verifier |-> 0] \in [state : Nat, verifier : Nat] OBVIOUS
      <4>1. PICK w \in [state : Nat, verifier : Nat] : w = [state |-> 0, verifier |-> 0] BY Zenon, <4>0
      <4>z. w.state = 0 BY <4>1
      <4>2. session' = [session EXCEPT ![SessionOf[a]] = w] BY <3>3, <4>1
      <4>. QED BY <1>i, <3>1, <4>z, <4>2 DEF SocialTyped
    <3>. QED BY <1>2, <3>2, <3>3
  <2>20. SocialTyped' BY <1>0, <1>i, <2>6, <2>10, <2>17, <2>19 DEF SocialTyped
  <2>21. FlowsInOrder'
    <3>1. Len(codes') = flows' /\ \A j \in DOMAIN codes' : codes'[j].state = j BY <1>0, <1>i, <2>9, <2>10 DEF FlowsInOrder
    <3>n. flows \in Nat /\ DOMAIN codes = 1..flows BY <1>i DEF SocialTyped, FlowsInOrder
    <3>2. \A s \in Session : session'[s].state <= flows'
      <4> SUFFICES ASSUME NEW s \in Session PROVE session'[s].state <= flows BY <1>0
      <4>1. session[s].state <= flows BY <1>i DEF FlowsInOrder
      <4>2. 0 <= flows BY <3>n
      <4>. QED BY <2>19, <4>1, <4>2
    <3>3. ASSUME NEW b \in Tab, actor'[b].at = "back"
          PROVE  actor'[b].code \in DOMAIN codes' /\ \A s \in Session : session'[s].state = actor'[b].code => s = SessionOf[b]
      <4>1. actor'[b] = actor[b] BY <2>15, <2>18, <3>3
      <4>2. actor[b].code \in DOMAIN codes /\ \A s \in Session : session[s].state = actor[b].code => s = SessionOf[b]
        BY <1>i, <3>3, <4>1 DEF FlowsInOrder
      <4>3. actor[b].code # 0 BY <3>n, <4>2
      <4>. QED BY <2>10, <2>19, <4>1, <4>2, <4>3
    <3>4. ASSUME provider = "mock", NEW s \in Session, session'[s].state # 0 PROVE ~codes'[session'[s].state].used
      <4>1. session'[s].state = session[s].state BY <2>19, <3>4
      <4>2. s # SessionOf[a] BY <2>19, <3>4
      <4>3. session[s].state # k BY <1>0, <1>i, <2>1, <4>2 DEF FlowsInOrder
      <4>4. session[s].state \in Nat /\ session[s].state <= flows BY <1>i DEF SocialTyped, FlowsInOrder
      <4>5. session[s].state \in DOMAIN codes BY <3>4, <3>n, <4>1, <4>4
      <4>6. ~codes[session[s].state].used BY <1>i, <3>4, <4>1 DEF FlowsInOrder
      <4>. QED BY <2>10, <4>1, <4>3, <4>5, <4>6
    <3>. QED BY <1>0, <3>1, <3>2, <3>3, <3>4 DEF FlowsInOrder
  <2>22. CodesUsedUp'
    <3>1. IsFiniteSet(Answering) BY FS_Subset DEF SocialGiven, Answering
    <3>2. Answering' \subseteq Answering \cup {a} BY <2>18 DEF Answering
    <3>3. Cardinality(Answering) \in Nat /\ Cardinality(Answering \cup {a}) <= Cardinality(Answering) + 1
          /\ IsFiniteSet(Answering \cup {a}) /\ Cardinality(Answering \cup {a}) \in Nat
      <4>1. Cardinality(Answering) \in Nat BY <3>1, FS_CardinalityType
      <4>2. Cardinality(Answering \cup {a}) \in {Cardinality(Answering), Cardinality(Answering) + 1} BY <3>1, FS_AddElement
      <4>3. IsFiniteSet(Answering \cup {a}) BY <3>1, FS_AddElement
      <4>. QED BY <4>1, <4>2, <4>3
    <3>4. Cardinality(Answering') \in Nat /\ Cardinality(Answering') <= Cardinality(Answering \cup {a})
      BY <3>2, <3>3, FS_Subset, FS_CardinalityType
    <3>5. UsedUp' = UsedUp \cup {k} /\ k \notin UsedUp BY <1>2, <2>1, <2>9, <2>10 DEF UsedUp
    <3>6. Len(codes) \in Nat /\ UsedUp \subseteq 1..Len(codes) BY <1>i DEF SocialTyped, UsedUp
    <3>7. IsFiniteSet(1..Len(codes)) BY <3>6, FS_Interval
    <3>8. IsFiniteSet(UsedUp) BY <3>6, <3>7, FS_Subset
    <3>9. Cardinality(UsedUp) \in Nat /\ Cardinality(UsedUp') = Cardinality(UsedUp) + 1 BY <3>5, <3>8, FS_AddElement, FS_CardinalityType
    <3>10. Cardinality(Answering) <= Cardinality(UsedUp) BY DEF SocialIInv, CodesUsedUp
    <3>11. Cardinality(Answering') <= Cardinality(UsedUp') BY <3>3, <3>4, <3>9, <3>10
    <3>. QED BY <3>11 DEF CodesUsedUp
  <2>. QED BY <2>12, <2>17, <2>20, <2>21, <2>22 DEF SocialIInv
<1>. QED BY <1>1, <1>2, CallbackDoes

\* Only the tab moves, with the answer it held.
LEMMA TabGoesOn ==
  ASSUME SocialGiven, SocialIInv, NEW a \in Tab, NEW v, actor' = [actor EXCEPT ![a] = v],
         UNCHANGED <<provider, session, codes, issued, dead, links, flows, nextId>>,
         v.at \in {"idle", "known", "found"},
         v.at # "idle" => /\ actor[a].at \in {"exchanged", "known"} /\ v.tokens = actor[a].tokens /\ v.tenant = actor[a].tenant
                          /\ v.identity = issued[v.tokens.access].of,
         v.at = "found" =>
           v.user \in User /\ \A r \in v.rows : r.id \in Nat /\ r.id < nextId /\ \A o \in links : o.id = r.id => o.identity = v.identity
  PROVE  SocialIInv'
<1>i. SocialTyped /\ FlowsInOrder /\ TokensIssued /\ ActorsHold /\ LinksHold BY DEF SocialIInv
<1>1. Grows BY NothingWithdrawn
<1>2. DOMAIN actor' = Tab /\ \A b \in Tab : actor'[b] = IF b = a THEN v ELSE actor[b] BY <1>i DEF SocialTyped
<1>3. HoldsTokens(v) => Paired(v.tokens, provider', issued', dead')
  <2>1. HoldsTokens(v) => HoldsTokens(actor[a]) /\ v.tokens = actor[a].tokens BY DEF HoldsTokens
  <2>. QED BY <1>i, <2>1 DEF ActorsHold
<1>4. v.at # "idle" => v.tenant \in Branch \cup {"all"} BY <1>i DEF ActorsHold
<1>5. DOMAIN actor' = Tab /\ ActorsHold' /\ LinksHold' BY <1>1, <1>2, <1>3, <1>4, ActorMoves
<1>6. SocialTyped' BY <1>5, <1>i DEF SocialTyped
<1>7. FlowsInOrder' BY <1>2, FlowsRest
<1>8. TokensIssued' BY SocialRests
<1>9. Answering' \subseteq Answering BY <1>2 DEF Answering
<1>10. CodesUsedUp' BY <1>9, CountsStay
<1>. QED BY <1>5, <1>6, <1>7, <1>8, <1>10 DEF SocialIInv

\* The provider says whose the tokens are.
LEMMA ProfileKeeps == ASSUME SocialGiven, SocialIInv, NEW a \in Tab, Social!Profile(a) PROVE SocialIInv'
<1>1. actor[a].at = "exchanged" /\ UNCHANGED <<provider, session, codes, issued, dead, links, flows, nextId>> BY DEF Social!Profile
<1>2. \/ actor' = [actor EXCEPT ![a] = Social!Idle]
      \/ actor' = [actor EXCEPT ![a] = [at |-> "known", tokens |-> actor[a].tokens, tenant |-> actor[a].tenant,
                                        identity |-> issued[actor[a].tokens.access].of]]
  BY Zenon DEF Social!Profile, Social!Becomes
<1>3. PICK v : actor' = [actor EXCEPT ![a] = v] /\ v \in {Social!Idle, [at |-> "known", tokens |-> actor[a].tokens, tenant |-> actor[a].tenant,
                                                                         identity |-> issued[actor[a].tokens.access].of]}
  BY <1>2
<1>4. \/ v.at = "idle"
      \/ v.at = "known" /\ v.tokens = actor[a].tokens /\ v.tenant = actor[a].tenant /\ v.identity = issued[actor[a].tokens.access].of
  BY <1>3 DEF Social!Idle
<1>. QED BY <1>1, <1>3, <1>4, TabGoesOn

\* connect() reads: the rows found are of the identity, and no other row gets their ids.
LEMMA FindKeeps == ASSUME SocialGiven, SocialIInv, NEW a \in Tab, Social!Find(a) PROVE SocialIInv'
<1>i. SocialTyped /\ ActorsHold /\ LinksHold BY DEF SocialIInv
<1>1. actor[a].at = "known" /\ UNCHANGED <<provider, session, codes, issued, dead, links, flows, nextId>> BY DEF Social!Find
<1>2. PICK u \in User :
        LET found == IF tenanted THEN Social!TenantedFind(actor[a].tenant, actor[a].identity) ELSE Social!FindByProviderIdentity(actor[a].identity) IN
          IF \E r \in found : r.user # u THEN Social!Becomes(a, Social!Idle)
          ELSE Social!Becomes(a, [at |-> "found", tokens |-> actor[a].tokens, tenant |-> actor[a].tenant,
                                  identity |-> actor[a].identity, user |-> u, rows |-> found])
  BY Zenon DEF Social!Find
<1>3. PICK found : found = IF tenanted THEN Social!TenantedFind(actor[a].tenant, actor[a].identity) ELSE Social!FindByProviderIdentity(actor[a].identity)
  OBVIOUS
<1>4. \A r \in found : r \in links /\ r.identity = actor[a].identity BY <1>3 DEF Social!TenantedFind, Social!FindByProviderIdentity
<1>5. PICK v : actor' = [actor EXCEPT ![a] = v] /\ v \in {Social!Idle, [at |-> "found", tokens |-> actor[a].tokens, tenant |-> actor[a].tenant,
                                                                         identity |-> actor[a].identity, user |-> u, rows |-> found]}
  BY <1>2, <1>3 DEF Social!Becomes
<1>6. \/ v.at = "idle"
      \/ v.at = "found" /\ v.tokens = actor[a].tokens /\ v.tenant = actor[a].tenant /\ v.identity = actor[a].identity /\ v.user = u /\ v.rows = found
  BY <1>5 DEF Social!Idle
<1>7. \A r \in found : r.id \in Nat /\ r.id < nextId /\ \A o \in links : o.id = r.id => o.identity = actor[a].identity
  <2> SUFFICES ASSUME NEW r \in found PROVE r.id \in Nat /\ r.id < nextId /\ \A o \in links : o.id = r.id => o.identity = actor[a].identity OBVIOUS
  <2>1. r \in links /\ r.identity = actor[a].identity BY <1>4
  <2>2. r.id \in Nat BY <1>i, <2>1 DEF SocialTyped, LinkRow
  <2>3. r.id < nextId /\ \A o \in links : o # r => o.id # r.id BY <1>i, <2>1 DEF LinksHold
  <2>. QED BY <2>1, <2>2, <2>3
<1>8. actor[a].identity = issued[actor[a].tokens.access].of BY <1>1, <1>i DEF ActorsHold
<1>. QED BY <1>1, <1>5, <1>6, <1>7, <1>8, TabGoesOn

\* Stored tokens that belong together, of the identity of the rows they go to, keep the links whole.
LEMMA RowsWritten ==
  ASSUME SocialIInv, UNCHANGED <<provider, issued, dead, nextId>>, NEW t, NEW i, NEW by \in {"connect", "refresh"},
         Paired(t, provider, issued, dead), by = "refresh" /\ provider # "facebook" => t.refresh # 0,
         \A o \in links : o.id = i => o.identity = issued[t.access].of,
         links' = (links \ {o \in links : o.id = i}) \cup {Social!Stored(o, t, by) : o \in {o \in links : o.id = i}}
  PROVE  links' \subseteq LinkRow /\ LinksHold' /\ \A o \in links' : \E p \in links : p.id = o.id /\ p.identity = o.identity
<1>i. SocialTyped /\ LinksHold BY DEF SocialIInv
<1>1. t.access \in DOMAIN issued /\ t.access \in Nat /\ t.refresh \in Nat
  <2>1. \A k \in DOMAIN issued : k \in Nat BY <1>i DEF SocialTyped
  <2>. QED BY <2>1 DEF Paired
<1>2. \A o : Social!Stored(o, t, by) = [o EXCEPT !.access = t.access, !.refresh = t.refresh, !.by = by] BY Zenon DEF Social!Stored
<1>3. ASSUME NEW o \in LinkRow
      PROVE  LET x == Social!Stored(o, t, by) IN
               /\ x \in LinkRow /\ x.id = o.id /\ x.tenant = o.tenant /\ x.user = o.user /\ x.identity = o.identity
               /\ x.access = t.access /\ x.refresh = t.refresh /\ x.by = by
  <2>1. PICK x : x = [o EXCEPT !.access = t.access, !.refresh = t.refresh, !.by = by] OBVIOUS
  <2>2. /\ x \in LinkRow /\ x.id = o.id /\ x.tenant = o.tenant /\ x.user = o.user /\ x.identity = o.identity
        /\ x.access = t.access /\ x.refresh = t.refresh /\ x.by = by
    BY <1>1, <2>1 DEF LinkRow
  <2>3. Social!Stored(o, t, by) = x BY <1>2, <2>1
  <2>. QED BY <2>2, <2>3
<1>4. ASSUME NEW x \in links'
      PROVE  \E o \in links : /\ o \in LinkRow /\ x \in LinkRow /\ x.id = o.id /\ x.tenant = o.tenant /\ x.user = o.user /\ x.identity = o.identity
                              /\ \/ o.id # i /\ x = o
                                 \/ o.id = i /\ x = Social!Stored(o, t, by) /\ x.access = t.access /\ x.refresh = t.refresh /\ x.by = by
  <2>0. links \subseteq LinkRow BY <1>i DEF SocialTyped
  <2>1. CASE x \in links \ {o \in links : o.id = i} BY <2>0, <2>1
  <2>2. CASE x \in {Social!Stored(o, t, by) : o \in {o \in links : o.id = i}}
    <3>1. PICK o \in links : o.id = i /\ x = Social!Stored(o, t, by) BY <2>2
    <3>. QED BY <1>3, <2>0, <3>1
  <2>. QED BY <2>1, <2>2
<1>5. LinksHold'
  <2>1. ASSUME NEW x \in links'
        PROVE  /\ Paired(x, provider, issued, dead) /\ issued[x.access].of = x.identity /\ x.id < nextId
               /\ provider # "facebook" /\ x.by = "refresh" => x.refresh # 0
    <3>1. PICK o \in links : /\ x.id = o.id /\ x.identity = o.identity
                             /\ \/ o.id # i /\ x = o
                                \/ o.id = i /\ x.access = t.access /\ x.refresh = t.refresh /\ x.by = by
      BY <1>4
    <3>2. CASE x = o BY <1>i, <3>2 DEF LinksHold
    <3>3. CASE o.id = i /\ x.access = t.access /\ x.refresh = t.refresh /\ x.by = by
      <4>1. Paired(x, provider, issued, dead) BY <3>3 DEF Paired
      <4>2. x.id < nextId BY <1>i, <3>1 DEF LinksHold
      <4>. QED BY <3>1, <3>3, <4>1, <4>2
    <3>. QED BY <3>1, <3>2, <3>3
  <2>2. ASSUME NEW x \in links', NEW y \in links', y # x
        PROVE  y.id # x.id /\ y.user # x.user /\ (y.tenant = x.tenant => y.identity # x.identity)
    <3>1. PICK o \in links : /\ x.id = o.id /\ x.tenant = o.tenant /\ x.user = o.user /\ x.identity = o.identity
                             /\ (o.id # i /\ x = o) \/ (o.id = i /\ x = Social!Stored(o, t, by))
      BY <1>4
    <3>2. PICK p \in links : /\ y.id = p.id /\ y.tenant = p.tenant /\ y.user = p.user /\ y.identity = p.identity
                             /\ (p.id # i /\ y = p) \/ (p.id = i /\ y = Social!Stored(p, t, by))
      BY <1>4
    <3>3. o # p BY <2>2, <3>1, <3>2
    <3>. QED BY <1>i, <3>1, <3>2, <3>3 DEF LinksHold
  <2>. QED BY <2>1, <2>2 DEF LinksHold
<1>6. links' \subseteq LinkRow /\ \A o \in links' : \E p \in links : p.id = o.id /\ p.identity = o.identity BY <1>4
<1>. QED BY <1>5, <1>6

\* A tab or a job is done, having written its rows.
LEMMA RowsStored ==
  ASSUME SocialGiven, SocialIInv, NEW a \in Tab, actor' = [actor EXCEPT ![a] = Social!Idle],
         UNCHANGED <<provider, session, codes, issued, dead, flows>>, nextId' \in {nextId, nextId + 1},
         links' \subseteq LinkRow, LinksHold', \A o \in links' : o.id = nextId \/ \E p \in links : p.id = o.id /\ p.identity = o.identity
  PROVE  SocialIInv'
<1>i. SocialTyped BY DEF SocialIInv
<1>1. PICK v : v = Social!Idle OBVIOUS
<1>2. v.at = "idle" BY <1>1 DEF Social!Idle
<1>3. DOMAIN actor' = Tab /\ \A b \in Tab : actor'[b] = IF b = a THEN v ELSE actor[b] BY <1>i, <1>1 DEF SocialTyped
<1>4. ActorsHold' BY <1>2, <1>3, HoldersSee
<1>5. SocialTyped' BY <1>3, <1>i DEF SocialTyped
<1>6. FlowsInOrder' BY <1>2, <1>3, FlowsRest
<1>7. TokensIssued' BY SocialRests
<1>8. Answering' \subseteq Answering BY <1>2, <1>3 DEF Answering
<1>9. CodesUsedUp' BY <1>8, CountsStay
<1>. QED BY <1>4, <1>5, <1>6, <1>7, <1>9 DEF SocialIInv

\* connect() writes: by the id it found, or a new row the unique indexes let in.
LEMMA ConnectKeeps == ASSUME SocialGiven, SocialIInv, NEW a \in Tab, Social!Connect(a) PROVE SocialIInv'
<1>i. SocialTyped /\ TokensIssued /\ ActorsHold /\ LinksHold BY DEF SocialIInv
<1>0. /\ actor[a].at = "found" /\ actor' = [actor EXCEPT ![a] = Social!Idle]
      /\ UNCHANGED <<provider, session, codes, issued, dead, flows>>
  BY DEF Social!Connect, Social!Becomes
<1>1. LET f == actor[a] IN
        IF f.rows # {}
        THEN LET r == CHOOSE r \in f.rows : TRUE
                 now == {o \in links : o.id = r.id} IN
             links' = (links \ now) \cup {Social!Stored(o, f.tokens, "connect") : o \in now} /\ UNCHANGED nextId
        ELSE LET r == [id |-> nextId, tenant |-> f.tenant, user |-> f.user, identity |-> f.identity,
                       access |-> f.tokens.access, refresh |-> f.tokens.refresh, by |-> "connect"] IN
             IF (IF tenanted THEN Social!TenantedCollides(r) ELSE Social!Collides(r)) THEN UNCHANGED <<links, nextId>>
             ELSE links' = links \cup {r} /\ nextId' = nextId + 1
  BY Zenon DEF Social!Connect
<1>2. PICK t : t = actor[a].tokens OBVIOUS
<1>3. /\ Paired(t, provider, issued, dead) /\ actor[a].identity = issued[t.access].of
      /\ actor[a].tenant \in Branch \cup {"all"} /\ actor[a].user \in User
      /\ \A r \in actor[a].rows : \A o \in links : o.id = r.id => o.identity = issued[t.access].of
  BY <1>0, <1>2, <1>i DEF ActorsHold, HoldsTokens
<1>4. CASE actor[a].rows # {}
  <2>1. PICK i : i = (CHOOSE r \in actor[a].rows : TRUE).id OBVIOUS
  <2>2. \A o \in links : o.id = i => o.identity = issued[t.access].of BY <1>3, <1>4, <2>1
  <2>3. links' = (links \ {o \in links : o.id = i}) \cup {Social!Stored(o, t, "connect") : o \in {o \in links : o.id = i}} /\ UNCHANGED nextId
    BY <1>1, <1>2, <1>4, <2>1
  <2>4. links' \subseteq LinkRow /\ LinksHold' /\ \A o \in links' : \E p \in links : p.id = o.id /\ p.identity = o.identity
    <3>1. PICK by \in {"connect", "refresh"} : by = "connect" OBVIOUS
    <3>2. links' = (links \ {o \in links : o.id = i}) \cup {Social!Stored(o, t, by) : o \in {o \in links : o.id = i}} BY <2>3, <3>1
    <3>. QED BY <1>0, <1>3, <2>2, <2>3, <3>1, <3>2, RowsWritten
  <2>. QED BY <1>0, <2>3, <2>4, RowsStored
<1>5. CASE actor[a].rows = {}
  <2>0. PICK r : r = [id |-> nextId, tenant |-> actor[a].tenant, user |-> actor[a].user, identity |-> actor[a].identity,
                      access |-> t.access, refresh |-> t.refresh, by |-> "connect"]
    OBVIOUS
  <2>1. IF (IF tenanted THEN Social!TenantedCollides(r) ELSE Social!Collides(r)) THEN UNCHANGED <<links, nextId>>
        ELSE links' = links \cup {r} /\ nextId' = nextId + 1
    BY <1>1, <1>2, <1>5, <2>0
  <2>2. CASE UNCHANGED <<links, nextId>>
    <3>1. links' \subseteq LinkRow /\ \A o \in links' : \E p \in links : p.id = o.id /\ p.identity = o.identity BY <1>i, <2>2 DEF SocialTyped
    <3>2. LinksHold' BY <1>0, <1>i, <2>2 DEF LinksHold
    <3>. QED BY <1>0, <2>2, <3>1, <3>2, RowsStored
  <2>3. CASE ~(IF tenanted THEN Social!TenantedCollides(r) ELSE Social!Collides(r))
    <3>1. links' = links \cup {r} /\ nextId' = nextId + 1 BY <2>1, <2>3
    <3>2. /\ r.id = nextId /\ r.tenant = actor[a].tenant /\ r.user = actor[a].user /\ r.identity = actor[a].identity
          /\ r.access = t.access /\ r.refresh = t.refresh /\ r.by = "connect"
      BY <2>0
    <3>3. \A o \in links : o.user # r.user /\ (o.tenant = r.tenant => o.identity # r.identity)
      BY <2>3 DEF Social!TenantedCollides, Social!Collides
    <3>4. r \in LinkRow
      <4>1. \A k \in DOMAIN issued : k \in Nat /\ issued[k] \in TokenSet BY <1>i DEF SocialTyped
      <4>2. t.access \in Nat /\ t.refresh \in Nat /\ t.access \in DOMAIN issued BY <1>3, <4>1 DEF Paired
      <4>3. actor[a].identity \in Identity BY <1>3, <4>1, <4>2 DEF TokenSet
      <4>4. nextId \in Nat BY <1>i DEF SocialTyped
      <4>. QED BY <1>3, <2>0, <4>2, <4>3, <4>4 DEF LinkRow
    <3>5. nextId \in Nat /\ links \subseteq LinkRow BY <1>i DEF SocialTyped
    <3>6. Paired(r, provider, issued, dead) BY <1>3, <3>2 DEF Paired
    <3>7. \A o \in links : o.id < nextId /\ o.id # nextId
      <4>1. \A o \in links : o.id < nextId /\ o.id \in Nat BY <1>i, <3>5 DEF LinksHold, LinkRow
      <4>. QED BY <3>5, <4>1
    <3>8. LinksHold'
      <4>1. ASSUME NEW x \in links'
            PROVE  /\ Paired(x, provider, issued, dead) /\ issued[x.access].of = x.identity /\ x.id < nextId + 1
                   /\ provider # "facebook" /\ x.by = "refresh" => x.refresh # 0
        <5>1. CASE x = r BY <1>3, <3>2, <3>5, <3>6, <5>1
        <5>2. CASE x \in links
          <6>1. x.id \in Nat /\ x.id < nextId BY <1>i, <3>5, <5>2 DEF LinksHold, LinkRow
          <6>2. x.id < nextId + 1 BY <3>5, <6>1
          <6>. QED BY <1>i, <5>2, <6>2 DEF LinksHold
        <5>. QED BY <3>1, <5>1, <5>2
      <4>2. ASSUME NEW x \in links', NEW y \in links', y # x
            PROVE  y.id # x.id /\ y.user # x.user /\ (y.tenant = x.tenant => y.identity # x.identity)
        <5>1. CASE x = r /\ y \in links BY <3>2, <3>3, <3>7, <5>1
        <5>2. CASE y = r /\ x \in links BY <3>2, <3>3, <3>7, <5>2
        <5>3. CASE x \in links /\ y \in links BY <1>i, <4>2, <5>3 DEF LinksHold
        <5>. QED BY <3>1, <4>2, <5>1, <5>2, <5>3
      <4>. QED BY <1>0, <3>1, <4>1, <4>2 DEF LinksHold
    <3>9. links' \subseteq LinkRow /\ \A o \in links' : o.id = nextId \/ \E p \in links : p.id = o.id /\ p.identity = o.identity
      BY <3>1, <3>2, <3>4, <3>5
    <3>. QED BY <1>0, <3>1, <3>8, <3>9, RowsStored
  <2>. QED BY <2>1, <2>2, <2>3
<1>. QED BY <1>4, <1>5

\* A job stores what it was answered.
LEMMA StoreKeeps == ASSUME SocialGiven, SocialIInv, NEW a \in Tab, Social!Store(a) PROVE SocialIInv'
<1>i. ActorsHold BY DEF SocialIInv
<1>0. /\ actor[a].at = "refreshed" /\ actor' = [actor EXCEPT ![a] = Social!Idle]
      /\ UNCHANGED <<provider, session, codes, issued, dead, flows, nextId>>
  BY DEF Social!Store, Social!Becomes
<1>1. PICK t, i : t = actor[a].tokens /\ i = actor[a].id OBVIOUS
<1>2. links' = (links \ {o \in links : o.id = i}) \cup {Social!Stored(o, t, "refresh") : o \in {o \in links : o.id = i}}
  BY <1>1, Zenon DEF Social!Store
<1>3. /\ Paired(t, provider, issued, dead) /\ (provider # "facebook" => t.refresh # 0)
      /\ \A o \in links : o.id = i => o.identity = issued[t.access].of
  BY <1>0, <1>1, <1>i DEF ActorsHold, HoldsTokens
<1>4. links' \subseteq LinkRow /\ LinksHold' /\ \A o \in links' : \E p \in links : p.id = o.id /\ p.identity = o.identity
  <2>1. PICK by \in {"connect", "refresh"} : by = "refresh" OBVIOUS
  <2>2. links' = (links \ {o \in links : o.id = i}) \cup {Social!Stored(o, t, by) : o \in {o \in links : o.id = i}} BY <1>2, <2>1
  <2>3. by = "refresh" /\ provider # "facebook" => t.refresh # 0 BY <1>3
  <2>4. UNCHANGED <<provider, issued, dead, nextId>> BY <1>0
  <2>5. \A o \in links : o.id = i => o.identity = issued[t.access].of BY <1>3
  <2>6. Paired(t, provider, issued, dead) BY <1>3
  <2>. QED BY <2>2, <2>3, <2>4, <2>5, <2>6, RowsWritten
<1>. QED BY <1>0, <1>4, RowsStored

\* Rows go away.
LEMMA DisconnectKeeps ==
  ASSUME SocialGiven, SocialIInv, links' \subseteq links, UNCHANGED <<provider, session, actor, codes, issued, dead, flows, nextId>>
  PROVE  SocialIInv'
<1>i. SocialTyped /\ LinksHold BY DEF SocialIInv
<1>1. SocialTyped' BY <1>i DEF SocialTyped
<1>2. LinksHold' BY <1>i DEF LinksHold
<1>3. ActorsHold' BY HoldersSee
<1>4. FlowsInOrder' BY FlowsRest
<1>5. TokensIssued' BY SocialRests
<1>6. CodesUsedUp'
  <2>1. Answering' = Answering BY DEF Answering
  <2>. QED BY <2>1, CountsStay
<1>. QED BY <1>1, <1>2, <1>3, <1>4, <1>5, <1>6 DEF SocialIInv

\* A refresh comes to nothing, or new tokens are issued to the identity of a row: Google and Line
\* keep the refresh token, the mock driver replaces it and withdraws what went with it.
LEMMA RefreshDoes ==
  ASSUME SocialIInv, NEW a \in Tab, Social!Refresh(a)
  PROVE  /\ actor[a].at = "idle" /\ UNCHANGED <<provider, session, codes, links, flows, nextId>>
         /\ \/ UNCHANGED <<actor, issued, dead>>
            \/ \E r \in links : \E t :
                 /\ actor' = [actor EXCEPT ![a] = [at |-> "refreshed", tokens |-> t, id |-> r.id]] /\ t.access = Len(issued) + 1
                 /\ \/ /\ provider = "mock" /\ r.refresh # 0 /\ r.refresh \notin dead /\ t.refresh = Len(issued) + 1
                       /\ dead' = dead \cup {r.refresh}
                       /\ issued' = Append([k \in DOMAIN issued |-> IF issued[k].refresh = r.refresh THEN [issued[k] EXCEPT !.live = FALSE] ELSE issued[k]],
                                           [of |-> r.identity, live |-> TRUE, refresh |-> t.refresh])
                    \/ /\ provider # "mock" /\ UNCHANGED dead
                       /\ issued' = Append(issued, [of |-> r.identity, live |-> TRUE, refresh |-> t.refresh])
                       /\ \/ provider = "facebook" /\ t.refresh = 0
                          \/ t.refresh = r.refresh /\ r.refresh # 0 /\ r.refresh \notin dead
<1>p. provider \in {"google", "facebook", "line", "mock"} BY DEF SocialIInv, SocialTyped
<1>0. actor[a].at = "idle" /\ UNCHANGED <<provider, session, codes, links, flows, nextId>> BY DEF Social!Refresh
<1>1. PICK r \in links :
       LET n == Len(issued) + 1
           takes == r.refresh # 0 /\ r.refresh \notin dead
           t == [access |-> n, openid |-> FALSE,
                 refresh |-> IF provider = "google" THEN 0 ELSE IF provider = "mock" THEN n ELSE r.refresh]
           reply == CASE provider = "google" -> Social!GoogleRefresh(r.refresh, IF takes THEN 200 ELSE 400, t)
                      [] provider = "facebook" -> Social!FacebookLongLived(IF issued[r.access].live THEN 200 ELSE 400, t)
                      [] provider = "line" -> Social!LineRefresh(IF takes THEN 200 ELSE 400, t)
                      [] provider = "mock" -> Social!MockRefresh(takes, t) IN
       IF reply.is # "ok" THEN UNCHANGED <<actor, issued, dead>>
       ELSE /\ Social!Becomes(a, [at |-> "refreshed", tokens |-> reply.tokens, id |-> r.id])
            /\ IF provider = "mock"
               THEN /\ dead' = dead \cup {r.refresh}
                    /\ issued' = Append([k \in DOMAIN issued |-> IF issued[k].refresh = r.refresh THEN [issued[k] EXCEPT !.live = FALSE]
                                                                 ELSE issued[k]],
                                        [of |-> r.identity, live |-> TRUE, refresh |-> n])
               ELSE Social!Issue(r.identity, reply.tokens) /\ UNCHANGED dead
  BY Zenon DEF Social!Refresh
<1> DEFINE takes == r.refresh # 0 /\ r.refresh \notin dead
<1>2. PICK no \in BOOLEAN : no = FALSE OBVIOUS
<1>n. PICK n : n = Len(issued) + 1 OBVIOUS
<1>3. PICK held : held = IF provider = "google" THEN 0 ELSE IF provider = "mock" THEN n ELSE r.refresh OBVIOUS
<1> DEFINE asked == [access |-> Len(issued) + 1, openid |-> FALSE,
                     refresh |-> IF provider = "google" THEN 0 ELSE IF provider = "mock" THEN Len(issued) + 1 ELSE r.refresh]
           replied == CASE provider = "google" -> Social!GoogleRefresh(r.refresh, IF takes THEN 200 ELSE 400, asked)
                        [] provider = "facebook" -> Social!FacebookLongLived(IF issued[r.access].live THEN 200 ELSE 400, asked)
                        [] provider = "line" -> Social!LineRefresh(IF takes THEN 200 ELSE 400, asked)
                        [] provider = "mock" -> Social!MockRefresh(takes, asked)
<1>4. PICK t : t = asked OBVIOUS
<1>a. t = [access |-> n, openid |-> no, refresh |-> held] BY <1>2, <1>n, <1>3, <1>4
<1>b. PICK reply : reply = replied OBVIOUS
<1>c. IF replied.is # "ok" THEN UNCHANGED <<actor, issued, dead>>
      ELSE /\ Social!Becomes(a, [at |-> "refreshed", tokens |-> replied.tokens, id |-> r.id])
           /\ IF provider = "mock"
              THEN /\ dead' = dead \cup {r.refresh}
                   /\ issued' = Append([k \in DOMAIN issued |-> IF issued[k].refresh = r.refresh THEN [issued[k] EXCEPT !.live = FALSE]
                                                                ELSE issued[k]],
                                       [of |-> r.identity, live |-> TRUE, refresh |-> Len(issued) + 1])
              ELSE Social!Issue(r.identity, replied.tokens) /\ UNCHANGED dead
  BY Zenon, <1>1
<1>5. reply = CASE provider = "google" -> Social!GoogleRefresh(r.refresh, IF takes THEN 200 ELSE 400, t)
                [] provider = "facebook" -> Social!FacebookLongLived(IF issued[r.access].live THEN 200 ELSE 400, t)
                [] provider = "line" -> Social!LineRefresh(IF takes THEN 200 ELSE 400, t)
                [] provider = "mock" -> Social!MockRefresh(takes, t)
  <2> HIDE DEF asked, takes
  <2>. QED BY <1>4, <1>b
<1> HIDE DEF asked, replied
<1>6. IF reply.is # "ok" THEN UNCHANGED <<actor, issued, dead>>
      ELSE /\ Social!Becomes(a, [at |-> "refreshed", tokens |-> reply.tokens, id |-> r.id])
           /\ IF provider = "mock"
              THEN /\ dead' = dead \cup {r.refresh}
                   /\ issued' = Append([k \in DOMAIN issued |-> IF issued[k].refresh = r.refresh THEN [issued[k] EXCEPT !.live = FALSE]
                                                                ELSE issued[k]],
                                       [of |-> r.identity, live |-> TRUE, refresh |-> n])
              ELSE Social!Issue(r.identity, reply.tokens) /\ UNCHANGED dead
  BY <1>b, <1>c, <1>n
<1>7. t.access = n /\ t.refresh = held BY <1>a
<1>8. reply.is = "ok" => /\ reply.tokens.access = n
                         /\ \/ provider = "mock" /\ takes /\ reply.tokens.refresh = n
                            \/ provider = "facebook" /\ reply.tokens.refresh = 0
                            \/ provider \in {"google", "line"} /\ takes /\ reply.tokens.refresh = r.refresh
  <2> HIDE DEF takes
  <2>1. ASSUME NEW q, q = IF takes THEN 200 ELSE 400 PROVE (q = 200 => takes) /\ q \in {200, 400} BY <2>1
  <2>2. CASE provider = "google"
    <3>1. PICK q : q = IF takes THEN 200 ELSE 400 OBVIOUS
    <3>2. reply = Social!GoogleRefresh(r.refresh, q, t) BY <1>5, <2>2, <3>1
    <3>3. PICK g : g = [Social!GoogleTokens(t) EXCEPT !.refresh = IF @ = 0 THEN r.refresh ELSE @] OBVIOUS
    <3>4. held = 0 BY <1>3, <2>2
    <3>5. g.access = n /\ g.refresh = r.refresh
      <4>1. PICK b : b = t.openid OBVIOUS
      <4>2. Social!GoogleTokens(t) = [access |-> n, refresh |-> 0, openid |-> b] BY <1>7, <3>4, <4>1 DEF Social!GoogleTokens
      <4>. QED BY <3>3, <4>2
    <3>6. reply.is = "ok" => q = 200 /\ reply.tokens = g BY <2>1, <3>1, <3>2, <3>3 DEF Social!GoogleRefresh
    <3>. QED BY <2>1, <2>2, <3>1, <3>5, <3>6
  <2>3. CASE provider = "facebook"
    <3>1. PICK q : q = IF issued[r.access].live THEN 200 ELSE 400 OBVIOUS
    <3>2. reply = Social!FacebookLongLived(q, t) BY <1>5, <2>3, <3>1
    <3>3. reply.is = "ok" => reply.tokens = Social!FacebookTokens(t) BY <3>2 DEF Social!FacebookLongLived
    <3>4. Social!FacebookTokens(t) = [access |-> n, refresh |-> 0, openid |-> no] BY <1>2, <1>7 DEF Social!FacebookTokens
    <3>. QED BY <2>3, <3>3, <3>4
  <2>4. CASE provider = "line"
    <3>1. PICK q : q = IF takes THEN 200 ELSE 400 OBVIOUS
    <3>2. reply = Social!LineRefresh(q, t) BY <1>5, <2>4, <3>1
    <3>3. PICK b : b = t.openid OBVIOUS
    <3>4. held = r.refresh BY <1>3, <2>4
    <3>5. Social!LineTokens(t) = [access |-> n, refresh |-> r.refresh, openid |-> b] BY <1>7, <3>3, <3>4 DEF Social!LineTokens
    <3>6. reply.is = "ok" => q = 200 /\ reply.tokens = Social!LineTokens(t) BY <2>1, <3>1, <3>2 DEF Social!LineRefresh
    <3>. QED BY <2>1, <2>4, <3>1, <3>5, <3>6
  <2>5. CASE provider = "mock"
    <3>1. reply = Social!MockRefresh(takes, t) BY <1>5, <2>5
    <3>2. held = n BY <1>3, <2>5
    <3>3. reply.is = "ok" => takes /\ reply.tokens = t BY <3>1 DEF Social!MockRefresh
    <3>. QED BY <1>7, <2>5, <3>2, <3>3
  <2>. QED BY <1>p, <2>2, <2>3, <2>4, <2>5
<1>9. CASE reply.is # "ok" BY <1>0, <1>6, <1>9
<1>10. CASE reply.is = "ok"
  <2>1. PICK u : u = reply.tokens OBVIOUS
  <2>2. /\ actor' = [actor EXCEPT ![a] = [at |-> "refreshed", tokens |-> u, id |-> r.id]]
        /\ IF provider = "mock"
           THEN /\ dead' = dead \cup {r.refresh}
                /\ issued' = Append([k \in DOMAIN issued |-> IF issued[k].refresh = r.refresh THEN [issued[k] EXCEPT !.live = FALSE] ELSE issued[k]],
                                    [of |-> r.identity, live |-> TRUE, refresh |-> n])
           ELSE issued' = Append(issued, [of |-> r.identity, live |-> TRUE, refresh |-> u.refresh]) /\ UNCHANGED dead
    BY <1>6, <1>10, <2>1 DEF Social!Becomes, Social!Issue
  <2>3. /\ u.access = n
        /\ \/ provider = "mock" /\ takes /\ u.refresh = n
           \/ provider = "facebook" /\ u.refresh = 0
           \/ provider \in {"google", "line"} /\ takes /\ u.refresh = r.refresh
    BY <1>8, <1>10, <2>1
  <2>. QED BY <1>0, <1>n, <2>2, <2>3
<1>. QED BY <1>9, <1>10

\* Nobody moves, while more is issued or withdrawn.
LEMMA TabsRest ==
  ASSUME SocialIInv, Grows, UNCHANGED <<provider, links, nextId, actor>>
  PROVE  ActorsHold' /\ LinksHold'
<1>1. LinksHold' BY HoldersStay
<1>2. ActorsHold'
  <2> SUFFICES ASSUME NEW b \in Tab
               PROVE  /\ HoldsTokens(actor'[b]) => Paired(actor'[b].tokens, provider', issued', dead')
                      /\ actor'[b].at \in {"known", "found"} => actor'[b].identity = issued'[actor'[b].tokens.access].of
                      /\ actor'[b].at = "refreshed" => \A o \in links' : o.id = actor'[b].id => o.identity = issued'[actor'[b].tokens.access].of
    BY DEF SocialIInv, ActorsHold, HoldsTokens
  <2>. QED BY HoldersStay
<1>. QED BY <1>1, <1>2

\* What is issued to the identity of a row is new, and what it replaces is withdrawn as a pair.
LEMMA RefreshKeeps == ASSUME SocialGiven, SocialIInv, NEW a \in Tab, Social!Refresh(a) PROVE SocialIInv'
<1>i. SocialTyped /\ FlowsInOrder /\ TokensIssued /\ ActorsHold /\ LinksHold BY DEF SocialIInv
<1>0. actor[a].at = "idle" /\ UNCHANGED <<provider, session, codes, links, flows, nextId>> BY RefreshDoes
<1>1. CASE UNCHANGED <<actor, issued, dead>>
  <2>1. SocialTyped' BY <1>0, <1>1, <1>i DEF SocialTyped
  <2>2. Grows BY <1>1, NothingWithdrawn
  <2>3. ActorsHold' /\ LinksHold' BY <1>0, <1>1, <2>2, TabsRest
  <2>4. FlowsInOrder' BY <1>0, <1>1, FlowsRest
  <2>5. TokensIssued' BY <1>0, <1>1, SocialRests
  <2>6. Answering' = Answering BY <1>1 DEF Answering
  <2>7. CodesUsedUp' BY <1>0, <2>6, CountsStay
  <2>. QED BY <2>1, <2>3, <2>4, <2>5, <2>7 DEF SocialIInv
<1>2. ASSUME NEW r \in links, NEW t,
         /\ actor' = [actor EXCEPT ![a] = [at |-> "refreshed", tokens |-> t, id |-> r.id]] /\ t.access = Len(issued) + 1
         /\ \/ /\ provider = "mock" /\ r.refresh # 0 /\ r.refresh \notin dead /\ t.refresh = Len(issued) + 1
               /\ dead' = dead \cup {r.refresh}
               /\ issued' = Append([k \in DOMAIN issued |-> IF issued[k].refresh = r.refresh THEN [issued[k] EXCEPT !.live = FALSE] ELSE issued[k]],
                                   [of |-> r.identity, live |-> TRUE, refresh |-> t.refresh])
            \/ /\ provider # "mock" /\ UNCHANGED dead
               /\ issued' = Append(issued, [of |-> r.identity, live |-> TRUE, refresh |-> t.refresh])
               /\ \/ provider = "facebook" /\ t.refresh = 0
                  \/ t.refresh = r.refresh /\ r.refresh # 0 /\ r.refresh \notin dead
      PROVE SocialIInv'
  <2>1. PICK n \in Nat : n = Len(issued) + 1 /\ DOMAIN issued = 1..(n - 1) /\ n # 0 BY <1>i DEF SocialTyped
  <2>2. PICK yes \in BOOLEAN, no \in BOOLEAN : yes /\ ~no OBVIOUS
  <2>3. /\ Paired(r, provider, issued, dead) /\ issued[r.access].of = r.identity /\ r.id < nextId
        /\ \A o \in links : o # r => o.id # r.id
    BY <1>i DEF LinksHold
  <2>4. /\ r.access \in DOMAIN issued /\ r.refresh \in DOMAIN issued \cup {0}
        /\ r.refresh # 0 => issued[r.refresh].of = r.identity
    BY <2>3 DEF Paired
  <2>5. r.identity \in Identity /\ r.id \in Nat BY <1>i DEF SocialTyped, LinkRow
  <2>6. t.refresh \in Nat /\ t.refresh \in DOMAIN issued \cup {0, n}
    <3>1. \A k \in DOMAIN issued : k \in Nat BY <1>i DEF SocialTyped
    <3>. QED BY <1>2, <2>1, <2>4, <3>1
  <2>7. PICK e \in TokenSet : e = [of |-> r.identity, live |-> TRUE, refresh |-> t.refresh]
    <3>1. [of |-> r.identity, live |-> TRUE, refresh |-> t.refresh] = [of |-> r.identity, live |-> yes, refresh |-> t.refresh] BY <2>2
    <3>. QED BY <2>5, <2>6, <3>1 DEF TokenSet
  <2>8. e.of = r.identity /\ e.live /\ e.refresh = t.refresh BY <2>7
  <2>9. PICK q \in Seq(TokenSet) :
           /\ Len(q) = Len(issued) /\ issued' = Append(q, e)
           /\ \A k \in DOMAIN issued : /\ q[k].of = issued[k].of /\ q[k].refresh = issued[k].refresh /\ (q[k].live => issued[k].live)
                                       /\ provider = "mock" /\ issued[k].refresh = r.refresh => ~q[k].live
    <3>1. CASE provider # "mock" BY <1>2, <1>i, <2>7, <3>1 DEF SocialTyped
    <3>2. CASE provider = "mock"
      <4>1. PICK q : q = [k \in DOMAIN issued |-> IF issued[k].refresh = r.refresh THEN [issued[k] EXCEPT !.live = FALSE] ELSE issued[k]] OBVIOUS
      <4>2. issued' = Append(q, e) BY <1>2, <2>7, <3>2, <4>1
      <4>3. ASSUME NEW k \in DOMAIN issued
            PROVE  /\ q[k] \in TokenSet /\ q[k].of = issued[k].of /\ q[k].refresh = issued[k].refresh /\ (q[k].live => issued[k].live)
                   /\ issued[k].refresh = r.refresh => ~q[k].live
        <5>0. issued[k] \in TokenSet BY <1>i DEF SocialTyped
        <5>1. CASE issued[k].refresh = r.refresh
          <6>1. q[k] = [issued[k] EXCEPT !.live = no] BY <2>2, <4>1, <5>1
          <6>2. PICK x \in TokenSet : x = issued[k] BY <5>0
          <6>3. [x EXCEPT !.live = no] \in TokenSet BY DEF TokenSet
          <6>4. [x EXCEPT !.live = no].of = x.of /\ [x EXCEPT !.live = no].refresh = x.refresh /\ [x EXCEPT !.live = no].live = no BY DEF TokenSet
          <6>. QED BY <2>2, <6>1, <6>2, <6>3, <6>4
        <5>2. CASE issued[k].refresh # r.refresh BY <4>1, <5>0, <5>2
        <5>. QED BY <5>1, <5>2
      <4>4. DOMAIN q = 1..Len(issued) /\ Len(issued) \in Nat BY <1>i, <4>1 DEF SocialTyped
      <4>5. q \in Seq(TokenSet) /\ Len(q) = Len(issued)
        <5>1. q = [k \in 1..Len(issued) |-> q[k]] BY <4>1, <4>4
        <5>2. \A k \in 1..Len(issued) : q[k] \in TokenSet BY <4>1, <4>3, <4>4
        <5>3. q \in [1..Len(issued) -> TokenSet] BY <5>1, <5>2, Zenon
        <5>. QED BY <4>4, <5>3
      <4>. QED BY <3>2, <4>2, <4>3, <4>5
    <3>. QED BY <3>1, <3>2
  <2>10. /\ issued' \in Seq(TokenSet) /\ DOMAIN issued' = 1..n /\ issued'[n] = e /\ \A j \in DOMAIN issued : issued'[j] = q[j]
    BY <1>i, <2>1, <2>9 DEF SocialTyped
  <2>11. /\ DOMAIN issued \subseteq DOMAIN issued' /\ n \in DOMAIN issued' /\ n \notin DOMAIN issued /\ 0 \notin DOMAIN issued
         /\ \A j \in DOMAIN issued' : j \in DOMAIN issued \/ j = n
    BY <2>1, <2>10
  <2>12. Grows
    <3>1. \A k \in DOMAIN issued : /\ issued'[k].of = issued[k].of /\ issued'[k].refresh = issued[k].refresh /\ (issued'[k].live => issued[k].live)
      BY <2>9, <2>10
    <3>2. ASSUME NEW u, Paired(u, provider, issued, dead), u.refresh \in dead' PROVE ~issued'[u.access].live
      <4>1. u.access \in DOMAIN issued BY <3>2 DEF Paired
      <4>2. CASE u.refresh \in dead BY <3>1, <3>2, <4>1, <4>2 DEF Paired
      <4>3. CASE provider = "mock" /\ u.refresh = r.refresh
        <5>1. issued[u.access].refresh = u.access /\ u.refresh = u.access BY <1>i, <3>2, <4>1, <4>3 DEF Paired, TokensIssued
        <5>. QED BY <2>9, <2>10, <4>1, <4>3, <5>1
      <4>. QED BY <1>2, <3>2, <4>2, <4>3
    <3>. QED BY <2>11, <3>1, <3>2 DEF Grows
  <2>13. Paired(t, provider', issued', dead')
    <3>1. t.access = n /\ n \in DOMAIN issued' /\ t.refresh \in DOMAIN issued' \cup {0} BY <1>2, <2>1, <2>6, <2>11
    <3>2. t.refresh # 0 => issued'[t.refresh].of = issued'[n].of
      <4>1. CASE t.refresh = n BY <4>1
      <4>2. CASE t.refresh # n /\ t.refresh # 0
        <5>1. t.refresh = r.refresh BY <1>2, <2>1, <4>2
        <5>. QED BY <2>4, <2>8, <2>9, <2>10, <4>2, <5>1
      <4>. QED BY <4>1, <4>2
    <3>3. t.refresh \notin dead'
      <4>1. n \notin dead /\ 0 \notin dead BY <1>i, <2>11 DEF TokensIssued
      <4>2. n # r.refresh BY <2>1, <2>4, <2>11
      <4>. QED BY <1>2, <2>1, <4>1, <4>2
    <3>4. provider = "mock" => t.refresh = t.access BY <1>2
    <3>. QED BY <1>0, <3>1, <3>2, <3>3, <3>4 DEF Paired
  <2>14. TokensIssued'
    <3>1. ASSUME NEW j \in DOMAIN issued'
          PROVE  /\ issued'[j].refresh \in DOMAIN issued' \cup {0}
                 /\ issued'[j].refresh # 0 => issued'[issued'[j].refresh].of = issued'[j].of
                 /\ provider' = "mock" => issued'[j].refresh = j
      <4>1. CASE j \in DOMAIN issued
        <5>1. issued'[j].refresh = issued[j].refresh /\ issued'[j].of = issued[j].of BY <2>9, <2>10, <4>1
        <5>2. issued[j].refresh # 0 => issued'[issued[j].refresh].of = issued[issued[j].refresh].of BY <1>i, <2>9, <2>10, <4>1 DEF TokensIssued
        <5>. QED BY <1>0, <1>i, <2>11, <4>1, <5>1, <5>2 DEF TokensIssued
      <4>2. CASE j = n
        <5>1. issued'[j].refresh = t.refresh /\ t.access = n BY <1>2, <2>1, <2>8, <2>10, <4>2
        <5>. QED BY <1>0, <2>13, <4>2, <5>1 DEF Paired
      <4>. QED BY <2>11, <4>1, <4>2
    <3>2. dead' \subseteq DOMAIN issued'
      <4>1. dead \subseteq DOMAIN issued' BY <1>i, <2>11 DEF TokensIssued
      <4>2. r.refresh # 0 => r.refresh \in DOMAIN issued' BY <2>4, <2>11
      <4>. QED BY <1>2, <4>1, <4>2
    <3>. QED BY <3>1, <3>2 DEF TokensIssued
  <2>15. PICK v : v = [at |-> "refreshed", tokens |-> t, id |-> r.id] OBVIOUS
  <2>16. v.at = "refreshed" /\ v.tokens = t /\ v.id = r.id BY <2>15
  <2>17. DOMAIN actor' = Tab /\ \A b \in Tab : actor'[b] = IF b = a THEN v ELSE actor[b] BY <1>2, <1>i, <2>15 DEF SocialTyped
  <2>18. DOMAIN actor' = Tab /\ ActorsHold' /\ LinksHold'
    <3>1. provider # "facebook" => t.refresh # 0 BY <1>2, <2>1
    <3>2. \A o \in links : o.id = r.id => o.identity = issued'[t.access].of BY <1>2, <2>1, <2>3, <2>8, <2>10
    <3>. QED BY <1>0, <2>3, <2>5, <2>12, <2>13, <2>16, <2>17, <3>1, <3>2, ActorMoves
  <2>19. SocialTyped' BY <1>0, <1>i, <2>10, <2>18 DEF SocialTyped
  <2>20. FlowsInOrder' BY <1>0, <2>16, <2>17, FlowsRest
  <2>21. Answering' \subseteq Answering BY <2>16, <2>17 DEF Answering
  <2>22. CodesUsedUp' BY <1>0, <2>21, CountsStay
  <2>. QED BY <2>14, <2>18, <2>19, <2>20, <2>22 DEF SocialIInv
<1>. QED BY <1>1, <1>2, RefreshDoes

\* Who takes a refresh token back takes the access tokens it belongs to.
LEMMA RevokeKeeps == ASSUME SocialGiven, SocialIInv, NEW r, Social!Revoke(r) PROVE SocialIInv'
<1>i. SocialTyped /\ FlowsInOrder /\ TokensIssued /\ ActorsHold /\ LinksHold BY DEF SocialIInv
<1>0. r \in links /\ UNCHANGED <<provider, session, actor, codes, links, flows, nextId>> BY DEF Social!Revoke
<1>1. PICK hit : hit = CASE provider \in {"google", "facebook"} -> {k \in DOMAIN issued : issued[k].of = issued[r.access].of} [] OTHER -> {r.access}
  OBVIOUS
<1>2. /\ issued' = [k \in DOMAIN issued |-> IF k \in hit THEN [issued[k] EXCEPT !.live = FALSE] ELSE issued[k]]
      /\ dead' = IF provider = "line" THEN dead ELSE dead \cup ({issued[k].refresh : k \in hit} \ {0})
  BY <1>1, Zenon DEF Social!Revoke
<1>3. PICK no \in BOOLEAN : ~no OBVIOUS
<1>4. ASSUME NEW k \in DOMAIN issued
      PROVE  /\ issued'[k] \in TokenSet /\ issued'[k].of = issued[k].of /\ issued'[k].refresh = issued[k].refresh
             /\ (issued'[k].live => issued[k].live) /\ (k \in hit => ~issued'[k].live)
  <2>0. PICK x \in TokenSet : x = issued[k] BY <1>i DEF SocialTyped
  <2>1. CASE k \in hit
    <3>1. issued'[k] = [x EXCEPT !.live = no] BY <1>2, <1>3, <2>0, <2>1
    <3>2. [x EXCEPT !.live = no] \in TokenSet BY DEF TokenSet
    <3>3. [x EXCEPT !.live = no].of = x.of /\ [x EXCEPT !.live = no].refresh = x.refresh /\ [x EXCEPT !.live = no].live = no BY DEF TokenSet
    <3>. QED BY <1>3, <2>0, <3>1, <3>2, <3>3
  <2>2. CASE k \notin hit BY <1>2, <2>0, <2>2
  <2>. QED BY <2>1, <2>2
<1>5. DOMAIN issued' = DOMAIN issued /\ issued' \in Seq(TokenSet)
  <2>1. DOMAIN issued' = 1..Len(issued) /\ Len(issued) \in Nat /\ DOMAIN issued = 1..Len(issued) BY <1>2, <1>i DEF SocialTyped
  <2>2. issued' = [k \in 1..Len(issued) |-> issued'[k]] BY <1>2, <2>1
  <2>3. issued' \in [1..Len(issued) -> TokenSet] BY <1>4, <2>1, <2>2, Zenon
  <2>. QED BY <2>1, <2>3
<1>6. Paired(r, provider, issued, dead) /\ r.access \in DOMAIN issued BY <1>0, <1>i DEF LinksHold, Paired
<1>7. hit \subseteq DOMAIN issued BY <1>1, <1>6
<1>8. Grows
  <2>1. ASSUME NEW t, Paired(t, provider, issued, dead), t.refresh \in dead' PROVE ~issued'[t.access].live
    <3>1. t.access \in DOMAIN issued BY <2>1 DEF Paired
    <3>2. CASE t.refresh \in dead BY <1>4, <2>1, <3>1, <3>2 DEF Paired
    <3>3. CASE t.refresh \notin dead
      <4>1. provider # "line" BY <1>2, <2>1, <3>3
      <4>2. PICK k \in hit : t.refresh = issued[k].refresh /\ t.refresh # 0 BY <1>2, <2>1, <3>3, <4>1
      <4>3. CASE provider = "mock"
        <5>1. hit = {r.access} BY <1>1, <4>3
        <5>2. issued[k].refresh = k /\ t.refresh = t.access BY <1>7, <1>i, <2>1, <4>2, <4>3 DEF TokensIssued, Paired
        <5>. QED BY <1>4, <3>1, <4>2, <5>2
      <4>4. CASE provider \in {"google", "facebook"}
        <5>1. hit = {k2 \in DOMAIN issued : issued[k2].of = issued[r.access].of} BY <1>1, <4>4
        <5>2. issued[issued[k].refresh].of = issued[k].of BY <1>7, <1>i, <4>2 DEF TokensIssued
        <5>3. issued[t.refresh].of = issued[t.access].of BY <2>1, <4>2 DEF Paired
        <5>4. t.access \in hit BY <3>1, <4>2, <5>1, <5>2, <5>3
        <5>. QED BY <1>4, <3>1, <5>4
      <4>. QED BY <1>i, <4>1, <4>3, <4>4 DEF SocialTyped
    <3>. QED BY <3>2, <3>3
  <2>. QED BY <1>4, <1>5, <2>1 DEF Grows
<1>9. SocialTyped' BY <1>0, <1>5, <1>i DEF SocialTyped
<1>10. ActorsHold' /\ LinksHold' BY <1>0, <1>8, TabsRest
<1>11. FlowsInOrder' BY <1>0, FlowsRest
<1>12. TokensIssued'
  <2>1. \A k \in DOMAIN issued' :
           /\ issued'[k].refresh \in DOMAIN issued' \cup {0}
           /\ issued'[k].refresh # 0 => issued'[issued'[k].refresh].of = issued'[k].of
           /\ provider' = "mock" => issued'[k].refresh = k
    BY <1>0, <1>4, <1>5, <1>i DEF TokensIssued
  <2>2. dead' \subseteq DOMAIN issued' BY <1>2, <1>5, <1>7, <1>i DEF TokensIssued
  <2>. QED BY <2>1, <2>2 DEF TokensIssued
<1>13. CodesUsedUp'
  <2>1. Answering' = Answering BY <1>0 DEF Answering
  <2>. QED BY <1>0, <2>1, CountsStay
<1>. QED BY <1>9, <1>10, <1>11, <1>12, <1>13 DEF SocialIInv

\* Every step.
LEMMA SocialKept == ASSUME SocialGiven, SocialIInv, [Social!Next]_socialVars PROVE SocialIInv'
<1>1. ASSUME NEW a \in Tab,
             Social!Start(a) \/ Social!Callback(a) \/ Social!Profile(a) \/ Social!Find(a) \/ Social!Connect(a) \/ Social!Refresh(a) \/ Social!Store(a)
      PROVE  SocialIInv'
  BY <1>1, StartKeeps, CallbackKeeps, ProfileKeeps, FindKeeps, ConnectKeeps, RefreshKeeps, StoreKeeps
<1>2. ASSUME NEW u \in User, NEW tenant, Social!Disconnect(u) \/ Social!TenantedDisconnect(u, tenant) PROVE SocialIInv'
  <2>1. links' \subseteq links /\ UNCHANGED <<provider, session, actor, codes, issued, dead, flows, nextId>>
    BY <1>2 DEF Social!Disconnect, Social!TenantedDisconnect
  <2>. QED BY <2>1, DisconnectKeeps
<1>3. ASSUME NEW r \in links, Social!Revoke(r) PROVE SocialIInv' BY <1>3, RevokeKeeps
<1>4. CASE UNCHANGED socialVars
  <2>1. links' \subseteq links /\ UNCHANGED <<provider, session, actor, codes, issued, dead, flows, nextId>> BY <1>4 DEF socialVars
  <2>. QED BY <2>1, DisconnectKeeps
<1>. QED BY <1>1, <1>2, <1>3, <1>4 DEF Social!Next

\* The invariant says what the run checks.
LEMMA SocialHolds == ASSUME SocialIInv PROVE Social!SocialLoginInv
<1>i. SocialTyped /\ FlowsInOrder /\ TokensIssued /\ LinksHold BY DEF SocialIInv
<1>1. Social!LinksAreWhole BY <1>i DEF LinksHold, Paired, Social!LinksAreWhole
<1>2. Social!OneExchangePerCode
  <2>1. \A S : Social!Cardinality(S) = Cardinality(S) BY Zenon DEF Social!Cardinality, Cardinality
  <2>2. Cardinality(Answering) <= Cardinality(UsedUp) BY DEF SocialIInv, CodesUsedUp
  <2>3. Social!Cardinality({a \in Tab : actor[a].at \in {"exchanged", "known", "found"}})
          <= Social!Cardinality({k \in DOMAIN codes : codes[k].used})
    BY <2>1, <2>2 DEF Answering, UsedUp
  <2>4. \A s \in Session : session[s].state # 0 => ~codes[session[s].state].used \/ provider # "mock" BY <1>i DEF FlowsInOrder
  <2>. QED BY <2>3, <2>4 DEF Social!OneExchangePerCode
<1>3. Social!RefreshTokensKept
  <2>1. \A r \in links : /\ r.refresh \in dead => ~issued[r.access].live
                         /\ provider # "facebook" /\ r.by = "refresh" => r.refresh # 0
    BY <1>i DEF LinksHold, Paired
  <2>. QED BY <2>1 DEF Social!RefreshTokensKept
<1>4. Social!CapabilitiesHold
  BY DEF Social!CapabilitiesHold, Social!GoogleCaps, Social!GoogleFields, Social!FacebookCaps, Social!FacebookFields, Social!LineCaps,
         Social!LineFields, Social!LineIdTokenFields
<1>. QED BY <1>1, <1>2, <1>3, <1>4 DEF Social!SocialLoginInv

\* However sign-ins, links, refreshes and withdrawals interleave: an identity is one user's of a
\* tenant, the tokens of a link are its identity's, a code is exchanged once, and a stored refresh
\* token that is no longer taken has lost its access token too.
THEOREM LinksStayWhole ==
  ASSUME SocialGiven
  PROVE  Social!Init /\ [][Social!Next]_socialVars => []Social!SocialLoginInv
<1>1. Social!Init => SocialIInv BY SocialStarts
<1>2. SocialIInv /\ [Social!Next]_socialVars => SocialIInv' BY SocialKept
<1>3. SocialIInv => Social!SocialLoginInv BY SocialHolds
<1>. QED BY <1>1, <1>2, <1>3, PTL

(***************************************************************************)
(* The property of the run.                                                *)
(***************************************************************************)
\* In the run, where other parts stand beside it, UnitOfWork promises the same: events follow
\* the fate of their writes, locks exclude, statements run under the tenant of their scope.
THEOREM ScopesSafe == PlatformSpec => []UnitOfWorkInv
<1>1. PlatformInit => Init BY DEF PlatformInit
<1>2. [PlatformNext]_platformVars => [Next]_vars BY DEF PlatformNext, platformVars, unitVars
<1>. QED BY <1>1, <1>2, UnitOfWorkInvariant, PTL DEF PlatformSpec, Spec

\* What leaves the process: each of the four parts starts as its own Init says, and takes its own
\* steps or rests.
LEMMA OutboundParts ==
  /\ PlatformInit => Payments!Init /\ Social!Init /\ Notify!Init /\ Mail!Init
  /\ [PlatformNext]_platformVars =>
       [Payments!Next]_payVars /\ [Social!Next]_socialVars /\ [Notify!Next]_notifyVars /\ [Mail!Next]_mailVars
<1>1. PlatformInit => Payments!Init /\ Social!Init /\ Notify!Init /\ Mail!Init BY DEF PlatformInit
<1>2. ASSUME PlatformNext
      PROVE  [Payments!Next]_payVars /\ [Social!Next]_socialVars /\ [Notify!Next]_notifyVars /\ [Mail!Next]_mailVars
  BY <1>2 DEF PlatformNext
<1>3. UNCHANGED platformVars => UNCHANGED <<payVars, socialVars, notifyVars, mailVars>> BY DEF platformVars
<1>. QED BY <1>1, <1>2, <1>3

\* In the run: an order is charged once while the driver honours its key, a code is spent by the tab
\* that asked for it, a notification reaches the channels it names, a mail is delivered once for each
\* attempt.
THEOREM OutboundSafe ==
  ASSUME PayGiven, SocialGiven, SendingsBounded, MailGiven
  PROVE  PlatformSpec => []OutboundInv
<1>1. Payments!PaymentDriversInv /\ Social!SocialLoginInv /\ Notify!NotificationsInv /\ Mail!MailingInv => OutboundInv
  BY DEF OutboundInv
<1>. QED BY <1>1, OutboundParts, ChargedOncePerKey, LinksStayWhole, ChannelsAreAnswered, MailIsAnsweredOnce, PTL DEF PlatformSpec
=============================================================================
