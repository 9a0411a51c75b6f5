--------------------------- MODULE JobQueueProofs ---------------------------
(***************************************************************************)
(* For any number of tasks, workers, operators, faults and crashes:         *)
(* QueueInv is an inductive invariant of JobQueue, hence type correctness,  *)
(* mutual exclusion between workers and the attempt budget; a job exists    *)
(* only if its transaction committed, and a committed job never disappears. *)
(* When one operator retries at a time: a job is in one place, and only a   *)
(* failed statement makes it succeed twice; and the queue implements the    *)
(* ledger of JobLedger.  The invariants of the second half add to QueueInv  *)
(* what those properties need.                                              *)
(***************************************************************************)
EXTENDS JobQueue, FiniteSetTheorems, TLAPS

USE DEF Attempts, Ids

\* A claim record and the idle record, told apart by their program counter.
LEMMA BusyIsClaim ==
    ASSUME TypeOK, NEW w \in Worker
    PROVE  /\ Busy(w) => work[w] \in Claim
           /\ ~Busy(w) => work[w] = Idle
           /\ work[w] \in Claim <=> Busy(w)
  BY DEF TypeOK, Busy, Claim, Idle

\* A transaction that dispatched holds the id of its row.
LEMMA UowIdType ==
    ASSUME TypeOK, NEW t \in Task, uow[t].state = "dispatched"
    PROVE  uow[t].id \in Ids /\ uow[t].id \in Nat
  BY DEF TypeOK, UowState

\* The worker's attempt budget is a positive number.
LEMMA BudgetType ==
    ASSUME NEW t \in Task, NEW max \in Attempts
    PROVE  Budget(t, max) \in Attempts
  BY QueueAssumption DEF Budget

\* So is the max_attempts that a dispatch writes.
LEMMA DispatchMaxType ==
    ASSUME NEW t \in Task
    PROVE  DispatchMax(t) \in Attempts
  BY QueueAssumption DEF DispatchMax

\* The row a dispatch writes.
LEMMA DispatchedRow ==
    ASSUME NEW t \in Task, NEW due \in BOOLEAN
    PROVE  LET row == NewRow(t, DispatchMax(t), due) IN
           row \in Row /\ row.attempts = 0 /\ ~row.reserved
  BY DispatchMaxType DEF NewRow, Row

\* Empty tables and idle processes satisfy the invariant.
THEOREM InitInv == Init => QueueInv
  <1> SUFFICES ASSUME Init PROVE QueueInv
    OBVIOUS
  <1>1. TypeOK
    BY QueueAssumption DEF Init, TypeOK, NoRows, Idle, UowState, Row, DeadLetter
  <1>2. IdsFresh /\ HeldRowsMatch /\ MutualExclusion /\ AttemptBudget
    BY DEF Init, NoRows, Idle, Busy, IdsFresh, HeldRowsMatch, MutualExclusion, AttemptBudget
  <1> QED
    BY <1>1, <1>2 DEF QueueInv

-----------------------------------------------------------------------------
(* Dispatching *)

\* UnitOfWork.run opens a transaction: no row is visible yet.
LEMMA UowBeginInv == ASSUME QueueInv, NEW t \in Task, UowBegin(t) PROVE QueueInv'
  <1> USE DEF UowBegin, QueueInv, tables, history
  <1>1. TypeOK'
    BY DEF TypeOK, UowState
  <1>2. IdsFresh'
    BY DEF TypeOK, IdsFresh, Busy
  <1>3. HeldRowsMatch' /\ MutualExclusion' /\ AttemptBudget'
    BY DEF HeldRowsMatch, MutualExclusion, AttemptBudget, Busy
  <1> QED
    BY <1>1, <1>2, <1>3

\* An INSERT inside the transaction: it takes an id no visible row has.
LEMMA DispatchInUowInv ==
    ASSUME QueueInv, NEW t \in Task, NEW due \in BOOLEAN, DispatchInUow(t, due)
    PROVE  QueueInv'
  <1> USE DEF DispatchInUow, QueueInv, tables, history
  <1>0. lastId' \in Ids /\ lastId < lastId'
    BY QueueAssumption DEF TypeOK
  <1>1. TypeOK'
    BY <1>0, QueueAssumption DEF TypeOK, UowState
  <1>2. IdsFresh'
    <2>1. DOMAIN jobs' \subseteq 1..lastId' /\ \A w \in Worker : Busy(w)' => work'[w].id <= lastId'
      <3>1. \A w \in Worker : Busy(w) => work[w].id \in Ids
        BY BusyIsClaim DEF Claim
      <3> QED
        BY <1>0, <3>1 DEF TypeOK, IdsFresh, Busy
    <2>2. lastId' \notin DOMAIN jobs /\ \A w \in Worker : Busy(w) => work[w].id # lastId'
      BY <1>0 DEF TypeOK, IdsFresh
    <2>3. \A u \in Task \ {t} : uow[u].state = "dispatched" =>
             uow[u].id # lastId' /\ uow[u].id <= lastId'
      <3>1. \A u \in Task : uow[u].state = "dispatched" => uow[u].id \in Ids
        BY DEF TypeOK, UowState
      <3> QED
        BY <1>0, <3>1 DEF TypeOK, IdsFresh
    <2>4. uow'[t].id = lastId' /\ \A u \in Task \ {t} : uow'[u] = uow[u]
      BY DEF TypeOK
    <2> QED
      BY <1>0, <2>1, <2>2, <2>3, <2>4 DEF IdsFresh, Busy
  <1>3. HeldRowsMatch' /\ MutualExclusion' /\ AttemptBudget'
    BY DEF HeldRowsMatch, MutualExclusion, AttemptBudget, Busy
  <1> QED
    BY <1>1, <1>2, <1>3

\* A row that becomes visible under an id no table and no worker uses.
LEMMA NewJobInv ==
    ASSUME QueueInv, NEW t \in Task, NEW id \in Ids, NEW row \in Row,
           row.attempts = 0, ~row.reserved,
           id <= lastId', lastId <= lastId', lastId' \in Ids,
           id \notin DOMAIN jobs,
           \A w \in Worker : Busy(w) => work[w].id # id,
           \A u \in Task \ {t} : uow[u].state = "dispatched" => uow[u].id # id,
           jobs' = With(jobs, id, row),
           uow' = [uow EXCEPT ![t] = [state |-> "committed"]],
           UNCHANGED <<failed, work, op, faults, crashes, history>>
    PROVE  QueueInv'
  <1> USE DEF QueueInv, history
  <1>0. row.task \in Task /\ row.max \in Attempts
    BY DEF Row
  <1>00. DOMAIN jobs \subseteq Ids /\ jobs \in [DOMAIN jobs -> Row]
    BY DEF TypeOK
  <1>j. /\ DOMAIN jobs' = DOMAIN jobs \cup {id}
        /\ jobs' \in [DOMAIN jobs' -> Row]
        /\ DOMAIN jobs' \subseteq Ids
        /\ jobs'[id] = row
        /\ \A i \in DOMAIN jobs : jobs'[i] = jobs[i]
    BY <1>00 DEF With
  <1>1. TypeOK'
    BY <1>j, QueueAssumption DEF TypeOK, UowState
  <1>2. IdsFresh'
    <2>1. DOMAIN jobs' \subseteq 1..lastId'
      BY <1>j, QueueAssumption DEF IdsFresh, TypeOK
    <2>2. \A w \in Worker : Busy(w)' => work'[w].id <= lastId'
      <3>1. \A w \in Worker : Busy(w) => work[w].id \in Ids
        BY BusyIsClaim DEF Claim
      <3> QED
        BY <3>1, QueueAssumption DEF IdsFresh, TypeOK, Busy
    <2>3. \A u \in Task : uow[u].state = "dispatched" => uow[u].id \in Ids
      BY DEF TypeOK, UowState
    <2>4. \A u \in Task \ {t} : uow'[u] = uow[u]
      BY DEF TypeOK
    <2>5. uow'[t].state = "committed"
      BY DEF TypeOK
    <2> QED
      BY <1>j, <2>1, <2>2, <2>3, <2>4, <2>5, QueueAssumption DEF IdsFresh, TypeOK, Busy
  <1>3. HeldRowsMatch'
    BY <1>j DEF HeldRowsMatch, Busy
  <1>4. MutualExclusion'
    BY DEF MutualExclusion, Busy
  <1>5. AttemptBudget'
    <2>1. Budget(row.task, row.max) \in Attempts
      BY <1>0, BudgetType
    <2> QED
      BY <1>0, <1>j, <2>1 DEF AttemptBudget, Busy
  <1> QED
    BY <1>1, <1>2, <1>3, <1>4, <1>5

\* The transaction commits: its row joins strav_jobs under that id.
LEMMA UowCommitInv == ASSUME QueueInv, NEW t \in Task, UowCommit(t) PROVE QueueInv'
  <1>1. uow[t].state = "dispatched" /\ uow[t].id \in Ids /\ uow[t].due \in BOOLEAN
    BY DEF UowCommit, QueueInv, TypeOK, UowState
  <1>2. /\ lastId' \in Ids /\ lastId' = lastId /\ uow[t].id <= lastId' /\ lastId <= lastId'
    BY <1>1, QueueAssumption DEF UowCommit, QueueInv, TypeOK, IdsFresh
  <1>3. /\ uow[t].id \notin DOMAIN jobs
        /\ \A w \in Worker : Busy(w) => work[w].id # uow[t].id
        /\ \A u \in Task \ {t} : uow[u].state = "dispatched" => uow[u].id # uow[t].id
    BY <1>1 DEF QueueInv, IdsFresh
  <1>4. PICK row \in Row : row.attempts = 0 /\ ~row.reserved /\ jobs' = With(jobs, uow[t].id, row)
    BY <1>1, DispatchedRow DEF UowCommit
  <1>5. /\ uow' = [uow EXCEPT ![t] = [state |-> "committed"]]
        /\ UNCHANGED <<failed, work, op, faults, crashes, history>>
    BY DEF UowCommit
  <1> QED
    BY <1>1, <1>2, <1>3, <1>4, <1>5, NewJobInv, ZenonT(60)

\* An autocommitted INSERT: a fresh id, no attempts, no holder.
LEMMA DispatchAloneInv ==
    ASSUME QueueInv, NEW t \in Task, NEW due \in BOOLEAN, DispatchAlone(t, due)
    PROVE  QueueInv'
  <1>1. PICK id \in Ids : id = lastId + 1 /\ lastId' = id /\ lastId <= id
    BY QueueAssumption DEF DispatchAlone, QueueInv, TypeOK
  <1>2. id \notin DOMAIN jobs
    BY <1>1 DEF QueueInv, IdsFresh, TypeOK
  <1>3. \A w \in Worker : Busy(w) => work[w].id # id
    BY <1>1 DEF QueueInv, IdsFresh, TypeOK
  <1>4. \A u \in Task \ {t} : uow[u].state = "dispatched" => uow[u].id # id
    BY <1>1 DEF QueueInv, IdsFresh, TypeOK
  <1>5. PICK row \in Row : row.attempts = 0 /\ ~row.reserved /\ jobs' = With(jobs, id, row)
    BY <1>1, DispatchedRow DEF DispatchAlone
  <1>6. /\ uow' = [uow EXCEPT ![t] = [state |-> "committed"]]
        /\ UNCHANGED <<failed, work, op, faults, crashes, history>>
    BY DEF DispatchAlone
  <1>7. id <= lastId' /\ lastId <= lastId' /\ lastId' \in Ids
    BY <1>1
  <1> QED
    BY <1>2, <1>3, <1>4, <1>5, <1>6, <1>7, NewJobInv

\* The transaction rolls back: its id is never used.
LEMMA UowRollbackInv == ASSUME QueueInv, NEW t \in Task, UowRollback(t) PROVE QueueInv'
  <1> USE DEF UowRollback, QueueInv, tables, history
  <1>1. TypeOK'
    BY DEF TypeOK, UowState
  <1>2. IdsFresh'
    BY DEF TypeOK, IdsFresh, Busy
  <1>3. HeldRowsMatch' /\ MutualExclusion' /\ AttemptBudget'
    BY DEF HeldRowsMatch, MutualExclusion, AttemptBudget, Busy
  <1> QED
    BY <1>1, <1>2, <1>3

\* available_at passes: only the due flag of a row changes.
LEMMA BecomeDueInv == ASSUME QueueInv, NEW i \in Ids, BecomeDue(i) PROVE QueueInv'
  <1> USE DEF BecomeDue, QueueInv, tables, history
  <1>0. /\ DOMAIN jobs' = DOMAIN jobs
        /\ \A j \in DOMAIN jobs :
              /\ jobs'[j].task = jobs[j].task /\ jobs'[j].attempts = jobs[j].attempts
              /\ jobs'[j].max = jobs[j].max /\ jobs'[j].reserved = jobs[j].reserved
    BY DEF TypeOK, Row
  <1>1. TypeOK'
    BY DEF TypeOK, Row
  <1>2. IdsFresh'
    BY <1>0 DEF IdsFresh, Busy
  <1>3. HeldRowsMatch' /\ MutualExclusion' /\ AttemptBudget'
    BY <1>0 DEF HeldRowsMatch, MutualExclusion, AttemptBudget, Busy
  <1> QED
    BY <1>1, <1>2, <1>3

-----------------------------------------------------------------------------
(* Worker steps *)

\* FOR UPDATE SKIP LOCKED: the row picked is unreserved and unlocked, so no
\* other worker holds it.
LEMMA ClaimSelectInv == ASSUME QueueInv, NEW w \in Worker, ClaimSelect(w) PROVE QueueInv'
  <1> USE DEF QueueInv, tables, history
  <1>0. PICK i \in Claimable(w) : work' = [work EXCEPT ![w] =
              [pc |-> "claiming", id |-> i, task |-> jobs[i].task,
               attempts |-> jobs[i].attempts + 1, max |-> jobs[i].max]]
    BY DEF ClaimSelect
  <1>1. /\ i \in DOMAIN jobs /\ i \notin Locked /\ ~jobs[i].reserved
        /\ jobs[i] \in Row /\ i \in Ids /\ i <= lastId
    BY DEF Claimable, TypeOK, IdsFresh
  <1>2. work'[w] = [pc |-> "claiming", id |-> i, task |-> jobs[i].task,
                    attempts |-> jobs[i].attempts + 1, max |-> jobs[i].max]
    BY <1>0 DEF TypeOK
  <1>3. \A v \in Worker \ {w} : work'[v] = work[v]
    BY <1>0 DEF TypeOK
  <1>4. work'[w] \in Claim
    BY <1>1, <1>2 DEF Claim, Row
  <1>5. \A v \in Worker \ {w} : Busy(v) => work[v].id # i
    <2> SUFFICES ASSUME NEW v \in Worker \ {w}, Busy(v), work[v].id = i PROVE FALSE
      OBVIOUS
    <2>1. CASE work[v].pc = "claiming"
      BY <1>1, <2>1 DEF Locked
    <2>2. CASE work[v].pc # "claiming"
      BY <1>1, <2>2 DEF HeldRowsMatch
    <2> QED
      BY <2>1, <2>2
  <1> USE DEF ClaimSelect
  <1>6. TypeOK'
    BY <1>0, <1>4 DEF TypeOK
  <1>7. IdsFresh'
    BY <1>1, <1>2, <1>3 DEF IdsFresh, Busy
  <1>8. HeldRowsMatch'
    BY <1>1, <1>2, <1>3 DEF HeldRowsMatch, Busy
  <1>9. MutualExclusion'
    BY <1>2, <1>3, <1>5 DEF MutualExclusion, Busy
  <1>10. AttemptBudget'
    <2>1. Budget(jobs[i].task, jobs[i].max) \in Attempts /\ jobs[i].attempts \in Nat
      BY <1>1, BudgetType DEF Row
    <2>2. jobs[i].attempts + 1 <= Budget(jobs[i].task, jobs[i].max)
      BY <1>1, <2>1 DEF AttemptBudget
    <2> QED
      BY <1>2, <1>3, <2>2 DEF AttemptBudget, Busy
  <1> QED
    BY <1>6, <1>7, <1>8, <1>9, <1>10

After == {"idle", "claimed", "deleting", "failing"}

\* What moving a busy worker's program counter does to its record.
LEMMA GotoEffect ==
    ASSUME TypeOK, NEW w \in Worker, Busy(w), NEW pc \in After, Goto(w, pc)
    PROVE  /\ work' \in [Worker -> Claim \cup {Idle}]
           /\ \A v \in Worker \ {w} : work'[v] = work[v]
           /\ pc = "idle" => ~Busy(w)'
           /\ pc # "idle" => Busy(w)'
           /\ Busy(w)' => /\ work'[w].pc = pc
                          /\ work'[w].id = work[w].id
                          /\ work'[w].task = work[w].task
                          /\ work'[w].attempts = work[w].attempts
                          /\ work'[w].max = work[w].max
  <1>1. work[w] \in Claim
    BY BusyIsClaim
  <1>2. CASE pc = "idle"
    BY <1>2 DEF Goto, TypeOK, Idle, Busy
  <1>3. CASE pc # "idle"
    <2>1. work' = [work EXCEPT ![w] = [work[w] EXCEPT !.pc = pc]]
      BY <1>3 DEF Goto
    <2>2. [work[w] EXCEPT !.pc = pc] \in Claim
      BY <1>1, <1>3 DEF Claim, After
    <2> QED
      BY <1>1, <1>3, <2>1, <2>2 DEF TypeOK, Busy, Claim
  <1> QED
    BY <1>2, <1>3

\* A worker step touches no row but its own, and leaves that row deleted, or
\* as the worker's next record describes it, with its attempts in budget.
LEMMA WorkerStepInv ==
    ASSUME QueueInv, TypeOK', NEW w \in Worker, Busy(w), NEW pc \in After, Goto(w, pc),
           DOMAIN jobs' \subseteq DOMAIN jobs,
           DOMAIN jobs \ {work[w].id} \subseteq DOMAIN jobs',
           \A j \in DOMAIN jobs' : j # work[w].id => jobs'[j] = jobs[j],
           work[w].id \in DOMAIN jobs' =>
              LET i == work[w].id IN
              /\ jobs'[i].task = jobs[i].task
              /\ jobs'[i].max = jobs[i].max
              /\ jobs'[i].attempts <= Budget(jobs[i].task, jobs[i].max)
              /\ ~jobs'[i].reserved => jobs'[i].attempts < Budget(jobs[i].task, jobs[i].max)
              /\ pc # "idle" => jobs'[i].reserved /\ jobs'[i].attempts = work[w].attempts,
           lastId <= lastId',
           uow' = uow
    PROVE  QueueInv'
  <1> DEFINE i == work[w].id
  <1>0. /\ \A v \in Worker \ {w} : work'[v] = work[v]
        /\ pc = "idle" => ~Busy(w)'
        /\ Busy(w)' => /\ work'[w].pc = pc
                       /\ work'[w].id = i
                       /\ work'[w].task = work[w].task
                       /\ work'[w].attempts = work[w].attempts
                       /\ work'[w].max = work[w].max
    BY GotoEffect DEF QueueInv
  <1>00. pc # "claiming"
    BY DEF After
  <1>1. \A v \in Worker \ {w} : Busy(v)' <=> Busy(v)
    BY <1>0 DEF Busy
  <1>2. \A v \in Worker \ {w} : Busy(v) => work[v].id # i
    BY DEF QueueInv, MutualExclusion
  <1>3. MutualExclusion'
    BY <1>0, <1>1, <1>2 DEF QueueInv, MutualExclusion
  <1>4. IdsFresh'
    <2>1. lastId \in Nat /\ lastId' \in Nat
      BY DEF QueueInv, TypeOK
    <2>2. DOMAIN jobs' \subseteq 1..lastId'
      BY <2>1 DEF QueueInv, IdsFresh
    <2>3. \A v \in Worker : Busy(v) => work[v].id \in Nat
      BY BusyIsClaim DEF QueueInv, Claim
    <2>4. \A v \in Worker : Busy(v)' => work'[v].id <= lastId'
      BY <1>0, <1>1, <2>1, <2>3 DEF QueueInv, IdsFresh
    <2>5. \A t \in Task : uow[t].state = "dispatched" => uow[t].id \in Nat
      BY DEF QueueInv, TypeOK, UowState
    <2>6. \A t \in Task : uow'[t].state = "dispatched" =>
            /\ uow'[t].id <= lastId'
            /\ uow'[t].id \notin DOMAIN jobs'
            /\ \A v \in Worker : Busy(v)' => work'[v].id # uow'[t].id
            /\ \A u \in Task : uow'[u].state = "dispatched" /\ uow'[u].id = uow'[t].id => u = t
      BY <1>0, <1>1, <2>1, <2>5 DEF QueueInv, IdsFresh
    <2> QED
      BY <2>2, <2>4, <2>6 DEF IdsFresh
  <1>5. HeldRowsMatch'
    <2> SUFFICES ASSUME NEW v \in Worker, Busy(v)'
                 PROVE  LET k == work'[v].id
                            claiming == work'[v].pc = "claiming" IN
                        /\ claiming => k \in DOMAIN jobs' /\ ~jobs'[k].reserved
                        /\ k \in DOMAIN jobs' =>
                            /\ ~claiming => jobs'[k].reserved
                            /\ jobs'[k].task = work'[v].task
                            /\ jobs'[k].max = work'[v].max
                            /\ work'[v].attempts = jobs'[k].attempts + IF claiming THEN 1 ELSE 0
      BY DEF HeldRowsMatch
    <2>1. CASE v # w
      <3>1. work'[v] = work[v] /\ Busy(v) /\ work[v].id # i
        BY <1>0, <1>1, <1>2, <2>1
      <3>2. work[v].id \in DOMAIN jobs' =>
               work[v].id \in DOMAIN jobs /\ jobs'[work[v].id] = jobs[work[v].id]
        BY <3>1
      <3>3. work[v].id \in DOMAIN jobs => work[v].id \in DOMAIN jobs'
        BY <3>1
      <3> QED
        BY <3>1, <3>2, <3>3 DEF QueueInv, HeldRowsMatch
    <2>2. CASE v = w
      <3>1. i \in DOMAIN jobs => jobs[i].task = work[w].task /\ jobs[i].max = work[w].max
        BY DEF QueueInv, HeldRowsMatch
      <3>2. i \in DOMAIN jobs' => jobs'[i].attempts \in Nat
        BY DEF TypeOK, Row
      <3> QED
        BY <1>0, <1>00, <2>2, <3>1, <3>2
    <2> QED
      BY <2>1, <2>2
  <1>6. AttemptBudget'
    <2>1. \A j \in DOMAIN jobs' : j # i => jobs'[j] = jobs[j] /\ j \in DOMAIN jobs
      OBVIOUS
    <2>2. ASSUME NEW j \in DOMAIN jobs'
          PROVE  /\ jobs'[j].attempts <= Budget(jobs'[j].task, jobs'[j].max)
                 /\ ~jobs'[j].reserved => jobs'[j].attempts < Budget(jobs'[j].task, jobs'[j].max)
      <3>1. CASE j = i
        BY <3>1
      <3>2. CASE j # i
        BY <2>1, <3>2 DEF QueueInv, AttemptBudget
      <3> QED
        BY <3>1, <3>2
    <2>3. ASSUME NEW v \in Worker, Busy(v)'
          PROVE  work'[v].attempts <= Budget(work'[v].task, work'[v].max)
      BY <1>0, <1>1, <2>3 DEF QueueInv, AttemptBudget
    <2> QED
      BY <2>2, <2>3 DEF AttemptBudget
  <1> QED
    BY <1>3, <1>4, <1>5, <1>6 DEF QueueInv

\* A worker's write spends at most one of the faults left.
LEMMA WriteFaults ==
    ASSUME TypeOK, NEW w, NEW jobs1, NEW failed1, NEW pc, NEW pcError,
           Write(w, jobs1, failed1, pc, pcError)
    PROVE  faults' \in 0..MaxFaults
  BY QueueAssumption DEF Write, Fault, TypeOK

\* A worker step that deletes its row or leaves the tables alone.
LEMMA RowDeletedOrKept ==
    ASSUME QueueInv, TypeOK', NEW w \in Worker, Busy(w), NEW pc \in After, Goto(w, pc),
           jobs' = jobs \/ jobs' = Without(jobs, {work[w].id}),
           work[w].pc = "claiming" => pc = "idle",
           lastId <= lastId', uow' = uow
    PROVE  QueueInv'
  <1> DEFINE i == work[w].id
  <1>1. /\ DOMAIN jobs' \subseteq DOMAIN jobs
        /\ DOMAIN jobs \ {i} \subseteq DOMAIN jobs'
        /\ \A j \in DOMAIN jobs' : jobs'[j] = jobs[j]
    BY DEF Without
  <1>2. i \in DOMAIN jobs' =>
              /\ jobs'[i].task = jobs[i].task
              /\ jobs'[i].max = jobs[i].max
              /\ jobs'[i].attempts <= Budget(jobs[i].task, jobs[i].max)
              /\ ~jobs'[i].reserved => jobs'[i].attempts < Budget(jobs[i].task, jobs[i].max)
              /\ pc # "idle" => jobs'[i].reserved /\ jobs'[i].attempts = work[w].attempts
    <2> SUFFICES ASSUME i \in DOMAIN jobs' PROVE
              /\ jobs[i].attempts <= Budget(jobs[i].task, jobs[i].max)
              /\ ~jobs[i].reserved => jobs[i].attempts < Budget(jobs[i].task, jobs[i].max)
              /\ pc # "idle" => jobs[i].reserved /\ jobs[i].attempts = work[w].attempts
      BY <1>1
    <2>1. i \in DOMAIN jobs /\ jobs[i].attempts \in Nat
      BY <1>1 DEF QueueInv, TypeOK, Row
    <2> QED
      BY <2>1 DEF QueueInv, AttemptBudget, HeldRowsMatch
  <1> QED
    BY <1>1, <1>2, WorkerStepInv

\* The claim commits: the row is reserved with one attempt more, within its
\* budget.
LEMMA ClaimCommitInv == ASSUME QueueInv, NEW w \in Worker, ClaimCommit(w) PROVE QueueInv'
  <1> DEFINE i == work[w].id
             jobs1 == [jobs EXCEPT ![i].reserved = TRUE, ![i].attempts = @ + 1]
  <1>1. /\ Busy(w) /\ work[w].pc = "claiming"
        /\ i \in DOMAIN jobs /\ ~jobs[i].reserved /\ jobs[i] \in Row
        /\ jobs[i].task = work[w].task /\ jobs[i].max = work[w].max
        /\ work[w].attempts = jobs[i].attempts + 1
    BY DEF ClaimCommit, Busy, QueueInv, HeldRowsMatch, TypeOK
  <1>2. /\ DOMAIN jobs1 = DOMAIN jobs
        /\ jobs1 \in [DOMAIN jobs -> Row]
        /\ jobs1[i].reserved /\ jobs1[i].attempts = jobs[i].attempts + 1
        /\ jobs1[i].task = jobs[i].task /\ jobs1[i].max = jobs[i].max
        /\ \A j \in DOMAIN jobs : j # i => jobs1[j] = jobs[j]
    <2>1. jobs[i].attempts + 1 \in Nat
      BY <1>1 DEF Row
    <2>2. [jobs[i] EXCEPT !.reserved = TRUE, !.attempts = jobs[i].attempts + 1] \in Row
      BY <1>1, <2>1 DEF Row
    <2>3. jobs1 = [j \in DOMAIN jobs |-> IF j = i
             THEN [jobs[i] EXCEPT !.reserved = TRUE, !.attempts = jobs[i].attempts + 1]
             ELSE jobs[j]]
      BY <1>1
    <2>4. jobs1[i] = [jobs[i] EXCEPT !.reserved = TRUE, !.attempts = jobs[i].attempts + 1]
      BY <1>1, <2>3
    <2> HIDE DEF jobs1
    <2>5. jobs \in [DOMAIN jobs -> Row]
      BY DEF QueueInv, TypeOK
    <2>6. DOMAIN jobs1 = DOMAIN jobs /\ \A j \in DOMAIN jobs : j # i => jobs1[j] = jobs[j]
      BY <2>3
    <2>7. jobs1 \in [DOMAIN jobs -> Row]
      BY <2>2, <2>3, <2>5
    <2>8. /\ jobs1[i].reserved /\ jobs1[i].attempts = jobs[i].attempts + 1
          /\ jobs1[i].task = jobs[i].task /\ jobs1[i].max = jobs[i].max
      BY <1>1, <2>4 DEF Row
    <2> QED
      BY <2>6, <2>7, <2>8
  <1> HIDE DEF jobs1
  <1>3. Write(w, jobs1, failed, "claimed", "idle")
    BY DEF ClaimCommit, jobs1
  <1>4. PICK pc \in {"claimed", "idle"} :
           /\ Goto(w, pc) /\ faults' \in 0..MaxFaults /\ failed' = failed
           /\ jobs' = jobs1 \/ (jobs' = jobs /\ pc = "idle")
    <2>1. faults' \in 0..MaxFaults
      BY <1>3, WriteFaults DEF QueueInv
    <2>2. \/ jobs' = jobs1 /\ failed' = failed /\ Goto(w, "claimed")
          \/ jobs' = jobs1 /\ failed' = failed /\ Goto(w, "idle")
          \/ jobs' = jobs /\ failed' = failed /\ Goto(w, "idle")
      BY <1>3, Zenon DEF Write
    <2> QED
      BY <2>1, <2>2, Zenon
  <1>5. pc \in After
    BY DEF After
  <1>6. TypeOK'
    <2>1. work' \in [Worker -> Claim \cup {Idle}]
      BY <1>1, <1>4, <1>5, GotoEffect DEF QueueInv
    <2>2. DOMAIN jobs' \subseteq Ids /\ jobs' \in [DOMAIN jobs' -> Row]
      BY <1>2, <1>4 DEF QueueInv, TypeOK
    <2> QED
      BY <1>4, <2>1, <2>2 DEF QueueInv, TypeOK, ClaimCommit, history
  <1>7. lastId' = lastId /\ uow' = uow /\ lastId <= lastId'
    BY DEF ClaimCommit, QueueInv, TypeOK
  <1>8. CASE jobs' = jobs /\ pc = "idle"
    BY <1>1, <1>4, <1>5, <1>6, <1>7, <1>8, RowDeletedOrKept
  <1>9. CASE jobs' = jobs1
    <2>1. Budget(jobs[i].task, jobs[i].max) \in Nat /\ jobs[i].attempts \in Nat
      BY <1>1, BudgetType DEF Row
    <2>2. jobs[i].attempts + 1 <= Budget(jobs[i].task, jobs[i].max)
      BY <1>1, <2>1 DEF QueueInv, AttemptBudget
    <2> QED
      BY <1>1, <1>2, <1>4, <1>5, <1>6, <1>7, <1>9, <2>2, WorkerStepInv
  <1> QED
    BY <1>4, <1>8, <1>9

\* A job no class is registered for is deleted by its only holder.
LEMMA DropUnknownInv == ASSUME QueueInv, NEW w \in Worker, DropUnknown(w) PROVE QueueInv'
  <1>1. Busy(w) /\ work[w].pc = "claimed" /\ work[w].task \in Task
    BY BusyIsClaim DEF DropUnknown, Busy, QueueInv, Claim
  <1>2. /\ Goto(w, "idle") /\ faults' \in 0..MaxFaults /\ failed' = failed
        /\ jobs' = jobs \/ jobs' = Without(jobs, {work[w].id})
    <2>1. Write(w, Without(jobs, {work[w].id}), failed, "idle", "idle")
      BY DEF DropUnknown
    <2>2. faults' \in 0..MaxFaults
      BY <2>1, WriteFaults DEF QueueInv
    <2> QED
      BY <2>1, <2>2, Zenon DEF Write
  <1>3. DOMAIN jobs' \subseteq Ids /\ jobs' \in [DOMAIN jobs' -> Row]
    BY <1>2 DEF QueueInv, TypeOK, Without
  <1>4. work' \in [Worker -> Claim \cup {Idle}]
    BY <1>1, <1>2, GotoEffect DEF QueueInv, After
  <1>5. TypeOK'
    BY <1>1, <1>2, <1>3, <1>4 DEF QueueInv, TypeOK, DropUnknown
  <1>6. lastId <= lastId' /\ uow' = uow
    BY DEF DropUnknown, QueueInv, TypeOK
  <1> QED
    BY <1>1, <1>2, <1>5, <1>6, RowDeletedOrKept DEF After

\* The completed row is deleted by its only holder.
LEMMA DeleteDoneInv == ASSUME QueueInv, NEW w \in Worker, DeleteDone(w) PROVE QueueInv'
  <1>1. Busy(w) /\ work[w].pc = "deleting"
    BY DEF DeleteDone, Busy
  <1>2. PICK pc \in {"idle", "failing"} :
        /\ Goto(w, pc) /\ faults' \in 0..MaxFaults /\ failed' = failed
        /\ jobs' = jobs \/ jobs' = Without(jobs, {work[w].id})
    <2>1. Write(w, Without(jobs, {work[w].id}), failed, "idle", "failing")
      BY DEF DeleteDone
    <2>2. faults' \in 0..MaxFaults
      BY <2>1, WriteFaults DEF QueueInv
    <2>3. \/ jobs' = Without(jobs, {work[w].id}) /\ failed' = failed /\ Goto(w, "idle")
          \/ jobs' = Without(jobs, {work[w].id}) /\ failed' = failed /\ Goto(w, "failing")
          \/ jobs' = jobs /\ failed' = failed /\ Goto(w, "failing")
      BY <2>1, Zenon DEF Write
    <2> QED
      BY <2>2, <2>3, Zenon
  <1>3. DOMAIN jobs' \subseteq Ids /\ jobs' \in [DOMAIN jobs' -> Row]
    BY <1>2 DEF QueueInv, TypeOK, Without
  <1>4. pc \in After
    BY DEF After
  <1>5. work' \in [Worker -> Claim \cup {Idle}]
    BY <1>1, <1>2, <1>4, GotoEffect DEF QueueInv
  <1>6. TypeOK'
    BY <1>1, <1>2, <1>3, <1>5 DEF QueueInv, TypeOK, DeleteDone, history
  <1>7. lastId <= lastId' /\ uow' = uow
    BY DEF DeleteDone, QueueInv, TypeOK
  <1> QED
    BY <1>1, <1>2, <1>4, <1>6, <1>7, RowDeletedOrKept

\* The steps of a worker that touch neither table.
LEMMA MoveOnInv ==
    ASSUME QueueInv, NEW w \in Worker,
           MakeThrows(w) \/ HandleReturns(w) \/ HandleThrows(w) \/ Crash(w)
    PROVE  QueueInv'
  <1>1. /\ Busy(w) /\ work[w].task \in Task
        /\ jobs' = jobs /\ failed' = failed /\ lastId' = lastId
        /\ uow' = uow /\ op' = op /\ discarded' = discarded
    BY BusyIsClaim DEF MakeThrows, HandleReturns, HandleThrows, Crash, Busy, tables, history,
                       QueueInv, Claim
  <1>2. faults' \in 0..MaxFaults /\ crashes' \in 0..MaxCrashes
    BY QueueAssumption DEF MakeThrows, HandleReturns, HandleThrows, Crash, Fault, QueueInv, TypeOK
  <1>3. effects' \in [Task -> Nat]
    BY <1>1 DEF MakeThrows, HandleReturns, HandleThrows, Crash, history, QueueInv, TypeOK
  <1>4. PICK pc \in After : Goto(w, pc) /\ (work[w].pc = "claiming" => pc = "idle")
    <2>1. CASE MakeThrows(w) \/ Crash(w)
      BY <2>1, Zenon DEF MakeThrows, Crash, After
    <2>2. CASE HandleReturns(w)
      <3>1. Goto(w, "deleting") /\ work[w].pc # "claiming" /\ "deleting" \in After
        BY <2>2 DEF HandleReturns, After
      <3> QED
        BY <3>1, Zenon
    <2>3. CASE HandleThrows(w)
      <3>1. Goto(w, "failing") /\ work[w].pc # "claiming" /\ "failing" \in After
        BY <2>3 DEF HandleThrows, After
      <3> QED
        BY <3>1, Zenon
    <2> QED
      BY <2>1, <2>2, <2>3
  <1>5. work' \in [Worker -> Claim \cup {Idle}]
    BY <1>1, <1>4, GotoEffect DEF QueueInv
  <1>6. TypeOK'
    BY <1>1, <1>2, <1>3, <1>5 DEF QueueInv, TypeOK
  <1>7. lastId <= lastId'
    BY <1>1 DEF QueueInv, TypeOK
  <1> QED
    BY <1>1, <1>4, <1>6, <1>7, RowDeletedOrKept

\* The dead letter takes the id and the attempts of the row deleted with it.
LEMMA MoveToFailedInv == ASSUME QueueInv, NEW w \in Worker, MoveToFailed(w) PROVE QueueInv'
  <1>1. Busy(w) /\ work[w].pc = "failing" /\ work[w] \in Claim
    BY BusyIsClaim DEF MoveToFailed, Busy, QueueInv
  <1>2. PICK id \in Ids : id = lastId + 1 /\ lastId' = id /\ lastId <= id
    BY QueueAssumption DEF MoveToFailed, QueueInv, TypeOK
  <1> DEFINE letter == [task |-> work[w].task, attempts |-> work[w].attempts]
             failed1 == With(failed, id, letter)
  <1>3. Write(w, Without(jobs, {work[w].id}), failed1, "idle", "idle")
    BY <1>2 DEF MoveToFailed
  <1>4. letter \in DeadLetter
    BY <1>1 DEF Claim, DeadLetter
  <1> HIDE DEF letter
  <1>5. DOMAIN failed1 \subseteq Ids /\ failed1 \in [DOMAIN failed1 -> DeadLetter]
    BY <1>4 DEF With, QueueInv, TypeOK
  <1> HIDE DEF failed1
  <1>6. faults' \in 0..MaxFaults
    BY <1>3, WriteFaults DEF QueueInv
  <1>7. /\ Goto(w, "idle")
        /\ failed' = failed1 \/ failed' = failed
        /\ jobs' = jobs \/ jobs' = Without(jobs, {work[w].id})
    BY <1>3, Zenon DEF Write
  <1>8. DOMAIN jobs' \subseteq Ids /\ jobs' \in [DOMAIN jobs' -> Row]
    BY <1>7 DEF QueueInv, TypeOK, Without
  <1>9. work' \in [Worker -> Claim \cup {Idle}]
    BY <1>1, <1>7, GotoEffect DEF QueueInv, After
  <1>10. DOMAIN failed' \subseteq Ids /\ failed' \in [DOMAIN failed' -> DeadLetter]
    BY <1>5, <1>7 DEF QueueInv, TypeOK
  <1>11. TypeOK'
    BY <1>2, <1>6, <1>8, <1>9, <1>10 DEF QueueInv, TypeOK, MoveToFailed, history
  <1>12. lastId <= lastId' /\ uow' = uow
    BY <1>2 DEF MoveToFailed
  <1> QED
    BY <1>1, <1>7, <1>11, <1>12, RowDeletedOrKept DEF After

\* The row is released with attempts to spare; nobody else holds it.
LEMMA ScheduleRetryInv ==
    ASSUME QueueInv, NEW w \in Worker, NEW due \in BOOLEAN, ScheduleRetry(w, due)
    PROVE  QueueInv'
  <1> DEFINE i == work[w].id
             jobs1 == [j \in DOMAIN jobs |-> IF j = i
                          THEN [jobs[j] EXCEPT !.due = due, !.reserved = FALSE] ELSE jobs[j]]
  <1>1. Busy(w) /\ work[w].pc = "failing" /\ work[w] \in Claim /\ ~Exhausted(w)
    BY BusyIsClaim DEF ScheduleRetry, Busy, QueueInv
  <1>2. /\ DOMAIN jobs1 = DOMAIN jobs
        /\ jobs1 \in [DOMAIN jobs -> Row]
        /\ \A j \in DOMAIN jobs : j # i => jobs1[j] = jobs[j]
        /\ i \in DOMAIN jobs => /\ jobs1[i].task = jobs[i].task
                                /\ jobs1[i].max = jobs[i].max
                                /\ jobs1[i].attempts = jobs[i].attempts
    BY DEF QueueInv, TypeOK, Row
  <1>3. Write(w, jobs1, failed, "idle", "idle")
    BY DEF ScheduleRetry
  <1> HIDE DEF jobs1
  <1>4. faults' \in 0..MaxFaults
    BY <1>3, WriteFaults DEF QueueInv
  <1>5. Goto(w, "idle") /\ failed' = failed /\ (jobs' = jobs1 \/ jobs' = jobs)
    BY <1>3, Zenon DEF Write
  <1>6. DOMAIN jobs' \subseteq Ids /\ jobs' \in [DOMAIN jobs' -> Row]
    BY <1>2, <1>5 DEF QueueInv, TypeOK
  <1>7. work' \in [Worker -> Claim \cup {Idle}]
    BY <1>1, <1>5, GotoEffect DEF QueueInv, After
  <1>8. TypeOK'
    BY <1>4, <1>5, <1>6, <1>7 DEF QueueInv, TypeOK, ScheduleRetry, history
  <1>9. lastId <= lastId' /\ uow' = uow
    <2>1. lastId' = lastId /\ uow' = uow
      BY Zenon DEF ScheduleRetry
    <2>2. lastId \in Nat
      BY DEF QueueInv, TypeOK
    <2> QED
      BY <2>1, <2>2
  <1>10. CASE jobs' = jobs
    BY <1>1, <1>5, <1>8, <1>9, <1>10, RowDeletedOrKept DEF After
  <1>11. CASE jobs' = jobs1
    <2>1. i \in DOMAIN jobs => jobs[i].attempts < Budget(jobs[i].task, jobs[i].max)
      <3>1. Budget(work[w].task, work[w].max) \in Nat
        BY <1>1, BudgetType DEF Claim
      <3>2. i \in DOMAIN jobs => /\ jobs[i].task = work[w].task /\ jobs[i].max = work[w].max
                                 /\ jobs[i].attempts = work[w].attempts
        <4>1. i \in DOMAIN jobs => jobs[i].attempts \in Nat
          BY DEF QueueInv, TypeOK, Row
        <4> QED
          BY <1>1, <4>1 DEF QueueInv, HeldRowsMatch
      <3> QED
        BY <1>1, <3>1, <3>2 DEF Exhausted, Claim
    <2>2. i \in DOMAIN jobs => Budget(jobs[i].task, jobs[i].max) \in Nat /\ jobs[i].attempts \in Nat
      BY BudgetType DEF QueueInv, TypeOK, Row
    <2> QED
      BY <1>1, <1>2, <1>5, <1>8, <1>9, <1>11, <2>1, <2>2, WorkerStepInv DEF After
  <1> QED
    BY <1>5, <1>10, <1>11

-----------------------------------------------------------------------------
(* Console commands *)

\* An operator reads dead letters, or gives up: the tables do not change.
LEMMA OperatorReadInv ==
    ASSUME QueueInv, NEW o \in Operator, RetrySelect(o) \/ RetryAbort(o)
    PROVE  QueueInv'
  <1>1. UNCHANGED <<jobs, failed, lastId, uow, work, faults, crashes, effects, discarded>>
    BY DEF RetrySelect, RetryAbort, tables, history
  <1>2. DOMAIN op' = Operator /\ \A p \in Operator :
           DOMAIN op'[p] \subseteq Ids /\ op'[p] \in [DOMAIN op'[p] -> DeadLetter]
    <2>1. CASE RetrySelect(o)
      <3>1. PICK ids \in {DOMAIN failed} \cup {{i} : i \in DOMAIN failed} :
               op' = [op EXCEPT ![o] = [i \in ids |-> failed[i]]]
        BY <2>1 DEF RetrySelect
      <3>2. ids \subseteq DOMAIN failed
        OBVIOUS
      <3> QED
        BY <3>1, <3>2 DEF QueueInv, TypeOK
    <2>2. CASE RetryAbort(o)
      BY <2>2 DEF RetryAbort, NoRows, QueueInv, TypeOK
    <2> QED
      BY <2>1, <2>2
  <1>3. TypeOK'
    BY <1>1, <1>2 DEF QueueInv, TypeOK
  <1>4. IdsFresh' /\ HeldRowsMatch' /\ MutualExclusion' /\ AttemptBudget'
    BY <1>1 DEF QueueInv, IdsFresh, HeldRowsMatch, MutualExclusion, AttemptBudget, Busy
  <1> QED
    BY <1>3, <1>4 DEF QueueInv

\* The dead letters read come back as rows with fresh ids and no attempts.
LEMMA RetryCommitInv == ASSUME QueueInv, NEW o \in Operator, RetryCommit(o) PROVE QueueInv'
  <1> DEFINE dead == DOMAIN op[o]
  <1>1. Cardinality(dead) \in Nat
    <2>1. dead \subseteq 1..MaxId
      BY DEF QueueInv, TypeOK
    <2>2. IsFiniteSet(1..MaxId)
      BY QueueAssumption, FS_Interval
    <2>3. IsFiniteSet(dead)
      BY <2>1, <2>2, FS_Subset
    <2> QED
      BY <2>3, FS_CardinalityType
  <1>2. lastId' \in 0..MaxId /\ lastId' \in Nat /\ lastId \in Nat /\ lastId <= lastId'
    BY <1>1 DEF RetryCommit, QueueInv, TypeOK
  <1>3. PICK source \in [(lastId + 1)..lastId' -> dead] :
           jobs' = [n \in DOMAIN jobs \cup DOMAIN source |->
              IF n \in DOMAIN jobs THEN jobs[n]
              ELSE NewRow(op[o][source[n]].task, RetryMax, TRUE)]
    BY DEF RetryCommit
  <1>4. DOMAIN source = (lastId + 1)..lastId' /\ DOMAIN source \cap DOMAIN jobs = {}
    BY <1>2 DEF QueueInv, IdsFresh
  <1>5. /\ DOMAIN jobs' = DOMAIN jobs \cup (lastId + 1)..lastId'
        /\ \A n \in DOMAIN jobs : jobs'[n] = jobs[n]
        /\ \A n \in (lastId + 1)..lastId' : jobs'[n] \in Row /\ jobs'[n].attempts = 0 /\ ~jobs'[n].reserved
    <2>1. \A n \in (lastId + 1)..lastId' : op[o][source[n]].task \in Task
      BY DEF QueueInv, TypeOK, DeadLetter
    <2> QED
      BY <1>3, <1>4, <2>1 DEF NewRow, RetryMax, Row
  <1>6. TypeOK'
    <2>1. DOMAIN jobs' \subseteq Ids
      BY <1>2, <1>5, QueueAssumption DEF QueueInv, TypeOK
    <2>2. jobs' \in [DOMAIN jobs' -> Row]
      BY <1>3, <1>5 DEF QueueInv, TypeOK
    <2>3. DOMAIN failed' \subseteq Ids /\ failed' \in [DOMAIN failed' -> DeadLetter]
      BY DEF RetryCommit, Without, QueueInv, TypeOK
    <2>4. DOMAIN op' = Operator /\ \A p \in Operator :
             DOMAIN op'[p] \subseteq Ids /\ op'[p] \in [DOMAIN op'[p] -> DeadLetter]
      BY DEF RetryCommit, NoRows, QueueInv, TypeOK
    <2> QED
      BY <1>2, <2>1, <2>2, <2>3, <2>4 DEF RetryCommit, history, QueueInv, TypeOK
  <1>7. \A w \in Worker : Busy(w) => work[w].id \in Nat
    BY BusyIsClaim DEF QueueInv, Claim
  <1>8. \A t \in Task : uow[t].state = "dispatched" => uow[t].id \in Nat
    BY UowIdType DEF QueueInv
  <1>9. UNCHANGED <<uow, work>>
    BY DEF RetryCommit
  <1>10. IdsFresh'
    BY <1>2, <1>5, <1>7, <1>8, <1>9 DEF QueueInv, IdsFresh, Busy
  <1>11. HeldRowsMatch'
    <2>1. \A w \in Worker : Busy(w) => work[w].id \notin (lastId + 1)..lastId'
      BY <1>2, <1>7 DEF QueueInv, IdsFresh
    <2> QED
      BY <1>5, <1>9, <2>1 DEF QueueInv, HeldRowsMatch, Busy
  <1>12. MutualExclusion'
    BY <1>9 DEF QueueInv, MutualExclusion, Busy
  <1>13. AttemptBudget'
    <2>1. \A n \in (lastId + 1)..lastId' : Budget(jobs'[n].task, jobs'[n].max) \in Attempts
      BY <1>5, BudgetType DEF Row
    <2> QED
      BY <1>5, <1>9, <2>1 DEF QueueInv, AttemptBudget, Busy
  <1> QED
    BY <1>6, <1>10, <1>11, <1>12, <1>13 DEF QueueInv

\* queue:flush deletes rows of strav_jobs; a worker may then hold a row that is gone.
LEMMA FlushInv == ASSUME QueueInv, NEW queues, Flush(queues) PROVE QueueInv'
  <1> DEFINE gone == {i \in DOMAIN jobs : QueueOf[jobs[i].task] \in queues}
  <1>1. gone \cap Locked = {} /\ jobs' = Without(jobs, gone)
    BY DEF Flush
  <1>2. DOMAIN jobs' = DOMAIN jobs \ gone /\ \A i \in DOMAIN jobs' : jobs'[i] = jobs[i]
    BY <1>1 DEF Without
  <1>3. UNCHANGED <<failed, lastId, uow, work, op, faults, crashes, effects>>
    BY DEF Flush
  <1>4. TypeOK'
    <2>1. DOMAIN jobs' \subseteq Ids /\ jobs' \in [DOMAIN jobs' -> Row]
      BY <1>1 DEF QueueInv, TypeOK, Without
    <2>2. discarded' \subseteq Task
      BY DEF Flush, QueueInv, TypeOK, Row
    <2> QED
      BY <1>3, <2>1, <2>2 DEF QueueInv, TypeOK
  <1>5. IdsFresh' /\ MutualExclusion'
    BY <1>2, <1>3 DEF QueueInv, IdsFresh, MutualExclusion, Busy
  <1>6. HeldRowsMatch'
    <2>1. \A w \in Worker : work[w].pc = "claiming" => work[w].id \notin gone
      BY <1>1 DEF Locked
    <2> QED
      BY <1>2, <1>3, <2>1 DEF QueueInv, HeldRowsMatch, Busy
  <1>7. AttemptBudget'
    BY <1>2, <1>3 DEF QueueInv, AttemptBudget, Busy
  <1> QED
    BY <1>4, <1>5, <1>6, <1>7 DEF QueueInv

-----------------------------------------------------------------------------

\* Every step of dispatchers, workers and operators keeps the invariant.
THEOREM StepInv == QueueInv /\ [Next]_vars => QueueInv'
  <1> SUFFICES ASSUME QueueInv, [Next]_vars PROVE QueueInv'
    OBVIOUS
  <1>1. ASSUME NEW t \in Task, Dispatcher(t) PROVE QueueInv'
    BY <1>1, UowBeginInv, DispatchInUowInv, UowCommitInv, UowRollbackInv, DispatchAloneInv
       DEF Dispatcher
  <1>2. ASSUME NEW i \in Ids, BecomeDue(i) PROVE QueueInv'
    BY <1>2, BecomeDueInv
  <1>3. ASSUME NEW w \in Worker, ProcessOne(w) \/ Crash(w) PROVE QueueInv'
    BY <1>3, ClaimSelectInv, ClaimCommitInv, DropUnknownInv, MoveOnInv, DeleteDoneInv,
       MoveToFailedInv, ScheduleRetryInv DEF ProcessOne
  <1>4. ASSUME Console PROVE QueueInv'
    BY <1>4, OperatorReadInv, RetryCommitInv, FlushInv DEF Console
  <1>5. CASE UNCHANGED vars
    BY <1>5 DEF vars, QueueInv, TypeOK, IdsFresh, HeldRowsMatch, MutualExclusion, AttemptBudget, Busy
  <1> QED
    BY <1>1, <1>2, <1>3, <1>4, <1>5 DEF Next

\* QueueInv holds in every reachable state, for all tasks, workers, operators
\* and bounds.
THEOREM QueueInvariant == Spec => []QueueInv
  BY InitInv, StepInv, PTL DEF Spec

\* No two workers ever hold the same row of strav_jobs.
THEOREM Exclusion == Spec => []MutualExclusion
  <1>1. QueueInv => MutualExclusion
    BY DEF QueueInv
  <1> QED
    BY <1>1, QueueInvariant, PTL

\* No job row is claimed more often than its budget allows.
THEOREM Budgeted == Spec => []AttemptBudget
  <1>1. QueueInv => AttemptBudget
    BY DEF QueueInv
  <1> QED
    BY <1>1, QueueInvariant, PTL

\* The tables and processes keep their types.
THEOREM Typed == Spec => []TypeOK
  <1>1. QueueInv => TypeOK
    BY DEF QueueInv
  <1> QED
    BY <1>1, QueueInvariant, PTL

-----------------------------------------------------------------------------
(* What becomes of a dispatched job *)

Committed(t) == uow[t].state = "committed"

\* Every row, copy of a row, and success is of a task whose dispatch committed.
Backed ==
    /\ \A i \in DOMAIN jobs : Committed(jobs[i].task)
    /\ \A i \in DOMAIN failed : Committed(failed[i].task)
    /\ \A w \in Worker : Busy(w) => Committed(work[w].task)
    /\ \A o \in Operator : \A i \in DOMAIN op[o] : Committed(op[o][i].task)
    /\ \A t \in Task : effects[t] > 0 => Committed(t)

\* An operator's copy of a dead letter stays true until the letter is gone: its
\* id is never given to another.
ReadsMatch ==
    /\ \A j \in DOMAIN failed : j <= lastId
    /\ \A o \in Operator : \A j \in DOMAIN op[o] :
          j <= lastId /\ (j \in DOMAIN failed => failed[j].task = op[o][j].task)

\* Who deletes its row has seen its handler return.
DoneWhenDeleting == \A w \in Worker : work[w].pc = "deleting" => effects[work[w].task] > 0

\* The inductive invariant behind OutboxAtomic and NothingLost.
DeliveryInv == QueueInv /\ Backed /\ ReadsMatch /\ DoneWhenDeleting /\ NothingLost

-----------------------------------------------------------------------------
(* What each kind of step does to the places a task may be in *)

\* A dispatcher's step that nobody else sees.
Quiet ==
    /\ UNCHANGED <<jobs, failed, work, op, effects, discarded, faults>>
    /\ lastId <= lastId'
    /\ \A t \in Task : Committed(t)' <=> Committed(t)

\* The row of task t becomes visible, under an id that is nobody's.
Appears(t) ==
    /\ UNCHANGED <<failed, work, op, effects, discarded, faults>>
    /\ lastId <= lastId'
    /\ ~Committed(t)
    /\ \A u \in Task : Committed(u)' <=> Committed(u) \/ u = t
    /\ \E id \in Ids \ DOMAIN jobs :
        /\ DOMAIN jobs' = DOMAIN jobs \cup {id}
        /\ jobs'[id].task = t /\ ~jobs'[id].reserved
        /\ \A i \in DOMAIN jobs : jobs'[i] = jobs[i]

\* A step of worker w, which holds a row: it deletes or changes no other row, and
\* buries its task only where it deletes its row and lets go.
Handles(w) ==
    LET i == work[w].id IN
    /\ Busy(w)
    /\ DOMAIN jobs' \subseteq DOMAIN jobs /\ DOMAIN jobs \ {i} \subseteq DOMAIN jobs'
    /\ \A j \in DOMAIN jobs' : jobs'[j].task = jobs[j].task /\ (j # i => jobs'[j] = jobs[j])
    /\ DOMAIN failed \subseteq DOMAIN failed'
    /\ \A j \in DOMAIN failed : failed'[j] = failed[j]
    /\ \A j \in DOMAIN failed' \ DOMAIN failed :
          /\ j = lastId' /\ lastId < lastId'
          /\ failed'[j].task = work[w].task
          /\ i \notin DOMAIN jobs' /\ ~Busy(w)'
    /\ lastId \in Nat /\ lastId' \in Nat /\ lastId <= lastId'
    /\ \A v \in Worker \ {w} : work'[v] = work[v]
    /\ Busy(w)' => work'[w].id = i /\ work'[w].task = work[w].task
    /\ UNCHANGED <<uow, op>>

\* An INSERT adds one row and keeps the others.
LEMMA RowAdded ==
    ASSUME NEW id, id \notin DOMAIN jobs, NEW row, jobs' = With(jobs, id, row)
    PROVE  /\ DOMAIN jobs' = DOMAIN jobs \cup {id}
           /\ jobs'[id] = row
           /\ \A i \in DOMAIN jobs : jobs'[i] = jobs[i]
  BY DEF With

\* BEGIN, an INSERT in a transaction and a ROLLBACK are quiet; COMMIT and an
\* autocommitted INSERT show the row.
LEMMA DispatchEffect ==
    ASSUME QueueInv, NEW t \in Task, Dispatcher(t)
    PROVE  Quiet \/ Appears(t)
  <1> USE DEF QueueInv, tables, history
  <1>0. lastId \in Nat /\ uow \in [Task -> UowState] /\ jobs \in [DOMAIN jobs -> Row]
    BY QueueAssumption DEF TypeOK
  <1>1. CASE UowBegin(t)
    BY <1>0, <1>1 DEF UowBegin, Quiet, Committed
  <1>2. ASSUME NEW due \in BOOLEAN, DispatchInUow(t, due) PROVE Quiet
    BY <1>0, <1>2 DEF DispatchInUow, Quiet, Committed
  <1>3. CASE UowRollback(t)
    BY <1>0, <1>3 DEF UowRollback, Quiet, Committed
  <1>4. CASE UowCommit(t)
    <2>1. /\ uow[t].id \in Ids \ DOMAIN jobs /\ NewRow(t, DispatchMax(t), uow[t].due).task = t
          /\ ~NewRow(t, DispatchMax(t), uow[t].due).reserved
      BY <1>4, UowIdType DEF UowCommit, IdsFresh, NewRow
    <2>2. \A u \in Task : Committed(u)' <=> Committed(u) \/ u = t
      BY <1>0, <1>4 DEF UowCommit, Committed
    <2>3. ~Committed(t)
      BY <1>4 DEF UowCommit, Committed
    <2>4. jobs' = With(jobs, uow[t].id, NewRow(t, DispatchMax(t), uow[t].due))
      BY <1>4 DEF UowCommit
    <2>5. \E id \in Ids \ DOMAIN jobs :
             /\ DOMAIN jobs' = DOMAIN jobs \cup {id}
             /\ jobs'[id].task = t /\ ~jobs'[id].reserved
             /\ \A i \in DOMAIN jobs : jobs'[i] = jobs[i]
      <3> DEFINE row == NewRow(t, DispatchMax(t), uow[t].due)
      <3> HIDE DEF Ids, row
      <3>1. uow[t].id \in Ids \ DOMAIN jobs /\ row.task = t /\ ~row.reserved /\ jobs' = With(jobs, uow[t].id, row)
        BY <2>1, <2>4, Zenon DEF row
      <3>2. /\ DOMAIN jobs' = DOMAIN jobs \cup {uow[t].id}
            /\ jobs'[uow[t].id] = row
            /\ \A i \in DOMAIN jobs : jobs'[i] = jobs[i]
        BY <3>1, RowAdded, Zenon
      <3>3. jobs'[uow[t].id].task = t /\ ~jobs'[uow[t].id].reserved
        BY <3>1, <3>2
      <3> QED
        BY <3>1, <3>2, <3>3, Zenon
    <2>6. /\ UNCHANGED <<failed, work, op, effects, discarded, faults>>
          /\ lastId <= lastId'
      BY <1>0, <1>4 DEF UowCommit
    <2> QED
      BY <2>2, <2>3, <2>5, <2>6 DEF Appears
  <1>5. ASSUME NEW due \in BOOLEAN, DispatchAlone(t, due) PROVE Appears(t)
    <2>1. /\ lastId' \in Ids \ DOMAIN jobs /\ NewRow(t, DispatchMax(t), due).task = t
          /\ ~NewRow(t, DispatchMax(t), due).reserved
      BY <1>0, <1>5, QueueAssumption DEF DispatchAlone, IdsFresh, NewRow
    <2>2. \A u \in Task : Committed(u)' <=> Committed(u) \/ u = t
      BY <1>0, <1>5 DEF DispatchAlone, Committed
    <2>3. ~Committed(t)
      BY <1>5 DEF DispatchAlone, Committed
    <2>4. jobs' = With(jobs, lastId', NewRow(t, DispatchMax(t), due))
      BY <1>5 DEF DispatchAlone
    <2>5. \E id \in Ids \ DOMAIN jobs :
             /\ DOMAIN jobs' = DOMAIN jobs \cup {id}
             /\ jobs'[id].task = t /\ ~jobs'[id].reserved
             /\ \A i \in DOMAIN jobs : jobs'[i] = jobs[i]
      <3> HIDE DEF Ids
      <3> QED
        BY <2>1, <2>4, RowAdded, Zenon
    <2>6. /\ UNCHANGED <<failed, work, op, effects, discarded, faults>>
          /\ lastId <= lastId'
      BY <1>0, <1>5 DEF DispatchAlone
    <2> QED
      BY <2>2, <2>3, <2>5, <2>6 DEF Appears
  <1> QED
    BY <1>1, <1>2, <1>3, <1>4, <1>5, Zenon DEF Dispatcher

\* A write of a busy worker reaches the tables or not; the worker keeps its row and
\* goes where the write sends it, one fault later when it threw.
LEMMA WriteEffect ==
    ASSUME QueueInv, NEW w \in Worker, Busy(w), NEW jobs1, NEW failed1,
           NEW pc \in After, NEW pcError \in After, Write(w, jobs1, failed1, pc, pcError)
    PROVE  /\ (jobs' = jobs1 /\ failed' = failed1) \/ (jobs' = jobs /\ failed' = failed)
           /\ \A v \in Worker \ {w} : work'[v] = work[v]
           /\ Busy(w)' => work'[w].id = work[w].id /\ work'[w].task = work[w].task
           /\ (pc = "idle" /\ pcError = "idle") => ~Busy(w)'
           /\ faults' = faults => /\ jobs' = jobs1 /\ failed' = failed1
                                  /\ (Busy(w)' <=> pc # "idle") /\ (pc # "idle" => work'[w].pc = pc)
           /\ faults' # faults => /\ faults' = faults + 1
                                  /\ (Busy(w)' <=> pcError # "idle") /\ (pcError # "idle" => work'[w].pc = pcError)
  <1>1. TypeOK /\ faults \in Nat /\ faults + 1 # faults
    BY QueueAssumption DEF QueueInv, TypeOK
  <1>2. \/ jobs' = jobs1 /\ failed' = failed1 /\ Goto(w, pc) /\ faults' = faults
        \/ /\ (jobs' = jobs1 /\ failed' = failed1) \/ (jobs' = jobs /\ failed' = failed)
           /\ Goto(w, pcError) /\ faults' = faults + 1
    BY Zenon DEF Write, Fault
  <1>3. CASE Goto(w, pc) /\ faults' = faults
    BY <1>1, <1>2, <1>3, GotoEffect
  <1>4. CASE Goto(w, pcError) /\ faults' = faults + 1
    BY <1>1, <1>2, <1>4, GotoEffect
  <1> QED
    BY <1>2, <1>3, <1>4

\* Every statement a worker makes about its row is a step that handles it.
LEMMA WorkerEffect ==
    ASSUME QueueInv, ReadsMatch, NEW w \in Worker, ProcessOne(w) \/ Crash(w), ~ClaimSelect(w)
    PROVE  Handles(w)
  <1> USE DEF history, tables
  <1> DEFINE i == work[w].id
  <1>0. TypeOK /\ lastId \in Nat
    BY QueueAssumption DEF QueueInv, TypeOK
  <1>1. ASSUME ClaimCommit(w) PROVE Handles(w)
    <2> DEFINE jobs1 == [jobs EXCEPT ![i].reserved = TRUE, ![i].attempts = @ + 1]
    <2>1. Busy(w) /\ i \in DOMAIN jobs /\ jobs[i] \in Row
      BY <1>0, <1>1 DEF ClaimCommit, Busy, QueueInv, HeldRowsMatch, TypeOK
    <2>2. /\ DOMAIN jobs1 = DOMAIN jobs
          /\ \A j \in DOMAIN jobs : jobs1[j].task = jobs[j].task /\ (j # i => jobs1[j] = jobs[j])
      BY <2>1 DEF Row
    <2> HIDE DEF jobs1
    <2>3. Write(w, jobs1, failed, "claimed", "idle")
      BY <1>1 DEF ClaimCommit, jobs1
    <2> QED
      BY <1>0, <1>1, <2>1, <2>2, <2>3, WriteEffect DEF ClaimCommit, Handles, After
  <1>2. ASSUME DropUnknown(w) PROVE Handles(w)
    <2>1. Busy(w) /\ Write(w, Without(jobs, {i}), failed, "idle", "idle")
      BY <1>2 DEF DropUnknown, Busy
    <2> QED
      BY <1>0, <1>2, <2>1, WriteEffect DEF DropUnknown, Handles, After, Without
  <1>3. ASSUME DeleteDone(w) PROVE Handles(w)
    <2>1. Busy(w) /\ Write(w, Without(jobs, {i}), failed, "idle", "failing")
      BY <1>3 DEF DeleteDone, Busy
    <2> QED
      BY <1>0, <1>3, <2>1, WriteEffect DEF DeleteDone, Handles, After, Without
  <1>4. ASSUME MoveToFailed(w) PROVE Handles(w)
    <2> DEFINE letter == [task |-> work[w].task, attempts |-> work[w].attempts]
    <2>1. Busy(w) /\ Write(w, Without(jobs, {i}), With(failed, lastId', letter), "idle", "idle")
      BY <1>4 DEF MoveToFailed, Busy
    <2>2. lastId' = lastId + 1 /\ lastId' \notin DOMAIN failed /\ UNCHANGED <<uow, op>>
      BY <1>0, <1>4 DEF MoveToFailed, ReadsMatch
    <2>3. letter.task = work[w].task
      OBVIOUS
    <2> HIDE DEF letter
    <2>4. /\ \/ jobs' = Without(jobs, {i}) /\ failed' = With(failed, lastId', letter)
             \/ jobs' = jobs /\ failed' = failed
          /\ \A v \in Worker \ {w} : work'[v] = work[v]
          /\ ~Busy(w)'
      BY <2>1, WriteEffect DEF After
    <2> QED
      BY <1>0, <2>1, <2>2, <2>3, <2>4 DEF Handles, Without, With
  <1>5. ASSUME NEW due \in BOOLEAN, ScheduleRetry(w, due) PROVE Handles(w)
    <2> DEFINE jobs1 == [j \in DOMAIN jobs |-> IF j = i
                           THEN [jobs[j] EXCEPT !.due = due, !.reserved = FALSE] ELSE jobs[j]]
    <2>1. \A j \in DOMAIN jobs : jobs[j] \in Row
      BY <1>0 DEF TypeOK
    <2>2. /\ DOMAIN jobs1 = DOMAIN jobs
          /\ \A j \in DOMAIN jobs : jobs1[j].task = jobs[j].task /\ (j # i => jobs1[j] = jobs[j])
      BY <2>1 DEF Row
    <2>3. Busy(w) /\ Write(w, jobs1, failed, "idle", "idle")
      BY <1>5 DEF ScheduleRetry, Busy
    <2> HIDE DEF jobs1
    <2>4. /\ \/ jobs' = jobs1 /\ failed' = failed
             \/ jobs' = jobs /\ failed' = failed
          /\ \A v \in Worker \ {w} : work'[v] = work[v]
          /\ ~Busy(w)'
      BY <2>3, WriteEffect DEF After
    <2>5. UNCHANGED <<lastId, uow, op>>
      BY <1>5 DEF ScheduleRetry
    <2> QED
      BY <1>0, <2>2, <2>3, <2>4, <2>5 DEF Handles
  <1>6. ASSUME MakeThrows(w) \/ HandleReturns(w) \/ HandleThrows(w) \/ Crash(w) PROVE Handles(w)
    <2>1. Busy(w) /\ UNCHANGED <<jobs, failed, lastId, uow, op>>
      BY <1>6 DEF MakeThrows, HandleReturns, HandleThrows, Crash, Busy
    <2>2. PICK pc \in After : Goto(w, pc)
      BY <1>6, Zenon DEF MakeThrows, HandleReturns, HandleThrows, Crash, After
    <2> QED
      BY <1>0, <2>1, <2>2, GotoEffect DEF Handles
  <1> QED
    BY <1>1, <1>2, <1>3, <1>4, <1>5, <1>6, Zenon DEF ProcessOne

\* What a worker's step adds to the history: a success when its handler returns, a
\* discarded task when it drops an unknown name, a fault when its write threw.
LEMMA WorkerHistory ==
    ASSUME QueueInv, NEW w \in Worker, ProcessOne(w) \/ Crash(w)
    PROVE  /\ effects' = effects \/ HandleReturns(w)
           /\ discarded \subseteq discarded'
           /\ faults \in Nat /\ (faults' = faults \/ faults' = faults + 1)
  <1>0. faults \in Nat
    BY QueueAssumption DEF QueueInv, TypeOK
  <1> USE DEF history, tables
  <1>1. ASSUME ClaimCommit(w) \/ DropUnknown(w) \/ DeleteDone(w) \/ MoveToFailed(w)
               \/ \E due \in BOOLEAN : ScheduleRetry(w, due)
        PROVE  effects' = effects /\ discarded \subseteq discarded' /\ (faults' = faults \/ faults' = faults + 1)
    <2>1. effects' = effects /\ discarded \subseteq discarded'
      BY <1>1 DEF ClaimCommit, DropUnknown, DeleteDone, MoveToFailed, ScheduleRetry
    <2>2. \E jobs1, failed1, pc, pcError : Write(w, jobs1, failed1, pc, pcError)
      BY <1>1, Zenon DEF ClaimCommit, DropUnknown, DeleteDone, MoveToFailed, ScheduleRetry
    <2>3. faults' = faults \/ faults' = faults + 1
      BY <2>2, Zenon DEF Write, Fault
    <2> QED
      BY <2>1, <2>3
  <1>2. ASSUME ClaimSelect(w) \/ MakeThrows(w) \/ HandleThrows(w) \/ Crash(w)
        PROVE  effects' = effects /\ discarded' = discarded /\ (faults' = faults \/ faults' = faults + 1)
    BY <1>2 DEF ClaimSelect, MakeThrows, HandleThrows, Crash, Fault
  <1>3. ASSUME HandleReturns(w) PROVE discarded' = discarded /\ faults' = faults
    BY <1>3 DEF HandleReturns
  <1> QED
    BY <1>0, <1>1, <1>2, <1>3 DEF ProcessOne

\* A claim's SELECT makes an idle worker the reader of a row that is in the table.
LEMMA ClaimSelectEffect ==
    ASSUME QueueInv, NEW w \in Worker, ClaimSelect(w)
    PROVE  /\ ~Busy(w) /\ Busy(w)' /\ work'[w].pc = "claiming"
           /\ work'[w].id \in DOMAIN jobs /\ work'[w].task = jobs[work'[w].id].task
           /\ ~jobs[work'[w].id].reserved /\ work'[w].id \notin Locked
           /\ \A v \in Worker \ {w} : work'[v] = work[v]
           /\ UNCHANGED <<jobs, failed, lastId, uow, op, faults, effects, discarded>>
  <1>1. PICK i \in Claimable(w) : work' = [work EXCEPT ![w] =
              [pc |-> "claiming", id |-> i, task |-> jobs[i].task,
               attempts |-> jobs[i].attempts + 1, max |-> jobs[i].max]]
    BY DEF ClaimSelect
  <1>2. work'[w] = [pc |-> "claiming", id |-> i, task |-> jobs[i].task,
                    attempts |-> jobs[i].attempts + 1, max |-> jobs[i].max]
    BY <1>1 DEF QueueInv, TypeOK
  <1>3. \A v \in Worker \ {w} : work'[v] = work[v]
    BY <1>1 DEF QueueInv, TypeOK
  <1>4. i \in DOMAIN jobs /\ ~jobs[i].reserved /\ i \notin Locked
    BY DEF Claimable
  <1> QED
    BY <1>2, <1>3, <1>4 DEF ClaimSelect, Busy, tables, history

\* queue:retry --all: the letters read become rows under new ids, one for each and
\* none for another.
Requeues(o) ==
    /\ lastId \in Nat /\ lastId' \in Nat /\ lastId <= lastId'
    /\ UNCHANGED <<uow, work, faults, effects, discarded>>
    /\ failed' = Without(failed, DOMAIN op[o])
    /\ op' = [op EXCEPT ![o] = NoRows]
    /\ DOMAIN jobs' = DOMAIN jobs \cup (lastId + 1)..lastId'
    /\ \A n \in DOMAIN jobs : n <= lastId /\ jobs'[n] = jobs[n]
    /\ Cardinality(DOMAIN op[o]) \in Nat /\ lastId' = lastId + Cardinality(DOMAIN op[o])
    /\ \E source \in [(lastId + 1)..lastId' -> DOMAIN op[o]] :
        /\ \A i \in DOMAIN op[o] : \E n \in (lastId + 1)..lastId' : source[n] = i
        /\ \A n \in (lastId + 1)..lastId' :
              jobs'[n].task = op[o][source[n]].task /\ ~jobs'[n].reserved

\* Committing a retry puts back the dead letters it read, each once, under fresh ids.
LEMMA RetryEffect == ASSUME QueueInv, NEW o \in Operator, RetryCommit(o) PROVE Requeues(o)
  <1> DEFINE dead == DOMAIN op[o]
             new == (lastId + 1)..lastId'
  <1>1. Cardinality(dead) \in Nat
    <2>1. dead \subseteq 1..MaxId
      BY DEF QueueInv, TypeOK
    <2>2. IsFiniteSet(1..MaxId)
      BY QueueAssumption, FS_Interval
    <2>3. IsFiniteSet(dead)
      BY <2>1, <2>2, FS_Subset
    <2> QED
      BY <2>3, FS_CardinalityType
  <1>2. lastId' = lastId + Cardinality(dead) /\ lastId \in Nat
    BY DEF RetryCommit, QueueInv, TypeOK
  <1>3. PICK source \in [new -> dead] :
           /\ \A i \in dead : \E n \in DOMAIN source : source[n] = i
           /\ jobs' = [n \in DOMAIN jobs \cup DOMAIN source |->
              IF n \in DOMAIN jobs THEN jobs[n]
              ELSE NewRow(op[o][source[n]].task, RetryMax, TRUE)]
    BY Zenon DEF RetryCommit
  <1>4. \A n \in DOMAIN jobs : n \in Nat /\ n <= lastId
    BY <1>2 DEF QueueInv, IdsFresh
  <1>5. DOMAIN source = new /\ \A n \in new : n \notin DOMAIN jobs
    BY <1>2, <1>4
  <1>6. \A n \in new : jobs'[n].task = op[o][source[n]].task /\ ~jobs'[n].reserved
    BY <1>3, <1>5 DEF NewRow
  <1>7. DOMAIN jobs' = DOMAIN jobs \cup new /\ \A n \in DOMAIN jobs : n <= lastId /\ jobs'[n] = jobs[n]
    BY <1>3, <1>4, <1>5
  <1>8. /\ failed' = Without(failed, dead) /\ op' = [op EXCEPT ![o] = NoRows]
        /\ UNCHANGED <<uow, work, faults, effects, discarded>>
    BY DEF RetryCommit, history
  <1>9. \A i \in dead : \E n \in new : source[n] = i
    BY <1>3, <1>5
  <1>10. \E s \in [new -> dead] :
            /\ \A i \in dead : \E n \in new : s[n] = i
            /\ \A n \in new : jobs'[n].task = op[o][s[n]].task /\ ~jobs'[n].reserved
    BY <1>6, <1>9, Zenon
  <1>11. lastId' \in Nat /\ lastId <= lastId'
    BY <1>1, <1>2
  <1> QED
    BY <1>1, <1>2, <1>7, <1>8, <1>10, <1>11, Zenon DEF Requeues

\* Where Goto goes.
LEMMA GotoPc ==
    ASSUME TypeOK, NEW w \in Worker, NEW pc \in After, Goto(w, pc) PROVE work'[w].pc = pc
  <1>1. work'[w] = IF pc = "idle" THEN Idle ELSE [work[w] EXCEPT !.pc = pc]
    BY DEF Goto, TypeOK
  <1>2. CASE pc = "idle"
    BY <1>1, <1>2 DEF Idle
  <1>3. CASE pc # "idle"
    <2>1. work[w] \in Claim \cup {Idle}
      BY DEF TypeOK
    <2> QED
      BY <1>1, <1>3, <2>1 DEF Claim, Idle
  <1> QED
    BY <1>2, <1>3

\* A handler that returned is the only way to the DELETE of a done job.
LEMMA DeletingReturned ==
    ASSUME QueueInv, NEW w \in Worker, ProcessOne(w) \/ Crash(w), work'[w].pc = "deleting"
    PROVE  HandleReturns(w)
  <1> SUFFICES ASSUME ~HandleReturns(w) PROVE FALSE
    OBVIOUS
  <1>0. TypeOK
    BY DEF QueueInv
  <1>2. \A pc \in After : Goto(w, pc) => work'[w].pc = pc
    BY <1>0, GotoPc
  <1>3. \A jobs1, failed1 : \A pc, pcError \in After \ {"deleting"} : ~Write(w, jobs1, failed1, pc, pcError)
    BY <1>2, Zenon DEF Write
  <1>4. ~ClaimSelect(w)
    <2> SUFFICES ASSUME ClaimSelect(w) PROVE FALSE
      OBVIOUS
    <2> QED
      BY ClaimSelectEffect
  <1>5. \A pc \in {"idle", "failing"} : ~Goto(w, pc)
    BY <1>2 DEF After
  <1>6. {"idle", "claimed", "failing"} \subseteq After \ {"deleting"}
    BY DEF After
  <1> QED
    BY <1>3, <1>4, <1>5, <1>6, Zenon
       DEF ProcessOne, ClaimCommit, DropUnknown, MakeThrows, HandleThrows, DeleteDone,
           MoveToFailed, ScheduleRetry, Crash

\* A worker takes its row away for a reason: the task's name was unknown, its
\* handler had returned, or the task is now a dead letter.
LEMMA RemovedForAReason ==
    ASSUME QueueInv, ReadsMatch, DoneWhenDeleting, NEW w \in Worker, ProcessOne(w) \/ Crash(w),
           work[w].id \in DOMAIN jobs, work[w].id \notin DOMAIN jobs', Busy(w)
    PROVE  \/ work[w].task \in discarded'
           \/ effects[work[w].task] > 0
           \/ \E j \in DOMAIN failed' : failed'[j].task = work[w].task
  <1> DEFINE i == work[w].id
             t == work[w].task
  <1> USE DEF tables, history
  <1>1. CASE DropUnknown(w)
    BY <1>1 DEF DropUnknown
  <1>2. CASE DeleteDone(w)
    BY <1>2 DEF DeleteDone, DoneWhenDeleting
  <1>3. CASE MoveToFailed(w)
    <2>1. jobs' # jobs
      OBVIOUS
    <2>2. failed' = With(failed, lastId', [task |-> t, attempts |-> work[w].attempts])
      BY <1>3, <2>1, Zenon DEF MoveToFailed, Write
    <2> QED
      BY <2>2 DEF With
  <1>4. CASE ClaimSelect(w) \/ MakeThrows(w) \/ HandleReturns(w) \/ HandleThrows(w) \/ Crash(w)
    <2>1. jobs' = jobs
      BY <1>4 DEF ClaimSelect, MakeThrows, HandleReturns, HandleThrows, Crash
    <2> QED
      BY <2>1
  <1>5. CASE ClaimCommit(w)
    <2>1. DOMAIN jobs' = DOMAIN jobs
      BY <1>5 DEF ClaimCommit, Write
    <2> QED
      BY <2>1
  <1>6. ASSUME NEW due \in BOOLEAN, ScheduleRetry(w, due) PROVE FALSE
    <2>1. DOMAIN jobs' = DOMAIN jobs
      BY <1>6 DEF ScheduleRetry, Write
    <2> QED
      BY <2>1
  <1> QED
    BY <1>1, <1>2, <1>3, <1>4, <1>5, <1>6, Zenon DEF ProcessOne

\* Rows, dead letters, claims and copies are all of tasks.
LEMMA TasksOfRows ==
    ASSUME QueueInv
    PROVE  /\ \A i \in DOMAIN jobs : jobs[i].task \in Task
           /\ \A i \in DOMAIN failed : failed[i].task \in Task
           /\ \A w \in Worker : Busy(w) => work[w].task \in Task
           /\ \A o \in Operator : \A i \in DOMAIN op[o] : op[o][i].task \in Task
  <1>1. TypeOK
    BY DEF QueueInv
  <1>2. \A i \in DOMAIN jobs : jobs[i].task \in Task
    BY <1>1 DEF TypeOK, Row
  <1>3. \A i \in DOMAIN failed : failed[i].task \in Task
    BY <1>1 DEF TypeOK, DeadLetter
  <1>4. \A w \in Worker : Busy(w) => work[w].task \in Task
    BY <1>1, BusyIsClaim DEF Claim
  <1>5. \A o \in Operator : \A i \in DOMAIN op[o] : op[o][i].task \in Task
    BY <1>1 DEF TypeOK, DeadLetter
  <1> QED
    BY <1>2, <1>3, <1>4, <1>5

-----------------------------------------------------------------------------
(* OutboxAtomic and NothingLost *)

\* Nothing is dispatched, nothing has run.
LEMMA InitDelivery == Init => DeliveryInv
  <1> SUFFICES ASSUME Init PROVE DeliveryInv
    OBVIOUS
  <1>1. Backed /\ ReadsMatch /\ DoneWhenDeleting /\ NothingLost
    BY DEF Init, NoRows, Idle, Busy, Committed, Backed, ReadsMatch, DoneWhenDeleting, NothingLost
  <1> QED
    BY <1>1, InitInv DEF DeliveryInv

\* A transaction that has not committed shows nothing.
LEMMA QuietDelivery == ASSUME DeliveryInv, QueueInv', Quiet PROVE DeliveryInv'
  <1> USE DEF DeliveryInv, Quiet
  <1>1. lastId \in Nat /\ lastId' \in Nat /\ \A o \in Operator : DOMAIN op[o] \subseteq Nat
    BY QueueAssumption DEF QueueInv, TypeOK
  <1>2. DOMAIN failed \subseteq Nat
    BY DEF QueueInv, TypeOK
  <1>3. Backed'
    BY TasksOfRows DEF Backed, Busy, Committed
  <1>4. ReadsMatch'
    BY <1>1, <1>2 DEF ReadsMatch
  <1>5. DoneWhenDeleting'
    BY DEF DoneWhenDeleting
  <1>6. NothingLost'
    BY DEF NothingLost, HasRow, Committed
  <1> QED
    BY <1>3, <1>4, <1>5, <1>6

\* A commit shows the row of its task, and of no other.
LEMMA AppearsDelivery ==
    ASSUME DeliveryInv, QueueInv', NEW t \in Task, Appears(t) PROVE DeliveryInv'
  <1> USE DEF DeliveryInv
  <1>0. PICK id \in Ids \ DOMAIN jobs :
           /\ DOMAIN jobs' = DOMAIN jobs \cup {id}
           /\ jobs'[id].task = t
           /\ \A i \in DOMAIN jobs : jobs'[i] = jobs[i]
    BY Zenon DEF Appears
  <1>00. /\ UNCHANGED <<failed, work, op, effects, discarded, faults>>
         /\ lastId <= lastId'
         /\ \A u \in Task : Committed(u)' <=> Committed(u) \/ u = t
    BY DEF Appears
  <1>1. lastId \in Nat /\ lastId' \in Nat /\ \A o \in Operator : DOMAIN op[o] \subseteq Nat
    BY QueueAssumption DEF QueueInv, TypeOK
  <1>2. DOMAIN failed \subseteq Nat
    BY DEF QueueInv, TypeOK
  <1>3. Backed'
    <2>1. \A i \in DOMAIN jobs' : uow'[jobs'[i].task].state = "committed"
      BY <1>0, <1>00, TasksOfRows DEF Backed, Committed
    <2>2. \A i \in DOMAIN failed' : uow'[failed'[i].task].state = "committed"
      BY <1>00, TasksOfRows DEF Backed, Committed
    <2>3. \A w \in Worker : Busy(w)' => uow'[work'[w].task].state = "committed"
      BY <1>00, TasksOfRows DEF Backed, Busy, Committed
    <2>4. \A o \in Operator : \A i \in DOMAIN op'[o] : uow'[op'[o][i].task].state = "committed"
      BY <1>00, TasksOfRows DEF Backed, Committed
    <2>5. \A u \in Task : effects'[u] > 0 => uow'[u].state = "committed"
      BY <1>00 DEF Backed, Committed
    <2> QED
      BY <2>1, <2>2, <2>3, <2>4, <2>5 DEF Backed, Committed
  <1>4. ReadsMatch'
    BY <1>00, <1>1, <1>2 DEF ReadsMatch
  <1>5. DoneWhenDeleting'
    BY <1>00 DEF DoneWhenDeleting
  <1>6. NothingLost'
    <2> SUFFICES ASSUME NEW u \in Task, Committed(u)'
                 PROVE  (effects[u] > 0 \/ u \in discarded \/ HasRow(u))'
      BY DEF NothingLost, Committed
    <2>1. CASE u = t
      BY <1>0, <2>1 DEF HasRow
    <2>2. CASE Committed(u)
      BY <1>0, <1>00, <2>2 DEF NothingLost, Committed, HasRow
    <2> QED
      BY <1>00, <2>1, <2>2
  <1> QED
    BY <1>3, <1>4, <1>5, <1>6

\* A claim's SELECT reads a committed row.
LEMMA ClaimDelivery ==
    ASSUME DeliveryInv, QueueInv', NEW w \in Worker, ClaimSelect(w) PROVE DeliveryInv'
  <1> USE DEF DeliveryInv
  <1>1. /\ Busy(w)' /\ work'[w].pc = "claiming"
        /\ work'[w].id \in DOMAIN jobs /\ work'[w].task = jobs[work'[w].id].task
        /\ \A v \in Worker \ {w} : work'[v] = work[v]
        /\ UNCHANGED <<jobs, failed, lastId, uow, op, faults, effects, discarded>>
    BY ClaimSelectEffect
  <1>2. Backed'
    <2>1. \A v \in Worker : Busy(v)' => Committed(work'[v].task)
      BY <1>1 DEF Backed, Busy
    <2> QED
      BY <1>1, <2>1 DEF Backed, Committed
  <1>3. ReadsMatch'
    BY <1>1 DEF ReadsMatch
  <1>4. DoneWhenDeleting'
    BY <1>1 DEF DoneWhenDeleting
  <1>5. NothingLost'
    BY <1>1 DEF NothingLost, HasRow
  <1> QED
    BY <1>2, <1>3, <1>4, <1>5

\* A worker's other steps: what it holds is committed, and it removes its row only
\* for a reason.
LEMMA WorkerDelivery ==
    ASSUME DeliveryInv, QueueInv', NEW w \in Worker, ProcessOne(w) \/ Crash(w), ~ClaimSelect(w)
    PROVE  DeliveryInv'
  <1> USE DEF DeliveryInv
  <1> DEFINE i == work[w].id
  <1>1. Handles(w)
    BY WorkerEffect
  <1>2. effects \in [Task -> Nat] /\ (effects' = effects \/ HandleReturns(w)) /\ discarded \subseteq discarded'
    BY WorkerHistory DEF QueueInv, TypeOK
  <1>3. Busy(w) /\ work[w].task \in Task /\ UNCHANGED <<uow, op>>
    BY <1>1, BusyIsClaim DEF Handles, QueueInv, Claim
  <1>4. \A t \in Task : /\ effects[t] > 0 => effects'[t] > 0
                        /\ effects'[t] > 0 => effects[t] > 0 \/ t = work[w].task
    <2>1. CASE effects' = effects
      BY <2>1
    <2>2. CASE HandleReturns(w)
      BY <1>2, <1>3, <2>2 DEF HandleReturns
    <2> QED
      BY <1>2, <2>1, <2>2
  <1>5. Backed'
    <2>1. \A j \in DOMAIN jobs' : Committed(jobs'[j].task)
      BY <1>1 DEF Handles, Backed
    <2>2. \A j \in DOMAIN failed' : Committed(failed'[j].task)
      BY <1>1, <1>3 DEF Handles, Backed
    <2>3. \A v \in Worker : Busy(v)' => Committed(work'[v].task)
      <3>1. \A v \in Worker \ {w} : Busy(v)' => Committed(work'[v].task)
        BY <1>1 DEF Handles, Backed, Busy
      <3>2. Busy(w)' => Committed(work'[w].task)
        BY <1>1, <1>3 DEF Handles, Backed
      <3> QED
        BY <3>1, <3>2
    <2>4. \A t \in Task : effects'[t] > 0 => Committed(t)
      BY <1>3, <1>4 DEF Backed
    <2> QED
      BY <1>3, <2>1, <2>2, <2>3, <2>4 DEF Backed, Committed
  <1>6. ReadsMatch'
    <2>1. /\ lastId \in Nat /\ lastId' \in Nat /\ lastId <= lastId'
          /\ DOMAIN failed \subseteq Nat /\ \A o \in Operator : DOMAIN op[o] \subseteq Nat
      BY <1>1 DEF Handles, QueueInv, TypeOK
    <2>2. \A j \in DOMAIN failed' : j <= lastId'
      BY <1>1, <2>1 DEF Handles, ReadsMatch
    <2>3. \A o \in Operator : \A j \in DOMAIN op[o] :
             j <= lastId' /\ (j \in DOMAIN failed' => failed'[j].task = op[o][j].task)
      BY <1>1, <2>1 DEF Handles, ReadsMatch
    <2> QED
      BY <1>3, <2>2, <2>3 DEF ReadsMatch
  <1>7. DoneWhenDeleting'
    <2>1. \A v \in Worker \ {w} : work'[v].pc = "deleting" => effects'[work'[v].task] > 0
      <3>1. \A v \in Worker : work[v].pc = "deleting" => work[v].task \in Task
        BY BusyIsClaim DEF Busy, QueueInv, Claim
      <3> QED
        BY <1>1, <1>4, <3>1 DEF Handles, DoneWhenDeleting
    <2>2. work'[w].pc = "deleting" => effects'[work'[w].task] > 0
      <3> SUFFICES ASSUME work'[w].pc = "deleting" PROVE effects'[work'[w].task] > 0
        OBVIOUS
      <3>1. HandleReturns(w) /\ Busy(w)'
        BY DeletingReturned DEF Busy
      <3>2. work'[w].task = work[w].task
        BY <1>1, <3>1 DEF Handles
      <3> QED
        BY <1>2, <1>3, <3>1, <3>2 DEF HandleReturns
    <2> QED
      BY <2>1, <2>2 DEF DoneWhenDeleting
  <1>8. NothingLost'
    <2> SUFFICES ASSUME NEW t \in Task, Committed(t)
                 PROVE  effects'[t] > 0 \/ t \in discarded' \/ HasRow(t)'
      BY <1>3 DEF NothingLost, Committed
    <2>1. CASE effects[t] > 0 \/ t \in discarded
      BY <1>2, <1>4, <2>1
    <2>2. CASE \E j \in DOMAIN failed : failed[j].task = t
      BY <1>1, <2>2 DEF Handles, HasRow
    <2>3. ASSUME NEW j \in DOMAIN jobs, jobs[j].task = t
          PROVE  effects'[t] > 0 \/ t \in discarded' \/ HasRow(t)'
      <3>1. CASE j \in DOMAIN jobs'
        BY <1>1, <2>3, <3>1 DEF Handles, HasRow
      <3>2. CASE j \notin DOMAIN jobs'
        <4>1. j = i /\ work[w].task = t
          BY <1>1, <2>3, <3>2 DEF Handles, QueueInv, HeldRowsMatch
        <4>2. \/ t \in discarded' \/ effects[t] > 0
              \/ \E k \in DOMAIN failed' : failed'[k].task = t
          BY <1>3, <3>2, <4>1, RemovedForAReason
        <4> QED
          BY <1>4, <4>2 DEF HasRow
      <3> QED
        BY <3>1, <3>2
    <2> QED
      BY <2>1, <2>2, <2>3 DEF NothingLost, Committed, HasRow
  <1> QED
    BY <1>5, <1>6, <1>7, <1>8

\* The SELECT of queue:retry copies dead letters as they are.
LEMMA OperatorReadEffect ==
    ASSUME QueueInv, NEW o \in Operator, RetrySelect(o) \/ RetryAbort(o)
    PROVE  /\ UNCHANGED <<jobs, failed, lastId, uow, work, faults, effects, discarded>>
           /\ \A p \in Operator : \/ op'[p] = op[p]
                                  \/ op'[p] = NoRows
                                  \/ /\ DOMAIN op'[p] \subseteq DOMAIN failed
                                     /\ \A j \in DOMAIN op'[p] : op'[p][j] = failed[j]
  <1>1. UNCHANGED <<jobs, failed, lastId, uow, work, faults, effects, discarded>>
    BY DEF RetrySelect, RetryAbort, tables, history
  <1>2. DOMAIN op = Operator
    BY DEF QueueInv, TypeOK
  <1>3. CASE RetrySelect(o)
    <2>1. PICK ids \in {DOMAIN failed} \cup {{i} : i \in DOMAIN failed} :
             op' = [op EXCEPT ![o] = [i \in ids |-> failed[i]]]
      BY <1>3 DEF RetrySelect
    <2>2. ids \subseteq DOMAIN failed
      OBVIOUS
    <2>3. op'[o] = [i \in ids |-> failed[i]] /\ \A p \in Operator \ {o} : op'[p] = op[p]
      BY <1>2, <2>1
    <2>4. DOMAIN op'[o] \subseteq DOMAIN failed /\ \A j \in DOMAIN op'[o] : op'[o][j] = failed[j]
      BY <2>2, <2>3
    <2> QED
      BY <1>1, <2>3, <2>4
  <1>4. CASE RetryAbort(o)
    BY <1>1, <1>2, <1>4 DEF RetryAbort
  <1> QED
    BY <1>3, <1>4

\* What an operator copies is committed, and named as the letter is.
LEMMA OperatorReadDelivery ==
    ASSUME DeliveryInv, QueueInv', NEW o \in Operator, RetrySelect(o) \/ RetryAbort(o)
    PROVE  DeliveryInv'
  <1> USE DEF DeliveryInv
  <1>1. /\ UNCHANGED <<jobs, failed, lastId, uow, work, faults, effects, discarded>>
        /\ \A p \in Operator : \/ op'[p] = op[p]
                               \/ op'[p] = NoRows
                               \/ /\ DOMAIN op'[p] \subseteq DOMAIN failed
                                  /\ \A j \in DOMAIN op'[p] : op'[p][j] = failed[j]
    BY OperatorReadEffect
  <1>2. DOMAIN NoRows = {}
    BY DEF NoRows
  <1>3. Backed'
    <2>1. \A p \in Operator : \A j \in DOMAIN op'[p] : Committed(op'[p][j].task)
      <3> SUFFICES ASSUME NEW p \in Operator, NEW j \in DOMAIN op'[p] PROVE Committed(op'[p][j].task)
        OBVIOUS
      <3> QED
        BY <1>1, <1>2 DEF Backed
    <2> QED
      BY <1>1, <2>1 DEF Backed, Committed, Busy
  <1>4. ReadsMatch'
    <2> SUFFICES ASSUME NEW p \in Operator, NEW j \in DOMAIN op'[p]
                 PROVE  j <= lastId /\ (j \in DOMAIN failed => failed[j].task = op'[p][j].task)
      BY <1>1 DEF ReadsMatch
    <2> QED
      BY <1>1, <1>2 DEF ReadsMatch
  <1>5. DoneWhenDeleting' /\ NothingLost'
    BY <1>1 DEF DoneWhenDeleting, NothingLost, HasRow
  <1> QED
    BY <1>3, <1>4, <1>5

\* queue:retry moves letters to rows, whoever else retried them meanwhile.
LEMMA RetryDelivery ==
    ASSUME DeliveryInv, QueueInv', NEW o \in Operator, RetryCommit(o) PROVE DeliveryInv'
  <1> USE DEF DeliveryInv
  <1>1. Requeues(o)
    BY RetryEffect
  <1> DEFINE new == (lastId + 1)..lastId'
  <1>2. PICK source \in [new -> DOMAIN op[o]] :
           /\ \A i \in DOMAIN op[o] : \E n \in new : source[n] = i
           /\ \A n \in new : jobs'[n].task = op[o][source[n]].task /\ ~jobs'[n].reserved
    BY <1>1, Zenon DEF Requeues
  <1>3. /\ DOMAIN jobs' = DOMAIN jobs \cup new /\ \A n \in DOMAIN jobs : jobs'[n] = jobs[n]
        /\ lastId \in Nat /\ lastId' \in Nat /\ lastId <= lastId'
        /\ UNCHANGED <<uow, work, faults, effects, discarded>>
    BY <1>1 DEF Requeues
  <1> HIDE DEF new
  <1>4. DOMAIN failed' = DOMAIN failed \ DOMAIN op[o] /\ \A j \in DOMAIN failed' : failed'[j] = failed[j]
    BY <1>1 DEF Requeues, Without
  <1>5. \A p \in Operator : op'[p] = op[p] \/ DOMAIN op'[p] = {}
    BY <1>1 DEF Requeues, NoRows, QueueInv, TypeOK
  <1>6. DOMAIN failed \subseteq Nat /\ \A p \in Operator : DOMAIN op[p] \subseteq Nat
    BY DEF QueueInv, TypeOK
  <1>7. Backed'
    <2>1. \A n \in DOMAIN jobs' : Committed(jobs'[n].task)
      BY <1>2, <1>3 DEF Backed
    <2>2. \A j \in DOMAIN failed' : Committed(failed'[j].task)
      BY <1>4 DEF Backed
    <2>3. \A p \in Operator : \A j \in DOMAIN op'[p] : Committed(op'[p][j].task)
      BY <1>5 DEF Backed
    <2> QED
      BY <1>3, <2>1, <2>2, <2>3 DEF Backed, Committed, Busy
  <1>8. ReadsMatch'
    BY <1>3, <1>4, <1>5, <1>6 DEF ReadsMatch
  <1>9. DoneWhenDeleting'
    BY <1>3 DEF DoneWhenDeleting
  <1>10. NothingLost'
    <2> SUFFICES ASSUME NEW t \in Task, Committed(t)
                 PROVE  effects[t] > 0 \/ t \in discarded \/ HasRow(t)'
      BY <1>3 DEF NothingLost, Committed
    <2>1. ASSUME NEW i \in DOMAIN jobs, jobs[i].task = t PROVE HasRow(t)'
      BY <1>3, <2>1 DEF HasRow
    <2>2. ASSUME NEW j \in DOMAIN failed, failed[j].task = t PROVE HasRow(t)'
      <3>1. CASE j \in DOMAIN op[o]
        <4>1. op[o][j].task = t
          BY <2>2, <3>1 DEF ReadsMatch
        <4>2. PICK n \in new : source[n] = j
          BY <1>2, <3>1
        <4> QED
          BY <1>2, <1>3, <4>1, <4>2 DEF HasRow
      <3>2. CASE j \notin DOMAIN op[o]
        BY <1>4, <2>2, <3>2 DEF HasRow
      <3> QED
        BY <3>1, <3>2
    <2> QED
      BY <2>1, <2>2 DEF NothingLost, Committed, HasRow
  <1> QED
    BY <1>7, <1>8, <1>9, <1>10

\* available_at passes, or queue:flush runs: tasks keep their rows or are discarded.
LEMMA RowsDelivery ==
    ASSUME DeliveryInv, QueueInv', (\E i \in Ids : BecomeDue(i)) \/ (\E queues : Flush(queues))
    PROVE  DeliveryInv'
  <1> USE DEF DeliveryInv
  <1>1. UNCHANGED <<failed, lastId, uow, work, op, faults, effects>>
    BY DEF BecomeDue, Flush, history
  <1>2. /\ DOMAIN jobs' \subseteq DOMAIN jobs
        /\ \A i \in DOMAIN jobs' : jobs'[i].task = jobs[i].task
        /\ discarded \subseteq discarded'
        /\ \A i \in DOMAIN jobs \ DOMAIN jobs' : jobs[i].task \in discarded'
    <2>1. ASSUME NEW i \in Ids, BecomeDue(i)
          PROVE  /\ DOMAIN jobs' = DOMAIN jobs
                 /\ \A j \in DOMAIN jobs' : jobs'[j].task = jobs[j].task
                 /\ discarded' = discarded
      BY <2>1 DEF BecomeDue, QueueInv, TypeOK, Row, history
    <2>2. ASSUME NEW queues, Flush(queues)
          PROVE  /\ DOMAIN jobs' \subseteq DOMAIN jobs
                 /\ \A i \in DOMAIN jobs' : jobs'[i].task = jobs[i].task
                 /\ discarded \subseteq discarded'
                 /\ \A i \in DOMAIN jobs \ DOMAIN jobs' : jobs[i].task \in discarded'
      BY <2>2 DEF Flush, Without
    <2> QED
      BY <2>1, <2>2
  <1>3. Backed'
    BY <1>1, <1>2 DEF Backed, Committed, Busy
  <1>4. ReadsMatch' /\ DoneWhenDeleting'
    BY <1>1 DEF ReadsMatch, DoneWhenDeleting
  <1>5. NothingLost'
    BY <1>1, <1>2 DEF NothingLost, HasRow
  <1> QED
    BY <1>3, <1>4, <1>5

\* No step of anybody, in any order, loses a committed job.
LEMMA StepDelivery == DeliveryInv /\ [Next]_vars => DeliveryInv'
  <1> SUFFICES ASSUME DeliveryInv, [Next]_vars PROVE DeliveryInv'
    OBVIOUS
  <1>0. QueueInv /\ QueueInv' /\ ReadsMatch
    BY StepInv DEF DeliveryInv
  <1>1. ASSUME NEW t \in Task, Dispatcher(t) PROVE DeliveryInv'
    BY <1>0, <1>1, DispatchEffect, QuietDelivery, AppearsDelivery
  <1>2. ASSUME NEW w \in Worker, ProcessOne(w) \/ Crash(w) PROVE DeliveryInv'
    BY <1>0, <1>2, ClaimDelivery, WorkerDelivery
  <1>3. ASSUME NEW o \in Operator, RetrySelect(o) \/ RetryCommit(o) \/ RetryAbort(o) PROVE DeliveryInv'
    BY <1>0, <1>3, OperatorReadDelivery, RetryDelivery
  <1>4. CASE (\E i \in Ids : BecomeDue(i)) \/ (\E queues \in {Queue} \cup {{q} : q \in Queue} : Flush(queues))
    BY <1>0, <1>4, RowsDelivery
  <1>5. CASE UNCHANGED vars
    BY <1>0, <1>5 DEF vars, DeliveryInv, Backed, Committed, Busy, ReadsMatch, DoneWhenDeleting, NothingLost, HasRow
  <1> QED
    BY <1>1, <1>2, <1>3, <1>4, <1>5, Zenon DEF Next, Console

\* DeliveryInv holds in every reachable state.
THEOREM DeliveryInvariant == Spec => []DeliveryInv
  BY InitDelivery, StepDelivery, PTL DEF Spec

\* The outbox: a job exists, waits, dies or runs only if the transaction that
\* dispatched it committed.
THEOREM Outbox == Spec => []OutboxAtomic
  <1>1. DeliveryInv => OutboxAtomic
    BY DEF DeliveryInv, Backed, Committed, OutboxAtomic
  <1> QED
    BY <1>1, DeliveryInvariant, PTL

\* However many operators retry at once, a committed job never disappears.
THEOREM NeverLost == Spec => []NothingLost
  <1>1. DeliveryInv => NothingLost
    BY DEF DeliveryInv
  <1> QED
    BY <1>1, DeliveryInvariant, PTL

-----------------------------------------------------------------------------
(* One operator at a time: OneHome and SuccessOnce *)

OneAtATime == \A o, p \in Operator : o = p

\* A busy worker's task is in the row it holds and nowhere else, and what an
\* operator read is still in the table of dead letters.
Alone ==
    /\ \A w \in Worker, i \in DOMAIN jobs : Busy(w) /\ jobs[i].task = work[w].task => i = work[w].id
    /\ \A w \in Worker, j \in DOMAIN failed : Busy(w) => failed[j].task # work[w].task
    /\ \A o \in Operator : DOMAIN op[o] \subseteq DOMAIN failed

\* Until a statement fails, a task that succeeded is out of reach of a second
\* claim: its row is reserved, its worker is deleting it, and it is not dead.
Spent(t) ==
    /\ effects[t] = 1
    /\ \A i \in DOMAIN jobs : jobs[i].task = t => jobs[i].reserved
    /\ \A j \in DOMAIN failed : failed[j].task # t
    /\ \A w \in Worker : Busy(w) /\ work[w].task = t => work[w].pc = "deleting"

Once == faults = 0 => \A t \in Task : effects[t] > 0 => Spent(t)

\* The inductive invariant behind OneHome and SuccessOnce.
HomeInv == DeliveryInv /\ SingleCopy /\ Alone /\ Once

\* Nothing is dispatched: there is nothing to duplicate.
LEMMA InitHome == Init => HomeInv
  <1> SUFFICES ASSUME Init PROVE HomeInv
    OBVIOUS
  <1>1. SingleCopy /\ Alone /\ Once
    BY DEF Init, NoRows, Idle, Busy, SingleCopy, Alone, Once
  <1> QED
    BY <1>1, InitDelivery DEF HomeInv

\* queue:retry writes one row for each letter and no letter twice.
LEMMA OneRowEach ==
    ASSUME NEW S, IsFiniteSet(S), NEW a \in Nat, NEW b \in Nat, b = a + Cardinality(S),
           NEW source \in [(a + 1)..b -> S], \A i \in S : \E n \in (a + 1)..b : source[n] = i,
           NEW m \in (a + 1)..b, NEW n \in (a + 1)..b, source[m] = source[n]
    PROVE  m = n
  <1> DEFINE new == (a + 1)..b
  <1>1. IsFiniteSet(new) /\ Cardinality(new) = IF a + 1 > b THEN 0 ELSE b - (a + 1) + 1
    <2>1. a + 1 \in Int /\ b \in Int
      OBVIOUS
    <2> QED
      BY <2>1, FS_Interval
  <1>2. Cardinality(S) \in Nat
    BY FS_CardinalityType
  <1>3. Cardinality(new) = Cardinality(S)
    BY <1>1, <1>2
  <1> HIDE DEF new
  <1>4. source \in Surjection(new, S)
    <2>1. source \in [new -> S] /\ \A i \in S : \E k \in new : source[k] = i
      BY DEF new
    <2> QED
      BY <2>1 DEF Surjection
  <1>5. source \in Injection(new, S)
    BY <1>1, <1>3, <1>4, FS_SurjSameCardinalityImpliesInj
  <1> QED
    <2>1. m \in new /\ n \in new
      BY DEF new
    <2> QED
      BY <1>5, <2>1 DEF Injection, IsInjective

\* A transaction that has not committed duplicates nothing.
LEMMA QuietHome == ASSUME HomeInv, DeliveryInv', Quiet PROVE HomeInv'
  <1> USE DEF HomeInv, Quiet
  <1>1. SingleCopy' /\ Alone' /\ Once'
    BY DEF SingleCopy, Alone, Once, Spent, Busy
  <1> QED
    BY <1>1

\* The task of a commit had no row, no worker and no success before.
LEMMA AppearsHome == ASSUME HomeInv, DeliveryInv', NEW t \in Task, Appears(t) PROVE HomeInv'
  <1> USE DEF HomeInv
  <1>0. PICK id \in Ids \ DOMAIN jobs :
           /\ DOMAIN jobs' = DOMAIN jobs \cup {id}
           /\ jobs'[id].task = t
           /\ \A i \in DOMAIN jobs : jobs'[i] = jobs[i]
    BY Zenon DEF Appears
  <1>1. UNCHANGED <<failed, work, op, effects, discarded, faults>>
    BY DEF Appears
  <1>2. /\ \A i \in DOMAIN jobs : jobs[i].task # t
        /\ \A j \in DOMAIN failed : failed[j].task # t
        /\ \A w \in Worker : Busy(w) => work[w].task # t
        /\ ~(effects[t] > 0)
    BY DEF Appears, DeliveryInv, Backed
  <1>3. SingleCopy'
    BY <1>0, <1>1, <1>2 DEF SingleCopy, Busy
  <1>4. Alone'
    BY <1>0, <1>1, <1>2 DEF Alone, Busy
  <1>5. Once'
    BY <1>0, <1>1, <1>2 DEF Once, Spent, Busy
  <1> QED
    BY <1>3, <1>4, <1>5

\* The row a claim reads is unreserved: its task has not succeeded, and no worker
\* runs it, for that worker would hold the same row.
LEMMA ClaimHome == ASSUME HomeInv, DeliveryInv', NEW w \in Worker, ClaimSelect(w) PROVE HomeInv'
  <1> USE DEF HomeInv
  <1>1. /\ ~Busy(w) /\ Busy(w)' /\ work'[w].pc = "claiming"
        /\ work'[w].id \in DOMAIN jobs /\ work'[w].task = jobs[work'[w].id].task
        /\ ~jobs[work'[w].id].reserved
        /\ \A v \in Worker \ {w} : work'[v] = work[v]
        /\ UNCHANGED <<jobs, failed, lastId, uow, op, faults, effects, discarded>>
    BY ClaimSelectEffect DEF DeliveryInv
  <1>2. MutualExclusion'
    BY DEF DeliveryInv, QueueInv
  <1>3. \A v \in Worker \ {w} : Busy(v) => work[v].task # work'[w].task
    <2> SUFFICES ASSUME NEW v \in Worker \ {w}, Busy(v), work[v].task = work'[w].task PROVE FALSE
      OBVIOUS
    <2>1. work'[w].id = work'[v].id /\ Busy(v)'
      BY <1>1 DEF Alone, Busy
    <2> QED
      BY <1>1, <1>2, <2>1 DEF MutualExclusion
  <1>4. SingleCopy'
    BY <1>1, <1>3 DEF SingleCopy, Busy
  <1>5. Alone'
    <2>1. \A v \in Worker, i \in DOMAIN jobs : Busy(v)' /\ jobs[i].task = work'[v].task => i = work'[v].id
      BY <1>1 DEF Alone, SingleCopy, Busy
    <2>2. \A v \in Worker, j \in DOMAIN failed : Busy(v)' => failed[j].task # work'[v].task
      BY <1>1 DEF Alone, SingleCopy, Busy
    <2> QED
      BY <1>1, <2>1, <2>2 DEF Alone
  <1>6. Once'
    <2> SUFFICES ASSUME faults = 0, NEW t \in Task, effects[t] > 0 PROVE Spent(t)'
      BY <1>1 DEF Once
    <2>1. Spent(t)
      BY DEF Once
    <2>2. work'[w].task # t
      BY <1>1, <2>1 DEF Spent
    <2> QED
      BY <1>1, <2>1, <2>2 DEF Spent, Busy
  <1> QED
    BY <1>4, <1>5, <1>6

\* Only a failing worker gives its row back or buries its task, and who deletes its
\* row lets go of it unless the statement throws.
LEMMA WorkerMoves ==
    ASSUME QueueInv, NEW w \in Worker, ProcessOne(w) \/ Crash(w), Busy(w)
    PROVE  LET i == work[w].id IN
           /\ i \in DOMAIN jobs /\ i \in DOMAIN jobs' /\ jobs[i].reserved /\ ~jobs'[i].reserved
              => work[w].pc = "failing"
           /\ DOMAIN failed' # DOMAIN failed => work[w].pc = "failing"
           /\ work[w].pc = "deleting" => ~Busy(w)' \/ faults' = faults + 1
  <1> DEFINE i == work[w].id
  <1> USE DEF tables, history
  <1>0. TypeOK /\ \A j \in DOMAIN jobs : jobs[j] \in Row
    BY DEF QueueInv, TypeOK
  <1>1. CASE work[w].pc = "failing"
    BY <1>1
  <1>2. ASSUME NEW jobs1, jobs' = jobs1 \/ jobs' = jobs, failed' = failed,
               i \in DOMAIN jobs /\ i \in DOMAIN jobs1 /\ jobs[i].reserved => jobs1[i].reserved
        PROVE  /\ i \in DOMAIN jobs /\ i \in DOMAIN jobs' => ~jobs[i].reserved \/ jobs'[i].reserved
               /\ DOMAIN failed' = DOMAIN failed
    BY <1>2
  <1>3. CASE work[w].pc = "deleting"
    <2>1. CASE DeleteDone(w)
      <3>1. Write(w, Without(jobs, {i}), failed, "idle", "failing")
        BY <2>1 DEF DeleteDone
      <3>2. /\ (jobs' = Without(jobs, {i}) /\ failed' = failed) \/ (jobs' = jobs /\ failed' = failed)
            /\ ~Busy(w)' \/ faults' = faults + 1
        BY <3>1, WriteEffect DEF After
      <3> QED
        BY <1>3, <3>2 DEF Without
    <2>2. CASE Crash(w)
      <3>1. Goto(w, "idle") /\ jobs' = jobs /\ failed' = failed
        BY <2>2 DEF Crash
      <3>2. ~Busy(w)'
        BY <1>0, <3>1, GotoEffect DEF After
      <3> QED
        BY <1>3, <3>1, <3>2
    <2> QED
      BY <1>3, <2>1, <2>2 DEF ProcessOne, ClaimSelect, Busy, ClaimCommit, DropUnknown, MakeThrows,
         HandleReturns, HandleThrows, MoveToFailed, ScheduleRetry
  <1>4. CASE work[w].pc = "claiming" /\ ClaimCommit(w)
    <2> DEFINE jobs1 == [jobs EXCEPT ![i].reserved = TRUE, ![i].attempts = @ + 1]
    <2>1. (jobs' = jobs1 /\ failed' = failed) \/ (jobs' = jobs /\ failed' = failed)
      BY <1>4, WriteEffect DEF ClaimCommit, After
    <2>2. i \in DOMAIN jobs => jobs1[i].reserved
      BY <1>0 DEF Row
    <2> QED
      BY <1>4, <2>1, <2>2
  <1>5. CASE work[w].pc = "claimed" /\ DropUnknown(w)
    <2>1. (jobs' = Without(jobs, {i}) /\ failed' = failed) \/ (jobs' = jobs /\ failed' = failed)
      BY <1>5, WriteEffect DEF DropUnknown, After
    <2> QED
      BY <1>5, <2>1 DEF Without
  <1>6. CASE MakeThrows(w) \/ HandleReturns(w) \/ HandleThrows(w) \/ Crash(w)
    <2>1. jobs' = jobs /\ failed' = failed
      BY <1>6 DEF MakeThrows, HandleReturns, HandleThrows, Crash
    <2> QED
      BY <1>3, <2>1
  <1> QED
    BY <1>1, <1>3, <1>4, <1>5, <1>6 DEF ProcessOne, ClaimSelect, Busy, ClaimCommit, DropUnknown,
       MakeThrows, HandleReturns, HandleThrows, DeleteDone, MoveToFailed, ScheduleRetry

\* A worker's other steps: its task moves from its row to the dead letters or stays,
\* and a task that succeeded is not handled again.
LEMMA WorkerHome ==
    ASSUME HomeInv, DeliveryInv', NEW w \in Worker, ProcessOne(w) \/ Crash(w), ~ClaimSelect(w)
    PROVE  HomeInv'
  <1> USE DEF HomeInv
  <1> DEFINE i == work[w].id
             u == work[w].task
  <1>0. QueueInv /\ ReadsMatch
    BY DEF DeliveryInv
  <1>1. Handles(w)
    BY <1>0, WorkerEffect
  <1>2. /\ Busy(w) /\ u \in Task /\ op' = op
        /\ DOMAIN jobs' \subseteq DOMAIN jobs
        /\ \A j \in DOMAIN jobs' : jobs'[j].task = jobs[j].task /\ (j # i => jobs'[j] = jobs[j])
        /\ DOMAIN failed \subseteq DOMAIN failed'
        /\ \A j \in DOMAIN failed : failed'[j] = failed[j]
        /\ \A j \in DOMAIN failed' \ DOMAIN failed :
              j = lastId' /\ failed'[j].task = u /\ i \notin DOMAIN jobs' /\ ~Busy(w)'
        /\ \A v \in Worker \ {w} : work'[v] = work[v]
        /\ Busy(w)' => work'[w].id = i /\ work'[w].task = u
    BY <1>0, <1>1, TasksOfRows DEF Handles
  <1>3. SingleCopy'
    <2>1. \A j, k \in DOMAIN jobs' : jobs'[j].task = jobs'[k].task => j = k
      BY <1>2 DEF SingleCopy
    <2>2. \A j, k \in DOMAIN failed' : failed'[j].task = failed'[k].task => j = k
      BY <1>2 DEF SingleCopy, Alone
    <2>3. \A j \in DOMAIN jobs', k \in DOMAIN failed' : jobs'[j].task # failed'[k].task
      BY <1>2 DEF SingleCopy, Alone
    <2>4. \A v, x \in Worker : Busy(v)' /\ Busy(x)' /\ work'[v].task = work'[x].task => v = x
      <3>1. \A v \in Worker : Busy(v)' => Busy(v) /\ work'[v].task = work[v].task
        BY <1>2 DEF Busy
      <3> QED
        BY <3>1 DEF SingleCopy
    <2> QED
      BY <2>1, <2>2, <2>3, <2>4 DEF SingleCopy
  <1>4. Alone'
    <2>1. \A v \in Worker : Busy(v)' => Busy(v) /\ work'[v].task = work[v].task /\ work'[v].id = work[v].id
      BY <1>2 DEF Busy
    <2>2. \A v \in Worker, j \in DOMAIN jobs' : Busy(v)' /\ jobs'[j].task = work'[v].task => j = work'[v].id
      BY <1>2, <2>1 DEF Alone
    <2>3. \A v \in Worker, j \in DOMAIN failed' : Busy(v)' => failed'[j].task # work'[v].task
      BY <1>2, <2>1 DEF Alone, SingleCopy
    <2> QED
      BY <1>2, <2>2, <2>3 DEF Alone
  <1>5. /\ effects' = effects \/ HandleReturns(w)
        /\ faults \in Nat /\ (faults' = faults \/ faults' = faults + 1)
        /\ effects \in [Task -> Nat]
    BY <1>0, WorkerHistory DEF QueueInv, TypeOK
  <1>6. ASSUME HandleReturns(w), faults = 0, NEW t \in Task, effects'[t] > 0 PROVE Spent(t)'
    <2>1. work[w].pc = "claimed" /\ jobs' = jobs /\ failed' = failed /\ effects' = [effects EXCEPT ![u] = @ + 1]
      BY <1>6 DEF HandleReturns, tables
    <2>2. work'[w].pc = "deleting" /\ Busy(w)'
      BY <1>0, <1>2, <1>6, GotoEffect DEF HandleReturns, After, QueueInv
    <2>3. CASE t = u
      <3>1. ~Spent(u)
        BY <1>2, <2>1 DEF Spent
      <3>2. effects[u] = 0
        BY <1>2, <1>5, <1>6, <3>1 DEF Once
      <3>3. effects'[u] = 1
        BY <1>2, <1>5, <2>1, <3>2
      <3>4. \A j \in DOMAIN jobs : jobs[j].task = u => jobs[j].reserved
        BY <1>0, <1>2, <2>1 DEF Alone, QueueInv, HeldRowsMatch
      <3>5. \A j \in DOMAIN failed : failed[j].task # u
        BY <1>2 DEF Alone
      <3>6. \A v \in Worker : Busy(v)' /\ work'[v].task = u => v = w
        BY <1>2 DEF SingleCopy, Busy
      <3> QED
        BY <2>1, <2>2, <2>3, <3>3, <3>4, <3>5, <3>6 DEF Spent
    <2>4. CASE t # u
      <3>1. effects'[t] = effects[t]
        BY <1>2, <1>5, <2>1, <2>4
      <3>2. Spent(t)
        BY <1>6, <3>1 DEF Once
      <3> QED
        BY <1>2, <2>1, <2>2, <2>4, <3>1, <3>2 DEF Spent, Busy
    <2> QED
      BY <2>3, <2>4
  <1>7. ASSUME effects' = effects, faults = 0, faults' = 0, NEW t \in Task, effects[t] > 0 PROVE Spent(t)'
    <2>1. Spent(t)
      BY <1>7 DEF Once
    <2>2. u = t => work[w].pc = "deleting" /\ work[w].pc # "failing"
      BY <1>2, <2>1 DEF Spent
    <2>3. /\ i \in DOMAIN jobs /\ i \in DOMAIN jobs' /\ jobs[i].reserved /\ ~jobs'[i].reserved
             => work[w].pc = "failing"
          /\ DOMAIN failed' # DOMAIN failed => work[w].pc = "failing"
          /\ work[w].pc = "deleting" => ~Busy(w)'
      BY <1>0, <1>2, <1>7, WorkerMoves
    <2>4. i \in DOMAIN jobs => jobs[i].task = u
      BY <1>0, <1>2 DEF QueueInv, HeldRowsMatch
    <2>5. \A j \in DOMAIN jobs' : jobs'[j].task = t => jobs'[j].reserved
      BY <1>2, <2>1, <2>2, <2>3, <2>4 DEF Spent
    <2>6. \A j \in DOMAIN failed' : failed'[j].task # t
      BY <1>2, <2>1, <2>2, <2>3 DEF Spent
    <2>7. \A v \in Worker : Busy(v)' /\ work'[v].task = t => work'[v].pc = "deleting"
      BY <1>2, <2>1, <2>2, <2>3 DEF Spent, Busy
    <2> QED
      BY <1>7, <2>1, <2>5, <2>6, <2>7 DEF Spent
  <1>8. Once'
    <2>1. faults' = 0 => faults = 0
      BY <1>5
    <2> QED
      BY <1>5, <1>6, <1>7, <2>1 DEF Once
  <1> QED
    BY <1>3, <1>4, <1>8

\* One operator alone requeues each dead letter once: a letter it read is still there.
LEMMA RetryHome ==
    ASSUME OneAtATime, HomeInv, DeliveryInv', NEW o \in Operator, RetryCommit(o) PROVE HomeInv'
  <1> USE DEF HomeInv
  <1> DEFINE new == (lastId + 1)..lastId'
             dead == DOMAIN op[o]
  <1>0. QueueInv /\ Requeues(o)
    BY RetryEffect DEF DeliveryInv
  <1>1. PICK source \in [new -> dead] :
           /\ \A i \in dead : \E n \in new : source[n] = i
           /\ \A n \in new : jobs'[n].task = op[o][source[n]].task /\ ~jobs'[n].reserved
    BY <1>0, Zenon DEF Requeues
  <1>2. dead \subseteq DOMAIN failed /\ \A j \in dead : failed[j].task = op[o][j].task
    BY DEF Alone, DeliveryInv, ReadsMatch
  <1>3. \A m, n \in new : source[m] = source[n] => m = n
    <2>1. dead \subseteq 1..MaxId
      BY <1>0 DEF QueueInv, TypeOK
    <2>2. IsFiniteSet(dead)
      <3>1. IsFiniteSet(1..MaxId)
        BY QueueAssumption, FS_Interval
      <3> QED
        BY <2>1, <3>1, FS_Subset
    <2>3. lastId \in Nat /\ lastId' \in Nat /\ lastId' = lastId + Cardinality(dead)
      BY <1>0 DEF Requeues
    <2> HIDE DEF dead
    <2>4. ASSUME NEW m \in new, NEW n \in new, source[m] = source[n] PROVE m = n
      BY <1>1, <2>2, <2>3, <2>4, OneRowEach
    <2> QED
      BY <2>4
  <1>4. /\ DOMAIN jobs' = DOMAIN jobs \cup new
        /\ \A n \in DOMAIN jobs : jobs'[n] = jobs[n]
        /\ UNCHANGED <<work, faults, effects>>
    BY <1>0 DEF Requeues
  <1>5. DOMAIN failed' = DOMAIN failed \ dead /\ \A j \in DOMAIN failed' : failed'[j] = failed[j]
    BY <1>0 DEF Requeues, Without
  <1> HIDE DEF new
  <1>6. \A n \in new : source[n] \in dead /\ jobs'[n].task = failed[source[n]].task
    BY <1>1, <1>2
  <1>7. SingleCopy'
    <2>1. \A m, n \in DOMAIN jobs' : jobs'[m].task = jobs'[n].task => m = n
      BY <1>2, <1>3, <1>4, <1>6 DEF SingleCopy
    <2>2. \A j, k \in DOMAIN failed' : failed'[j].task = failed'[k].task => j = k
      BY <1>5 DEF SingleCopy
    <2>3. \A n \in DOMAIN jobs', j \in DOMAIN failed' : jobs'[n].task # failed'[j].task
      BY <1>2, <1>4, <1>5, <1>6 DEF SingleCopy
    <2> QED
      BY <1>4, <2>1, <2>2, <2>3 DEF SingleCopy, Busy
  <1>8. Alone'
    <2>1. \A w \in Worker, n \in DOMAIN jobs' : Busy(w) /\ jobs'[n].task = work[w].task => n = work[w].id
      BY <1>2, <1>4, <1>6 DEF Alone
    <2>2. \A w \in Worker, j \in DOMAIN failed' : Busy(w) => failed'[j].task # work[w].task
      BY <1>5 DEF Alone
    <2>3. \A p \in Operator : DOMAIN op'[p] = {}
      BY <1>0 DEF OneAtATime, Requeues, NoRows, QueueInv, TypeOK
    <2> QED
      BY <1>4, <2>1, <2>2, <2>3 DEF Alone, Busy
  <1>9. Once'
    <2> SUFFICES ASSUME faults = 0, NEW t \in Task, effects[t] > 0 PROVE Spent(t)'
      BY <1>4 DEF Once
    <2>1. Spent(t)
      BY DEF Once
    <2>2. \A n \in DOMAIN jobs' : jobs'[n].task = t => jobs'[n].reserved
      BY <1>2, <1>4, <1>6, <2>1 DEF Spent
    <2> QED
      BY <1>4, <1>5, <2>1, <2>2 DEF Spent, Busy
  <1> QED
    BY <1>7, <1>8, <1>9

\* A SELECT duplicates nothing, and what it returned is in the table.
LEMMA OperatorReadHome ==
    ASSUME HomeInv, DeliveryInv', NEW o \in Operator, RetrySelect(o) \/ RetryAbort(o)
    PROVE  HomeInv'
  <1> USE DEF HomeInv
  <1>1. /\ UNCHANGED <<jobs, failed, lastId, uow, work, faults, effects, discarded>>
        /\ \A p \in Operator : \/ op'[p] = op[p]
                               \/ op'[p] = NoRows
                               \/ DOMAIN op'[p] \subseteq DOMAIN failed
    BY OperatorReadEffect DEF DeliveryInv
  <1>2. SingleCopy' /\ Once'
    BY <1>1 DEF SingleCopy, Once, Spent, Busy
  <1>3. Alone'
    BY <1>1 DEF Alone, NoRows, Busy
  <1> QED
    BY <1>2, <1>3

\* Rows that become due or are flushed keep their tasks and their reservations.
LEMMA RowsHome ==
    ASSUME HomeInv, DeliveryInv', (\E i \in Ids : BecomeDue(i)) \/ (\E queues : Flush(queues))
    PROVE  HomeInv'
  <1> USE DEF HomeInv
  <1>1. UNCHANGED <<failed, lastId, uow, work, op, faults, effects>>
    BY DEF BecomeDue, Flush, history
  <1>2. /\ DOMAIN jobs' \subseteq DOMAIN jobs
        /\ \A i \in DOMAIN jobs' : jobs'[i].task = jobs[i].task /\ jobs'[i].reserved = jobs[i].reserved
    <2>1. ASSUME NEW i \in Ids, BecomeDue(i)
          PROVE  /\ DOMAIN jobs' = DOMAIN jobs
                 /\ \A j \in DOMAIN jobs' : jobs'[j].task = jobs[j].task /\ jobs'[j].reserved = jobs[j].reserved
      BY <2>1 DEF BecomeDue, DeliveryInv, QueueInv, TypeOK, Row
    <2>2. ASSUME NEW queues, Flush(queues)
          PROVE  /\ DOMAIN jobs' \subseteq DOMAIN jobs
                 /\ \A j \in DOMAIN jobs' : jobs'[j].task = jobs[j].task /\ jobs'[j].reserved = jobs[j].reserved
      BY <2>2 DEF Flush, Without
    <2> QED
      BY <2>1, <2>2
  <1>3. SingleCopy'
    BY <1>1, <1>2 DEF SingleCopy, Busy
  <1>4. Alone'
    BY <1>1, <1>2 DEF Alone, Busy
  <1>5. Once'
    BY <1>1, <1>2 DEF Once, Spent, Busy
  <1> QED
    BY <1>3, <1>4, <1>5

\* With one operator at a time no step duplicates a job.
LEMMA StepHome == ASSUME OneAtATime PROVE HomeInv /\ [Next]_vars => HomeInv'
  <1> SUFFICES ASSUME HomeInv, [Next]_vars PROVE HomeInv'
    OBVIOUS
  <1>0. QueueInv /\ QueueInv' /\ DeliveryInv /\ DeliveryInv'
    BY StepInv, StepDelivery DEF HomeInv, DeliveryInv
  <1>1. ASSUME NEW t \in Task, Dispatcher(t) PROVE HomeInv'
    BY <1>0, <1>1, DispatchEffect, QuietHome, AppearsHome
  <1>2. ASSUME NEW w \in Worker, ProcessOne(w) \/ Crash(w) PROVE HomeInv'
    BY <1>0, <1>2, ClaimHome, WorkerHome
  <1>3. ASSUME NEW o \in Operator, RetrySelect(o) \/ RetryCommit(o) \/ RetryAbort(o) PROVE HomeInv'
    BY <1>0, <1>3, OperatorReadHome, RetryHome
  <1>4. CASE (\E i \in Ids : BecomeDue(i)) \/ (\E queues \in {Queue} \cup {{q} : q \in Queue} : Flush(queues))
    BY <1>0, <1>4, RowsHome
  <1>5. CASE UNCHANGED vars
    BY <1>0, <1>5 DEF vars, HomeInv, SingleCopy, Alone, Once, Spent, Busy
  <1> QED
    BY <1>1, <1>2, <1>3, <1>4, <1>5, Zenon DEF Next, Console

\* With one operator at a time HomeInv holds in every reachable state.
THEOREM HomeInvariant == ASSUME OneAtATime PROVE Spec => []HomeInv
  <1>1. HomeInv /\ [Next]_vars => HomeInv'
    BY StepHome
  <1> QED
    BY <1>1, InitHome, PTL DEF Spec

\* With one operator at a time a committed job is in exactly one place: one row of one
\* of the two tables, held by at most one worker.
THEOREM OnePlace == ASSUME OneAtATime PROVE Spec => []OneHome
  <1>1. HomeInv => OneHome
    BY DEF HomeInv, DeliveryInv, OneHome
  <1> QED
    BY <1>1, HomeInvariant, PTL

\* With one operator at a time only a statement that throws can make a job run to
\* completion twice, whoever crashes, retries or flushes.
THEOREM OneSuccess == ASSUME OneAtATime PROVE Spec => []SuccessOnce
  <1>1. HomeInv => SuccessOnce
    <2> SUFFICES ASSUME HomeInv, faults = 0, NEW t \in Task PROVE effects[t] <= 1
      BY DEF SuccessOnce
    <2>1. effects[t] \in Nat
      BY DEF HomeInv, DeliveryInv, QueueInv, TypeOK
    <2>2. effects[t] > 0 => effects[t] = 1
      BY DEF HomeInv, Once, Spent
    <2> QED
      BY <2>1, <2>2
  <1> QED
    BY <1>1, HomeInvariant, PTL

-----------------------------------------------------------------------------
(* ReservationStable *)

\* A worker that acts on its row moves on: no statement leaves it where it was.
LEMMA WorkerMovesOn ==
    ASSUME QueueInv, NEW w \in Worker, ProcessOne(w) \/ Crash(w) PROVE work'[w] # work[w]
  <1>0. TypeOK
    BY DEF QueueInv
  <1>1. CASE ClaimSelect(w)
    BY <1>1, ClaimSelectEffect DEF Busy
  <1>2. \A pc \in After : Goto(w, pc) /\ pc # work[w].pc => work'[w] # work[w]
    BY <1>0, GotoPc
  <1>3. \A jobs1, failed1 : \A pc, pcError \in After :
           Write(w, jobs1, failed1, pc, pcError) /\ pc # work[w].pc /\ pcError # work[w].pc => work'[w] # work[w]
    BY <1>2, Zenon DEF Write
  <1>4. After = {"idle", "claimed", "deleting", "failing"}
    BY DEF After
  <1>5. CASE ClaimCommit(w)
    BY <1>3, <1>4, <1>5 DEF ClaimCommit
  <1>6. CASE DropUnknown(w)
    BY <1>3, <1>4, <1>6 DEF DropUnknown
  <1>7. CASE DeleteDone(w)
    BY <1>3, <1>4, <1>7 DEF DeleteDone
  <1>8. CASE MoveToFailed(w)
    BY <1>3, <1>4, <1>8 DEF MoveToFailed
  <1>9. ASSUME NEW due \in BOOLEAN, ScheduleRetry(w, due) PROVE work'[w] # work[w]
    BY <1>3, <1>4, <1>9 DEF ScheduleRetry
  <1>10. CASE MakeThrows(w) \/ HandleReturns(w) \/ HandleThrows(w) \/ Crash(w)
    BY <1>2, <1>4, <1>10 DEF MakeThrows, HandleReturns, HandleThrows, Crash, Busy
  <1> QED
    BY <1>1, <1>5, <1>6, <1>7, <1>8, <1>9, <1>10, Zenon DEF ProcessOne

\* In every step a reserved row that is given back or taken away is the one of a worker
\* that moves on, or queue:flush discards its task.
LEMMA StepReservation ==
    ASSUME DeliveryInv, [Next]_vars, NEW i \in DOMAIN jobs, jobs[i].reserved,
           i \notin DOMAIN jobs' \/ ~jobs'[i].reserved
    PROVE  \/ jobs[i].task \in discarded'
           \/ \E w \in Worker : Busy(w) /\ work[w].id = i /\ work'[w] # work[w]
  <1>0. QueueInv /\ ReadsMatch
    BY DEF DeliveryInv
  <1>1. ASSUME NEW t \in Task, Dispatcher(t) PROVE FALSE
    BY <1>0, <1>1, DispatchEffect DEF Quiet, Appears
  <1>2. ASSUME NEW w \in Worker, ProcessOne(w) \/ Crash(w)
        PROVE  Busy(w) /\ work[w].id = i /\ work'[w] # work[w]
    <2>1. CASE ClaimSelect(w)
      BY <1>0, <2>1, ClaimSelectEffect
    <2>2. CASE ~ClaimSelect(w)
      <3>1. Handles(w)
        BY <1>0, <1>2, <2>2, WorkerEffect
      <3> QED
        BY <1>0, <1>2, <3>1, WorkerMovesOn DEF Handles
    <2> QED
      BY <2>1, <2>2
  <1>3. ASSUME NEW o \in Operator, RetrySelect(o) \/ RetryCommit(o) \/ RetryAbort(o) PROVE FALSE
    <2>1. CASE RetryCommit(o)
      BY <1>0, <2>1, RetryEffect DEF Requeues
    <2>2. CASE RetrySelect(o) \/ RetryAbort(o)
      BY <1>0, <2>2, OperatorReadEffect
    <2> QED
      BY <1>3, <2>1, <2>2
  <1>4. ASSUME NEW j \in Ids, BecomeDue(j) PROVE FALSE
    BY <1>0, <1>4 DEF BecomeDue, QueueInv, TypeOK, Row
  <1>5. ASSUME NEW queues, Flush(queues) PROVE jobs[i].task \in discarded'
    BY <1>5 DEF Flush, Without
  <1>6. CASE UNCHANGED vars
    BY <1>6 DEF vars
  <1> QED
    BY <1>1, <1>2, <1>3, <1>4, <1>5, <1>6, Zenon DEF Next, Console

\* Nobody but the worker that holds a reserved row gives it back or takes it away,
\* except queue:flush.
THEOREM Reservation == Spec => ReservationStable
  <1>1. DeliveryInv /\ [Next]_vars =>
           [\A i \in DOMAIN jobs :
               jobs[i].reserved /\ (i \notin DOMAIN jobs' \/ ~jobs'[i].reserved)
               => \/ jobs[i].task \in discarded'
                  \/ \E w \in Worker : Busy(w) /\ work[w].id = i /\ work'[w] # work[w]]_vars
    BY StepReservation
  <1> QED
    BY <1>1, DeliveryInvariant, PTL DEF Spec, ReservationStable

-----------------------------------------------------------------------------
(* ImplementsLedger *)

\* A worker whose row is gone handles a task that was discarded or has succeeded.
MissingRowExplained ==
    \A w \in Worker : Busy(w) /\ work[w].id \notin DOMAIN jobs =>
        work[w].task \in discarded \/ effects[work[w].task] > 0

\* The inductive invariant behind the refinement.
LedgerInv == HomeInv /\ MissingRowExplained

statuses == [t \in Task |-> LedgerStatus(t)]

\* No worker is busy.
LEMMA InitLedger == Init => LedgerInv
  BY InitHome DEF Init, Idle, Busy, LedgerInv, MissingRowExplained

\* A row disappears under its worker only when queue:flush takes it, or after the
\* handler returned.
LEMMA StepMissing ==
    ASSUME LedgerInv, HomeInv', [Next]_vars PROVE MissingRowExplained'
  <1> USE DEF LedgerInv
  <1>0. QueueInv /\ ReadsMatch /\ DoneWhenDeleting
    BY DEF HomeInv, DeliveryInv
  <1>1. ASSUME NEW t \in Task, Dispatcher(t) PROVE MissingRowExplained'
    BY <1>0, <1>1, DispatchEffect DEF Quiet, Appears, MissingRowExplained, Busy
  <1>2. ASSUME NEW w \in Worker, ClaimSelect(w) PROVE MissingRowExplained'
    BY <1>0, <1>2, ClaimSelectEffect DEF MissingRowExplained, Busy
  <1>3. ASSUME NEW w \in Worker, ProcessOne(w) \/ Crash(w), ~ClaimSelect(w) PROVE MissingRowExplained'
    <2>1. Handles(w)
      BY <1>0, <1>3, WorkerEffect
    <2>2. effects \in [Task -> Nat] /\ (effects' = effects \/ HandleReturns(w)) /\ discarded \subseteq discarded'
      BY <1>0, <1>3, WorkerHistory DEF QueueInv, TypeOK
    <2>3. Busy(w) /\ \A v \in Worker : Busy(v) => work[v].task \in Task
      BY <1>0, <2>1, TasksOfRows DEF Handles
    <2>4. \A t \in Task : effects[t] > 0 => effects'[t] > 0
      BY <2>2, <2>3 DEF HandleReturns
    <2> SUFFICES ASSUME NEW v \in Worker, Busy(v)', work'[v].id \notin DOMAIN jobs'
                 PROVE  work'[v].task \in discarded' \/ effects'[work'[v].task] > 0
      BY DEF MissingRowExplained
    <2>5. Busy(v) /\ work'[v].id = work[v].id /\ work'[v].task = work[v].task
      BY <2>1 DEF Handles, Busy
    <2>6. CASE work[v].id \notin DOMAIN jobs
      BY <2>2, <2>3, <2>4, <2>5, <2>6 DEF MissingRowExplained
    <2>7. CASE work[v].id \in DOMAIN jobs
      <3>1. work[v].id = work[w].id
        BY <2>1, <2>5, <2>7 DEF Handles
      <3>2. v = w
        BY <1>0, <2>3, <2>5, <3>1 DEF QueueInv, MutualExclusion
      <3>3. \/ work[w].task \in discarded' \/ effects[work[w].task] > 0
            \/ \E j \in DOMAIN failed' : failed'[j].task = work[w].task
        BY <1>0, <1>3, <2>3, <2>5, <2>7, <3>2, RemovedForAReason
      <3>4. \A j \in DOMAIN failed' : failed'[j].task # work'[w].task
        BY <3>2 DEF HomeInv, Alone
      <3> QED
        BY <2>3, <2>4, <2>5, <3>2, <3>3, <3>4
    <2> QED
      BY <2>6, <2>7
  <1>4. ASSUME NEW o \in Operator, RetrySelect(o) \/ RetryCommit(o) \/ RetryAbort(o) PROVE MissingRowExplained'
    <2>1. CASE RetryCommit(o)
      BY <1>0, <2>1, RetryEffect DEF Requeues, MissingRowExplained, Busy
    <2>2. CASE RetrySelect(o) \/ RetryAbort(o)
      BY <1>0, <2>2, OperatorReadEffect DEF MissingRowExplained, Busy
    <2> QED
      BY <1>4, <2>1, <2>2
  <1>5. ASSUME NEW j \in Ids, BecomeDue(j) PROVE MissingRowExplained'
    BY <1>0, <1>5 DEF BecomeDue, MissingRowExplained, Busy, QueueInv, TypeOK, history
  <1>6. ASSUME NEW queues, Flush(queues) PROVE MissingRowExplained'
    BY <1>0, <1>6 DEF Flush, Without, MissingRowExplained, Busy, QueueInv, HeldRowsMatch
  <1>7. CASE UNCHANGED vars
    BY <1>7 DEF vars, MissingRowExplained, Busy
  <1> QED
    BY <1>1, <1>2, <1>3, <1>4, <1>5, <1>6, <1>7, Zenon DEF Next, Console

\* With one operator at a time LedgerInv holds in every reachable state.
LEMMA LedgerInvariant == ASSUME OneAtATime PROVE Spec => []LedgerInv
  <1>1. LedgerInv /\ [Next]_vars => LedgerInv'
    <2> SUFFICES ASSUME LedgerInv, [Next]_vars PROVE LedgerInv'
      OBVIOUS
    <2>1. HomeInv'
      BY StepHome DEF LedgerInv
    <2> QED
      BY <2>1, StepMissing DEF LedgerInv
  <1> QED
    BY <1>1, InitLedger, PTL DEF Spec

\* A step that moves one task to a status, as the ledger writes it.
LEMMA OneMoves ==
    ASSUME NEW u \in Task, NEW x, LedgerStatus(u)' = x,
           \A t \in Task \ {u} : LedgerStatus(t)' = LedgerStatus(t)
    PROVE  statuses' = [statuses EXCEPT ![u] = x]
  BY DEF statuses

\* The task of a busy worker is queued while it claims and running afterwards.
LEMMA HeldStatus ==
    ASSUME LedgerInv, NEW w \in Worker, Busy(w)
    PROVE  LedgerStatus(work[w].task) = IF work[w].pc = "claiming" THEN "queued" ELSE "running"
  <1> DEFINE u == work[w].task
             i == work[w].id
  <1>0. QueueInv /\ SingleCopy /\ Alone
    BY DEF LedgerInv, HomeInv, DeliveryInv
  <1>1. work[w] \in Claim
    BY <1>0, BusyIsClaim DEF QueueInv
  <1>2. CASE work[w].pc = "claiming"
    <2>1. i \in DOMAIN jobs /\ ~jobs[i].reserved /\ jobs[i].task = u
      BY <1>0, <1>2 DEF QueueInv, HeldRowsMatch, Busy
    <2>2. ~\E v \in Worker : Running(v) /\ work[v].task = u
      BY <1>0, <1>2 DEF SingleCopy, Running, Busy
    <2>3. ~Stranded(u)
      BY <1>0, <2>1 DEF Stranded, Alone
    <2> QED
      BY <1>2, <2>1, <2>2, <2>3 DEF LedgerStatus
  <1>3. CASE work[w].pc # "claiming"
    <2>1. Running(w)
      BY <1>1, <1>3 DEF Running, Claim
    <2> QED
      BY <1>3, <2>1 DEF LedgerStatus
  <1> QED
    BY <1>2, <1>3

\* A worker's step does not change where other tasks are.
LEMMA OthersStay ==
    ASSUME LedgerInv, NEW w \in Worker, Handles(w), NEW t \in Task, t # work[w].task
    PROVE  LedgerStatus(t)' = LedgerStatus(t)
  <1> DEFINE u == work[w].task
             i == work[w].id
  <1>0. QueueInv
    BY DEF LedgerInv, HomeInv, DeliveryInv
  <1>1. /\ Busy(w)
        /\ DOMAIN jobs' \subseteq DOMAIN jobs /\ DOMAIN jobs \ {i} \subseteq DOMAIN jobs'
        /\ \A j \in DOMAIN jobs' : jobs'[j].task = jobs[j].task /\ (j # i => jobs'[j] = jobs[j])
        /\ DOMAIN failed \subseteq DOMAIN failed'
        /\ \A j \in DOMAIN failed : failed'[j] = failed[j]
        /\ \A j \in DOMAIN failed' \ DOMAIN failed : failed'[j].task = u
        /\ \A v \in Worker \ {w} : work'[v] = work[v]
        /\ Busy(w)' => work'[w].id = i /\ work'[w].task = u
        /\ uow' = uow
    BY DEF Handles
  <1>2. i \in DOMAIN jobs => jobs[i].task = u
    BY <1>0, <1>1 DEF QueueInv, HeldRowsMatch
  <1>3. (\E v \in Worker : Running(v)' /\ work'[v].task = t) <=> \E v \in Worker : Running(v) /\ work[v].task = t
    BY <1>1 DEF Running, Busy
  <1>4. \A j : j \in DOMAIN jobs' /\ jobs'[j].task = t <=> j \in DOMAIN jobs /\ jobs[j].task = t
    BY <1>1, <1>2
  <1>5. \A j \in DOMAIN jobs : jobs[j].task = t => j # i /\ jobs'[j] = jobs[j]
    BY <1>1, <1>2
  <1>6. \A j \in DOMAIN jobs : jobs[j].task = t =>
           ((\E v \in Worker : Busy(v)' /\ work'[v].id = j) <=> \E v \in Worker : Busy(v) /\ work[v].id = j)
    BY <1>1, <1>5 DEF Busy
  <1>7. Stranded(t)' <=> Stranded(t)
    <2>1. Stranded(t)' <=> \E j \in DOMAIN jobs' : /\ jobs'[j].task = t /\ jobs'[j].reserved
                                                   /\ ~\E v \in Worker : Busy(v)' /\ work'[v].id = j
      BY DEF Stranded
    <2> QED
      BY <1>4, <1>5, <1>6, <2>1 DEF Stranded
  <1>8. (\E j \in DOMAIN failed' : failed'[j].task = t) <=> \E j \in DOMAIN failed : failed[j].task = t
    BY <1>1
  <1>9. (\E j \in DOMAIN jobs' : jobs'[j].task = t) <=> \E j \in DOMAIN jobs : jobs[j].task = t
    BY <1>4
  <1> QED
    BY <1>1, <1>3, <1>7, <1>8, <1>9 DEF LedgerStatus

\* Where the task of a worker is that has let go of it.
LEMMA LetGoStatus ==
    ASSUME LedgerInv, NEW w \in Worker, Handles(w), ~Busy(w)', NEW u \in Task, u = work[w].task
    PROVE  LET i == work[w].id IN
           LedgerStatus(u)' = IF i \in DOMAIN jobs' THEN IF jobs'[i].reserved THEN "stranded" ELSE "queued"
                              ELSE IF DOMAIN failed' # DOMAIN failed THEN "dead" ELSE "gone"
  <1> DEFINE i == work[w].id
  <1>0. QueueInv /\ SingleCopy /\ Alone /\ Backed
    BY DEF LedgerInv, HomeInv, DeliveryInv
  <1>1. /\ Busy(w)
        /\ DOMAIN jobs' \subseteq DOMAIN jobs
        /\ \A j \in DOMAIN jobs' : jobs'[j].task = jobs[j].task
        /\ DOMAIN failed \subseteq DOMAIN failed'
        /\ \A j \in DOMAIN failed : failed'[j] = failed[j]
        /\ \A j \in DOMAIN failed' \ DOMAIN failed : failed'[j].task = u
        /\ \A v \in Worker \ {w} : work'[v] = work[v]
        /\ uow' = uow
    BY DEF Handles
  <1>2. i \in DOMAIN jobs => jobs[i].task = u
    BY <1>0, <1>1 DEF QueueInv, HeldRowsMatch
  <1>3. ~\E v \in Worker : Running(v)' /\ work'[v].task = u
    <2> SUFFICES ASSUME NEW v \in Worker, Running(v)', work'[v].task = u PROVE FALSE
      OBVIOUS
    <2>1. v # w
      BY DEF Running, Busy
    <2>2. Busy(v) /\ work[v].task = u
      BY <1>1, <2>1 DEF Running, Busy
    <2> QED
      BY <1>0, <1>1, <2>1, <2>2 DEF SingleCopy
  <1>4. \A j \in DOMAIN jobs' : jobs'[j].task = u => j = i
    BY <1>0, <1>1 DEF Alone
  <1>5. ~\E v \in Worker : Busy(v)' /\ work'[v].id = i
    <2> SUFFICES ASSUME NEW v \in Worker, Busy(v)', work'[v].id = i PROVE FALSE
      OBVIOUS
    <2>1. v # w /\ Busy(v) /\ work[v].id = i
      BY <1>1 DEF Busy
    <2> QED
      BY <1>0, <1>1, <2>1 DEF QueueInv, MutualExclusion
  <1>6. i \in DOMAIN jobs' => jobs'[i].task = u
    BY <1>1, <1>2
  <1>7. Stranded(u)' <=> i \in DOMAIN jobs' /\ jobs'[i].reserved
    <2>1. Stranded(u)' <=> \E j \in DOMAIN jobs' : /\ jobs'[j].task = u /\ jobs'[j].reserved
                                                   /\ ~\E v \in Worker : Busy(v)' /\ work'[v].id = j
      BY DEF Stranded
    <2> QED
      BY <1>4, <1>5, <1>6, <2>1
  <1>8. (\E j \in DOMAIN failed' : failed'[j].task = u) <=> DOMAIN failed' # DOMAIN failed
    BY <1>0, <1>1 DEF Alone
  <1>9. (\E j \in DOMAIN jobs' : jobs'[j].task = u) <=> i \in DOMAIN jobs'
    BY <1>4, <1>6
  <1>10. uow'[u].state = "committed"
    BY <1>0, <1>1 DEF Backed, Committed
  <1> QED
    BY <1>3, <1>7, <1>8, <1>9, <1>10 DEF LedgerStatus

\* Every statement but a claim's SELECT sends its worker to a place of After.
LEMMA AfterPc ==
    ASSUME QueueInv, NEW w \in Worker, ProcessOne(w) \/ Crash(w), ~ClaimSelect(w)
    PROVE  work'[w].pc \in After
  <1>0. TypeOK
    BY DEF QueueInv
  <1>1. \A pc \in After : Goto(w, pc) => work'[w].pc \in After
    BY <1>0, GotoPc
  <1>2. \A jobs1, failed1 : \A pc, pcError \in After :
           Write(w, jobs1, failed1, pc, pcError) => work'[w].pc \in After
    BY <1>1, Zenon DEF Write
  <1>3. "idle" \in After /\ "claimed" \in After /\ "deleting" \in After /\ "failing" \in After
    BY DEF After
  <1> QED
    BY <1>1, <1>2, <1>3, Zenon
       DEF ProcessOne, ClaimCommit, DropUnknown, MakeThrows, HandleReturns, HandleThrows, DeleteDone,
           MoveToFailed, ScheduleRetry, Crash

\* One task moves and nothing is completed or discarded: the ledger has a step for
\* each move a queue makes.
LEMMA LedgerMoves ==
    ASSUME NEW u \in Task, NEW y, NEW x, LedgerStatus(u) = y, LedgerStatus(u)' = x,
           \A t \in Task \ {u} : LedgerStatus(t)' = LedgerStatus(t),
           effects' = effects, discarded' = discarded,
           \/ x = y
           \/ y = "absent" /\ x = "queued"
           \/ y = "queued" /\ x \in {"running", "stranded"}
           \/ y = "running" /\ x \in {"queued", "dead", "stranded"}
           \/ y = "running" /\ x = "gone" /\ (u \in discarded \/ effects[u] > 0)
    PROVE  [Ledger!Next]_(Ledger!vars)
  <1>1. statuses' = [statuses EXCEPT ![u] = x] /\ statuses[u] = y
    BY OneMoves DEF statuses
  <1>2. UNCHANGED <<{t \in Task : effects[t] > 0}, discarded>>
    OBVIOUS
  <1>3. \A from : y \in from => Ledger!Move(u, from, x)
    BY <1>1 DEF Ledger!Move, statuses
  <1>4. CASE x = y
    BY <1>1, <1>2, <1>4 DEF Ledger!vars, statuses
  <1>5. CASE y = "absent" /\ x = "queued"
    BY <1>2, <1>3, <1>5 DEF Ledger!Next, Ledger!Enqueue
  <1>6. CASE y = "queued" /\ x \in {"running", "stranded"}
    BY <1>2, <1>3, <1>6 DEF Ledger!Next, Ledger!Start, Ledger!Strand
  <1>7. CASE y = "running" /\ x \in {"queued", "dead", "stranded"}
    BY <1>2, <1>3, <1>7 DEF Ledger!Next, Ledger!Retry, Ledger!Bury, Ledger!Strand
  <1>8. CASE y = "running" /\ x = "gone" /\ (u \in discarded \/ effects[u] > 0)
    BY <1>2, <1>3, <1>8 DEF Ledger!Next, Ledger!Finish
  <1> QED
    BY <1>4, <1>5, <1>6, <1>7, <1>8

\* A worker's steps are the ledger's Start, Complete, Finish, Retry, Bury, Strand and
\* Reject.
LEMMA WorkerLedger ==
    ASSUME LedgerInv, LedgerInv', NEW w \in Worker, ProcessOne(w) \/ Crash(w), ~ClaimSelect(w)
    PROVE  [Ledger!Next]_(Ledger!vars)
  <1>0. QueueInv /\ ReadsMatch /\ DoneWhenDeleting /\ Alone
    BY DEF LedgerInv, HomeInv, DeliveryInv
  <1> DEFINE i == work[w].id
  <1>1. Handles(w)
    BY <1>0, WorkerEffect
  <1>2. Busy(w) /\ work[w] \in Claim
    BY <1>0, <1>1, BusyIsClaim DEF Handles, QueueInv
  <1>3. PICK u \in Task : u = work[w].task
    BY <1>2 DEF Claim
  <1>4. LedgerStatus(u) = IF work[w].pc = "claiming" THEN "queued" ELSE "running"
    BY <1>2, <1>3, HeldStatus
  <1>5. \A t \in Task \ {u} : LedgerStatus(t)' = LedgerStatus(t)
    BY <1>1, <1>3, OthersStay
  <1>6. Busy(w)' => LedgerStatus(u)' = "running"
    <2>1. work'[w].pc \in After
      BY <1>0, AfterPc
    <2> SUFFICES ASSUME Busy(w)' PROVE LedgerStatus(u)' = "running"
      OBVIOUS
    <2>2. work'[w].task = u
      BY <1>1, <1>3 DEF Handles
    <2>3. Running(w)'
      BY <2>1 DEF Running, Busy, After
    <2> QED
      BY <2>2, <2>3 DEF LedgerStatus
  <1>7. ~Busy(w)' => LedgerStatus(u)' =
           IF i \in DOMAIN jobs' THEN IF jobs'[i].reserved THEN "stranded" ELSE "queued"
           ELSE IF DOMAIN failed' # DOMAIN failed THEN "dead" ELSE "gone"
    BY <1>1, <1>3, LetGoStatus
  <1>8. /\ i \in DOMAIN jobs /\ i \in DOMAIN jobs' /\ jobs[i].reserved /\ ~jobs'[i].reserved
           => work[w].pc = "failing"
        /\ DOMAIN failed' # DOMAIN failed => work[w].pc = "failing"
    BY <1>0, <1>2, WorkerMoves
  <1>9. i \in DOMAIN jobs /\ i \notin DOMAIN jobs' =>
           \/ u \in discarded' \/ effects[u] > 0
           \/ DOMAIN failed' # DOMAIN failed
    <2>0. \A j \in DOMAIN failed : failed'[j] = failed[j]
      BY <1>1 DEF Handles
    <2>00. \A j \in DOMAIN failed : failed[j].task # u
      BY <1>0, <1>2, <1>3 DEF Alone
    <2>1. DOMAIN failed' = DOMAIN failed => \A j \in DOMAIN failed' : failed'[j].task # u
      BY <2>0, <2>00
    <2> QED
      BY <1>0, <1>2, <1>3, <2>1, RemovedForAReason
  <1>10. i \notin DOMAIN jobs => u \in discarded \/ effects[u] > 0
    BY <1>2, <1>3 DEF LedgerInv, MissingRowExplained
  <1>11. effects \in [Task -> Nat] /\ (effects' = effects \/ HandleReturns(w)) /\ discarded \subseteq discarded'
    BY <1>0, WorkerHistory DEF QueueInv, TypeOK
  <1>12. CASE HandleReturns(w)
    <2>1. work[w].pc = "claimed" /\ discarded' = discarded /\ effects' = [effects EXCEPT ![u] = @ + 1]
      BY <1>3, <1>12 DEF HandleReturns
    <2>2. Busy(w)'
      BY <1>0, <1>2, <1>12, GotoEffect DEF HandleReturns, After, QueueInv
    <2>3. statuses' = statuses /\ statuses[u] = "running"
      BY <1>4, <1>5, <1>6, <2>1, <2>2 DEF statuses
    <2>4. {t \in Task : effects[t] > 0}' = {t \in Task : effects[t] > 0} \cup {u}
      BY <1>11, <2>1
    <2>5. Ledger!Complete(u)
      BY <2>1, <2>3, <2>4 DEF Ledger!Complete, statuses
    <2> QED
      BY <2>5 DEF Ledger!Next
  <1>13. CASE DropUnknown(w)
    <2>1. work[w].pc = "claimed" /\ discarded' = discarded \cup {u} /\ effects' = effects
      BY <1>3, <1>13 DEF DropUnknown
    <2>2. ~Busy(w)'
      BY <1>0, <1>2, <1>13, WriteEffect DEF DropUnknown, After
    <2>3. i \in DOMAIN jobs => jobs[i].reserved
      BY <1>0, <1>2, <2>1 DEF QueueInv, HeldRowsMatch
    <2>4. LedgerStatus(u)' \in {"stranded", "gone"}
      BY <1>1, <1>7, <1>8, <2>1, <2>2, <2>3 DEF Handles
    <2>5. statuses[u] = "running" /\ statuses' = [statuses EXCEPT ![u] = LedgerStatus(u)']
      BY <1>4, <1>5, <2>1, OneMoves DEF statuses
    <2>6. Ledger!Reject(u)
      BY <2>1, <2>4, <2>5 DEF Ledger!Reject, Ledger!Move, statuses
    <2> QED
      BY <2>6 DEF Ledger!Next
  <1>14. CASE ~HandleReturns(w) /\ ~DropUnknown(w)
    <2>1. effects' = effects
      BY <1>11, <1>14
    <2>2. discarded' = discarded
      BY <1>14 DEF ProcessOne, ClaimCommit, MakeThrows, HandleThrows, DeleteDone, MoveToFailed,
         ScheduleRetry, Crash, history
    <2>3. work[w].pc = "claiming" => i \in DOMAIN jobs'
      <3> SUFFICES ASSUME work[w].pc = "claiming" PROVE i \in DOMAIN jobs'
        OBVIOUS
      <3>1. ClaimCommit(w) \/ Crash(w)
        BY DEF ProcessOne, ClaimSelect, Busy, DropUnknown, MakeThrows, HandleReturns, HandleThrows,
           DeleteDone, MoveToFailed, ScheduleRetry
      <3>2. DOMAIN jobs' = DOMAIN jobs
        BY <3>1 DEF ClaimCommit, Write, Crash, tables
      <3> QED
        BY <1>0, <1>2, <3>2 DEF QueueInv, HeldRowsMatch
    <2>4. CASE Busy(w)'
      BY <1>4, <1>5, <1>6, <2>1, <2>2, <2>4, LedgerMoves
    <2>5. CASE ~Busy(w)' /\ i \in DOMAIN jobs'
      BY <1>4, <1>5, <1>7, <2>1, <2>2, <2>5, LedgerMoves
    <2>6. CASE ~Busy(w)' /\ i \notin DOMAIN jobs' /\ DOMAIN failed' # DOMAIN failed
      BY <1>4, <1>5, <1>7, <1>8, <2>1, <2>2, <2>6, LedgerMoves
    <2>7. CASE ~Busy(w)' /\ i \notin DOMAIN jobs' /\ DOMAIN failed' = DOMAIN failed
      BY <1>4, <1>5, <1>7, <1>9, <1>10, <2>1, <2>2, <2>3, <2>7, LedgerMoves
    <2> QED
      BY <2>4, <2>5, <2>6, <2>7
  <1> QED
    BY <1>12, <1>13, <1>14

\* Steps that move no row, no letter and no worker past its claim move no task.
LEMMA NobodyMoves ==
    ASSUME UNCHANGED <<failed, effects, discarded>>,
           \A t \in Task : Committed(t)' <=> Committed(t),
           DOMAIN jobs' = DOMAIN jobs,
           \A i \in DOMAIN jobs : jobs'[i].task = jobs[i].task /\ jobs'[i].reserved = jobs[i].reserved,
           \A w \in Worker : Running(w)' <=> Running(w),
           \A w \in Worker : Running(w) => work'[w].task = work[w].task,
           \A i \in DOMAIN jobs : jobs[i].reserved =>
              ((\E w \in Worker : Busy(w)' /\ work'[w].id = i) <=> \E w \in Worker : Busy(w) /\ work[w].id = i)
    PROVE  [Ledger!Next]_(Ledger!vars)
  <1> SUFFICES ASSUME NEW t \in Task PROVE LedgerStatus(t)' = LedgerStatus(t)
    BY DEF Ledger!vars
  <1>1. (\E w \in Worker : Running(w)' /\ work'[w].task = t) <=> \E w \in Worker : Running(w) /\ work[w].task = t
    OBVIOUS
  <1>2. Stranded(t)' <=> Stranded(t)
    <2>1. Stranded(t)' <=> \E j \in DOMAIN jobs' : /\ jobs'[j].task = t /\ jobs'[j].reserved
                                                   /\ ~\E v \in Worker : Busy(v)' /\ work'[v].id = j
      BY DEF Stranded
    <2> QED
      BY <2>1 DEF Stranded
  <1>3. (\E i \in DOMAIN jobs' : jobs'[i].task = t) <=> \E i \in DOMAIN jobs : jobs[i].task = t
    OBVIOUS
  <1>4. uow'[t].state = "committed" <=> uow[t].state = "committed"
    BY DEF Committed
  <1> QED
    BY <1>1, <1>2, <1>3, <1>4 DEF LedgerStatus

\* A commit hands its task over.
LEMMA AppearsLedger ==
    ASSUME LedgerInv, NEW u \in Task, Appears(u) PROVE [Ledger!Next]_(Ledger!vars)
  <1>0. QueueInv /\ Backed
    BY DEF LedgerInv, HomeInv, DeliveryInv
  <1>1. PICK id \in Ids \ DOMAIN jobs :
           /\ DOMAIN jobs' = DOMAIN jobs \cup {id}
           /\ jobs'[id].task = u /\ ~jobs'[id].reserved
           /\ \A i \in DOMAIN jobs : jobs'[i] = jobs[i]
    BY Zenon DEF Appears
  <1>2. UNCHANGED <<failed, work, op, effects, discarded, faults>>
    BY DEF Appears
  <1>3. /\ \A i \in DOMAIN jobs : jobs[i].task # u
        /\ \A j \in DOMAIN failed : failed[j].task # u
        /\ \A w \in Worker : Busy(w) => work[w].task # u
        /\ ~(uow[u].state = "committed")
    BY <1>0 DEF Appears, Backed, Committed
  <1>4. LedgerStatus(u) = "absent"
    BY <1>3 DEF LedgerStatus, Running, Busy, Stranded
  <1>5. LedgerStatus(u)' = "queued"
    <2>1. ~\E w \in Worker : Running(w)' /\ work'[w].task = u
      BY <1>2, <1>3 DEF Running, Busy
    <2>2. ~Stranded(u)'
      BY <1>1, <1>3 DEF Stranded
    <2> QED
      BY <1>1, <2>1, <2>2 DEF LedgerStatus
  <1>6. ASSUME NEW t \in Task \ {u} PROVE LedgerStatus(t)' = LedgerStatus(t)
    <2>1. uow'[t].state = "committed" <=> uow[t].state = "committed"
      BY DEF Appears, Committed
    <2>2. Stranded(t)' <=> Stranded(t)
      BY <1>1, <1>2 DEF Stranded, Busy
    <2>3. (\E i \in DOMAIN jobs' : jobs'[i].task = t) <=> \E i \in DOMAIN jobs : jobs[i].task = t
      BY <1>1
    <2>4. (\E w \in Worker : Running(w)' /\ work'[w].task = t) <=> \E w \in Worker : Running(w) /\ work[w].task = t
      BY <1>2 DEF Running
    <2> QED
      BY <1>2, <2>1, <2>2, <2>3, <2>4 DEF LedgerStatus
  <1> QED
    BY <1>2, <1>4, <1>5, <1>6, LedgerMoves

\* queue:retry requeues the dead tasks it read, all at once.
LEMMA RetryLedger ==
    ASSUME LedgerInv, NEW o \in Operator, RetryCommit(o) PROVE [Ledger!Next]_(Ledger!vars)
  <1>0. QueueInv /\ SingleCopy /\ Alone /\ ReadsMatch
    BY DEF LedgerInv, HomeInv, DeliveryInv
  <1> DEFINE new == (lastId + 1)..lastId'
             dead == DOMAIN op[o]
             ts == {failed[j].task : j \in dead}
  <1>1. Requeues(o)
    BY <1>0, RetryEffect
  <1>2. PICK source \in [new -> dead] :
           /\ \A i \in dead : \E n \in new : source[n] = i
           /\ \A n \in new : jobs'[n].task = op[o][source[n]].task /\ ~jobs'[n].reserved
    BY <1>1, Zenon DEF Requeues
  <1>3. dead \subseteq DOMAIN failed /\ \A j \in dead : failed[j].task = op[o][j].task
    BY <1>0 DEF Alone, ReadsMatch
  <1>4. /\ DOMAIN jobs' = DOMAIN jobs \cup new
        /\ \A n \in DOMAIN jobs : n <= lastId /\ jobs'[n] = jobs[n]
        /\ UNCHANGED <<uow, work, faults, effects, discarded>>
        /\ lastId \in Nat /\ lastId' \in Nat
    BY <1>1 DEF Requeues
  <1>5. DOMAIN failed' = DOMAIN failed \ dead /\ \A j \in DOMAIN failed' : failed'[j] = failed[j]
    BY <1>1 DEF Requeues, Without
  <1>6. \A n \in new : n \notin DOMAIN jobs
    BY <1>4
  <1> HIDE DEF new
  <1>7. \A n \in new : source[n] \in dead /\ jobs'[n].task = failed[source[n]].task /\ jobs'[n].task \in ts
    BY <1>2, <1>3
  <1>8. ASSUME NEW t \in ts PROVE t \in Task /\ LedgerStatus(t) = "dead" /\ LedgerStatus(t)' = "queued"
    <2>1. PICK j \in dead : failed[j].task = t
      OBVIOUS
    <2>2. j \in DOMAIN failed /\ t \in Task
      BY <1>0, <1>3, <2>1, TasksOfRows
    <2>3. \A i \in DOMAIN jobs : jobs[i].task # t
      BY <1>0, <2>1, <2>2 DEF SingleCopy
    <2>4. \A w \in Worker : Running(w) => work[w].task # t
      BY <1>0, <2>1, <2>2 DEF Alone, Running, Busy
    <2>5. LedgerStatus(t) = "dead"
      BY <2>1, <2>2, <2>3, <2>4 DEF LedgerStatus, Stranded
    <2>6. \A n \in DOMAIN jobs' : jobs'[n].task = t => ~jobs'[n].reserved
      BY <1>2, <1>4, <2>3
    <2>7. PICK n \in new : source[n] = j
      BY <1>2
    <2>8. n \in DOMAIN jobs' /\ jobs'[n].task = t
      BY <1>4, <1>7, <2>1, <2>7
    <2>9. LedgerStatus(t)' = "queued"
      <3>1. ~\E w \in Worker : Running(w)' /\ work'[w].task = t
        BY <1>4, <2>4 DEF Running
      <3>2. ~Stranded(t)'
        BY <2>6 DEF Stranded
      <3> QED
        BY <2>8, <3>1, <3>2 DEF LedgerStatus
    <2> QED
      BY <2>2, <2>5, <2>9
  <1>9. ASSUME NEW t \in Task \ ts PROVE LedgerStatus(t)' = LedgerStatus(t)
    <2>1. Stranded(t)' <=> Stranded(t)
      BY <1>4, <1>6, <1>7 DEF Stranded, Busy
    <2>2. (\E i \in DOMAIN jobs' : jobs'[i].task = t) <=> \E i \in DOMAIN jobs : jobs[i].task = t
      BY <1>4, <1>7
    <2>3. (\E w \in Worker : Running(w)' /\ work'[w].task = t) <=> \E w \in Worker : Running(w) /\ work[w].task = t
      BY <1>4 DEF Running
    <2>4. (\E j \in DOMAIN failed' : failed'[j].task = t) <=> \E j \in DOMAIN failed : failed[j].task = t
      BY <1>5
    <2> QED
      BY <1>4, <2>1, <2>2, <2>3, <2>4 DEF LedgerStatus
  <1> HIDE DEF ts
  <1>10. statuses' = [t \in Task |-> IF t \in ts THEN "queued" ELSE statuses[t]]
    BY <1>8, <1>9 DEF statuses
  <1>11. ts \subseteq Task /\ \A t \in ts : statuses[t] = "dead"
    BY <1>8 DEF statuses
  <1>12. UNCHANGED <<{t \in Task : effects[t] > 0}, discarded>>
    BY <1>4
  <1>13. Ledger!Requeue(ts)
    BY <1>10, <1>11, <1>12 DEF Ledger!Requeue, statuses
  <1> QED
    BY <1>11, <1>13 DEF Ledger!Next

\* queue:flush discards the tasks of the rows it deletes; one that runs goes on.
LEMMA FlushLedger ==
    ASSUME LedgerInv, NEW queues, Flush(queues) PROVE [Ledger!Next]_(Ledger!vars)
  <1>0. QueueInv /\ SingleCopy /\ Alone /\ Backed
    BY DEF LedgerInv, HomeInv, DeliveryInv
  <1> DEFINE gone == {i \in DOMAIN jobs : QueueOf[jobs[i].task] \in queues}
             ts == {jobs[i].task : i \in gone}
  <1>1. /\ DOMAIN jobs' = DOMAIN jobs \ gone /\ \A i \in DOMAIN jobs' : jobs'[i] = jobs[i]
        /\ discarded' = discarded \cup ts
        /\ UNCHANGED <<failed, uow, work, effects>>
    BY DEF Flush, Without
  <1>2. gone \subseteq DOMAIN jobs
    OBVIOUS
  <1> HIDE DEF gone
  <1>3. ASSUME NEW t \in ts
        PROVE  /\ t \in Task
               /\ LedgerStatus(t) \in {"queued", "running", "stranded"}
               /\ LedgerStatus(t)' = IF LedgerStatus(t) # "running" THEN "gone" ELSE LedgerStatus(t)
    <2>1. PICK i \in gone : jobs[i].task = t
      OBVIOUS
    <2>2. i \in DOMAIN jobs /\ t \in Task
      BY <1>0, <1>2, <2>1, TasksOfRows
    <2>3. \A j \in DOMAIN jobs' : jobs'[j].task # t
      BY <1>0, <1>1, <2>1, <2>2 DEF SingleCopy
    <2>4. \A j \in DOMAIN failed : failed[j].task # t
      BY <1>0, <2>1, <2>2 DEF SingleCopy
    <2>5. uow[t].state = "committed"
      BY <1>0, <2>1, <2>2 DEF Backed, Committed
    <2>6. LedgerStatus(t) \in {"queued", "running", "stranded"}
      BY <2>1, <2>2 DEF LedgerStatus
    <2>7. LedgerStatus(t) = "running" <=> \E w \in Worker : Running(w) /\ work[w].task = t
      BY DEF LedgerStatus
    <2>8. LedgerStatus(t)' = IF \E w \in Worker : Running(w) /\ work[w].task = t THEN "running" ELSE "gone"
      <3>1. ~Stranded(t)'
        BY <2>3 DEF Stranded
      <3>2. (\E w \in Worker : Running(w)' /\ work'[w].task = t) <=> \E w \in Worker : Running(w) /\ work[w].task = t
        BY <1>1 DEF Running
      <3> QED
        BY <1>1, <2>3, <2>4, <2>5, <3>1, <3>2 DEF LedgerStatus
    <2> QED
      BY <2>2, <2>6, <2>7, <2>8
  <1>4. ASSUME NEW t \in Task \ ts PROVE LedgerStatus(t)' = LedgerStatus(t)
    <2>1. \A i \in DOMAIN jobs : jobs[i].task = t => i \notin gone
      OBVIOUS
    <2>2. Stranded(t)' <=> Stranded(t)
      BY <1>1, <2>1 DEF Stranded, Busy
    <2>3. (\E i \in DOMAIN jobs' : jobs'[i].task = t) <=> \E i \in DOMAIN jobs : jobs[i].task = t
      BY <1>1, <2>1
    <2>4. (\E w \in Worker : Running(w)' /\ work'[w].task = t) <=> \E w \in Worker : Running(w) /\ work[w].task = t
      BY <1>1 DEF Running
    <2> QED
      BY <1>1, <2>2, <2>3, <2>4 DEF LedgerStatus
  <1> HIDE DEF ts
  <1>5. statuses' = [t \in Task |-> IF t \in ts /\ statuses[t] # "running" THEN "gone" ELSE statuses[t]]
    BY <1>3, <1>4 DEF statuses
  <1>6. ts \subseteq Task /\ \A t \in ts : statuses[t] \in {"queued", "running", "stranded"}
    BY <1>3 DEF statuses
  <1>7. UNCHANGED {t \in Task : effects[t] > 0}
    BY <1>1
  <1>8. Ledger!Discard(ts)
    BY <1>1, <1>5, <1>6, <1>7 DEF Ledger!Discard, statuses
  <1> QED
    BY <1>6, <1>8 DEF Ledger!Next

\* Every step of the queue is a step of the ledger or moves no task.
LEMMA StepLedger ==
    ASSUME LedgerInv, LedgerInv', [Next]_vars PROVE [Ledger!Next]_(Ledger!vars)
  <1>0. QueueInv /\ ReadsMatch
    BY DEF LedgerInv, HomeInv, DeliveryInv
  <1>1. ASSUME NEW t \in Task, Dispatcher(t) PROVE [Ledger!Next]_(Ledger!vars)
    <2>1. CASE Quiet
      BY <2>1, NobodyMoves DEF Quiet, Running, Busy
    <2>2. CASE Appears(t)
      BY <2>2, AppearsLedger
    <2> QED
      BY <1>0, <1>1, <2>1, <2>2, DispatchEffect
  <1>2. ASSUME NEW w \in Worker, ClaimSelect(w) PROVE [Ledger!Next]_(Ledger!vars)
    <2>1. /\ ~Busy(w) /\ Busy(w)' /\ work'[w].pc = "claiming"
          /\ ~jobs[work'[w].id].reserved
          /\ \A v \in Worker \ {w} : work'[v] = work[v]
          /\ UNCHANGED <<jobs, failed, lastId, uow, op, faults, effects, discarded>>
      BY <1>0, <1>2, ClaimSelectEffect
    <2>2. \A v \in Worker : (Running(v)' <=> Running(v)) /\ (Running(v) => work'[v].task = work[v].task)
      BY <2>1 DEF Running, Busy
    <2>3. \A i \in DOMAIN jobs : jobs[i].reserved =>
             ((\E v \in Worker : Busy(v)' /\ work'[v].id = i) <=> \E v \in Worker : Busy(v) /\ work[v].id = i)
      BY <2>1 DEF Busy
    <2>4. \A t \in Task : Committed(t)' <=> Committed(t)
      BY <2>1 DEF Committed
    <2> QED
      BY <2>1, <2>2, <2>3, <2>4, NobodyMoves
  <1>3. ASSUME NEW w \in Worker, ProcessOne(w) \/ Crash(w), ~ClaimSelect(w) PROVE [Ledger!Next]_(Ledger!vars)
    BY <1>3, WorkerLedger
  <1>4. ASSUME NEW o \in Operator, RetrySelect(o) \/ RetryAbort(o) PROVE [Ledger!Next]_(Ledger!vars)
    <2>1. UNCHANGED <<jobs, failed, uow, work, effects, discarded>>
      BY <1>0, <1>4, OperatorReadEffect
    <2> QED
      BY <2>1, NobodyMoves DEF Running, Busy, Committed
  <1>5. ASSUME NEW o \in Operator, RetryCommit(o) PROVE [Ledger!Next]_(Ledger!vars)
    BY <1>5, RetryLedger
  <1>6. ASSUME NEW j \in Ids, BecomeDue(j) PROVE [Ledger!Next]_(Ledger!vars)
    <2>1. /\ UNCHANGED <<failed, uow, work, effects, discarded>>
          /\ DOMAIN jobs' = DOMAIN jobs
          /\ \A i \in DOMAIN jobs : jobs'[i].task = jobs[i].task /\ jobs'[i].reserved = jobs[i].reserved
      BY <1>0, <1>6 DEF BecomeDue, QueueInv, TypeOK, Row, history
    <2> QED
      BY <2>1, NobodyMoves DEF Running, Busy, Committed
  <1>7. ASSUME NEW queues, Flush(queues) PROVE [Ledger!Next]_(Ledger!vars)
    BY <1>7, FlushLedger
  <1>8. CASE UNCHANGED vars
    BY <1>8, NobodyMoves DEF vars, Running, Busy, Committed
  <1> QED
    BY <1>1, <1>2, <1>3, <1>4, <1>5, <1>6, <1>7, <1>8, Zenon DEF Next, Console

\* With one operator at a time the two tables and the workers implement the ledger that
\* callers reason with, step for step.
THEOREM Implementation == ASSUME OneAtATime PROVE Spec => ImplementsLedger
  <1>1. Init => Ledger!Init
    <2> SUFFICES ASSUME Init PROVE Ledger!Init
      OBVIOUS
    <2>1. \A t \in Task : LedgerStatus(t) = "absent"
      BY DEF Init, NoRows, Idle, LedgerStatus, Running, Stranded
    <2> QED
      BY <2>1 DEF Init, Ledger!Init
  <1>2. LedgerInv /\ LedgerInv' /\ [Next]_vars => [Ledger!Next]_(Ledger!vars)
    BY StepLedger
  <1> QED
    BY <1>1, <1>2, LedgerInvariant, PTL DEF Spec, ImplementsLedger, Ledger!Spec
=============================================================================
