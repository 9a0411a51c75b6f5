------------------------------ MODULE JobQueue ------------------------------
(***************************************************************************)
(* The Postgres job queue of packages/queue: DatabaseQueue writes rows of   *)
(* strav_jobs (inside the caller's UnitOfWork transaction when there is     *)
(* one), Workers claim, run, delete, retry or dead-letter them, and the     *)
(* console commands queue:retry and queue:flush rewrite the two tables.     *)
(*                                                                         *)
(* Each action is one transaction or one autocommitted statement, except    *)
(* that a claim is split into its SELECT ... FOR UPDATE SKIP LOCKED and its *)
(* UPDATE + COMMIT, and queue:retry into its SELECT and its writes, because *)
(* other processes run in between.  A statement may fail (network, database *)
(* restart) before or after Postgres applied it, and a worker may die at    *)
(* any point; MaxFaults and MaxCrashes bound the two.                       *)
(***************************************************************************)
EXTENDS Naturals, FiniteSets

CONSTANTS
    Task,             \* pieces of work: one dispatch call each
    Worker,           \* worker processes
    Operator,         \* people running queue:retry
    Queue,            \* queue names
    QueueOf,          \* [Task -> Queue]: the queue the row is written to
    Listens,          \* [Worker -> SUBSET Queue]: WorkerOptions.queues
    OptAttempts,      \* [Task -> Nat or NoValue]: DispatchOptions.attempts
    ClassAttempts,    \* [Task -> Nat or NoValue]: static JobClass.maxAttempts
    DefaultAttempts,  \* defaultAttempts of DatabaseQueue and of Worker
    Registered,       \* tasks whose job_name the worker's registry knows
    NoValue,          \* an option that was not given
    MaxId,            \* bound: rows ever written to the two tables
    MaxFaults,        \* bound: statements (and constructors) that throw
    MaxCrashes        \* bound: worker processes that die

Attempts == Nat \ {0}

ASSUME QueueAssumption ==
    /\ QueueOf \in [Task -> Queue]
    /\ Listens \in [Worker -> SUBSET Queue]
    /\ NoValue \notin Nat
    /\ OptAttempts \in [Task -> Attempts \cup {NoValue}]
    /\ ClassAttempts \in [Task -> Attempts \cup {NoValue}]
    /\ DefaultAttempts \in Attempts
    /\ Registered \subseteq Task
    /\ MaxId \in Nat
    /\ MaxFaults \in Nat
    /\ MaxCrashes \in Nat

VARIABLES
    jobs,      \* strav_jobs, committed rows, keyed by id
    failed,    \* strav_failed_jobs, keyed by id
    lastId,    \* the ulid() clock: rows get increasing ids
    uow,       \* the transaction around each task's dispatch
    work,      \* each worker: program counter and the row it read
    op,        \* each operator: the dead letters its SELECT returned
    faults,    \* statements that threw so far
    crashes,   \* workers that died so far
    effects,   \* history: times handle() returned normally, per task
    discarded  \* history: tasks deleted unrun (flush, unknown job_name)

tables == <<jobs, failed, lastId>>
history == <<effects, discarded>>
vars == <<jobs, failed, lastId, uow, work, op, faults, crashes, effects, discarded>>

Ids == 1..MaxId

Row == [task : Task, attempts : Nat, max : Attempts, due : BOOLEAN, reserved : BOOLEAN]
DeadLetter == [task : Task, attempts : Nat]
NoRows == [i \in {} |-> {}]
Idle == [pc |-> "idle"]
Claim == [pc : {"claiming", "claimed", "deleting", "failing"},
          id : Ids, task : Task, attempts : Nat, max : Attempts]

-----------------------------------------------------------------------------
(* Rows *)

\* opts.attempts ?? jobClass.maxAttempts ?? defaultAttempts
DispatchMax(t) ==
    IF OptAttempts[t] # NoValue THEN OptAttempts[t]
    ELSE IF ClassAttempts[t] # NoValue THEN ClassAttempts[t] ELSE DefaultAttempts

\* max_attempts of a row that queue:retry writes
RetryMax == 3

\* jobClass.maxAttempts ?? row.max_attempts ?? defaultAttempts; the column is
\* NOT NULL, so the worker's own default is never reached
Budget(t, rowMax) == IF ClassAttempts[t] # NoValue THEN ClassAttempts[t] ELSE rowMax

NewRow(t, max, due) ==
    [task |-> t, attempts |-> 0, max |-> max, due |-> due, reserved |-> FALSE]

With(table, id, row) == [i \in DOMAIN table \cup {id} |-> IF i = id THEN row ELSE table[i]]
Without(table, ids) == [i \in DOMAIN table \ ids |-> table[i]]

\* Rows the FOR UPDATE of an open claim transaction holds.
Locked == {work[w].id : w \in {v \in Worker : work[v].pc = "claiming"}}

Busy(w) == work[w].pc # "idle"
Goto(w, pc) == work' = [work EXCEPT ![w] = IF pc = "idle" THEN Idle ELSE [@ EXCEPT !.pc = pc]]

Fault == faults < MaxFaults /\ faults' = faults + 1

-----------------------------------------------------------------------------
(* Dispatching: DatabaseQueue.insertJob, inside UnitOfWork.run or outside *)

UowBegin(t) ==
    /\ uow[t].state = "none"
    /\ uow' = [uow EXCEPT ![t] = [state |-> "open"]]
    /\ UNCHANGED <<tables, work, op, faults, crashes, history>>

\* Mutation of DispatchInUow: the INSERT ignores the ambient transaction.
DispatchIgnoringUow(t, due) ==
    /\ uow[t].state = "open"
    /\ lastId < MaxId
    /\ lastId' = lastId + 1
    /\ jobs' = With(jobs, lastId', NewRow(t, DispatchMax(t), due))
    /\ UNCHANGED <<failed, uow, work, op, faults, crashes, history>>

\* executor = ctx.tx: the row is written but only the transaction sees it.
DispatchInUow(t, due) ==
    /\ uow[t].state = "open"
    /\ lastId < MaxId
    /\ lastId' = lastId + 1
    /\ uow' = [uow EXCEPT ![t] = [state |-> "dispatched", id |-> lastId', due |-> due]]
    /\ UNCHANGED <<jobs, failed, work, op, faults, crashes, history>>

UowCommit(t) ==
    /\ uow[t].state = "dispatched"
    /\ jobs' = With(jobs, uow[t].id, NewRow(t, DispatchMax(t), uow[t].due))
    /\ uow' = [uow EXCEPT ![t] = [state |-> "committed"]]
    /\ UNCHANGED <<failed, lastId, work, op, faults, crashes, history>>

\* The callback or a flushed event listener threw.
UowRollback(t) ==
    /\ uow[t].state \in {"open", "dispatched"}
    /\ uow' = [uow EXCEPT ![t] = [state |-> "rolledback"]]
    /\ UNCHANGED <<tables, work, op, faults, crashes, history>>

\* executor = this.db: no ambient transaction, the INSERT commits by itself.
DispatchAlone(t, due) ==
    /\ uow[t].state = "none"
    /\ lastId < MaxId
    /\ lastId' = lastId + 1
    /\ jobs' = With(jobs, lastId', NewRow(t, DispatchMax(t), due))
    /\ uow' = [uow EXCEPT ![t] = [state |-> "committed"]]
    /\ UNCHANGED <<failed, work, op, faults, crashes, history>>

\* available_at <= now() becomes true.
BecomeDue(i) ==
    /\ i \in DOMAIN jobs /\ ~jobs[i].due /\ i \notin Locked
    /\ jobs' = [jobs EXCEPT ![i].due = TRUE]
    /\ UNCHANGED <<failed, lastId, uow, work, op, faults, crashes, history>>

-----------------------------------------------------------------------------
(* Worker.processOne *)

\* Mutation of Claimable: no FOR UPDATE SKIP LOCKED.
ClaimableUnlocked(w) == {i \in DOMAIN jobs :
    QueueOf[jobs[i].task] \in Listens[w] /\ jobs[i].due /\ ~jobs[i].reserved}

\* Mutation of Claimable: no reserved_at IS NULL.
ClaimableReserved(w) == {i \in DOMAIN jobs \ Locked :
    QueueOf[jobs[i].task] \in Listens[w] /\ jobs[i].due}

\* Mutation of Claimable: rows that were tried once are skipped.
ClaimableUntried(w) == {i \in DOMAIN jobs \ Locked :
    /\ QueueOf[jobs[i].task] \in Listens[w]
    /\ jobs[i].due /\ ~jobs[i].reserved /\ jobs[i].attempts = 0}

Claimable(w) == {i \in DOMAIN jobs \ Locked :
    /\ QueueOf[jobs[i].task] \in Listens[w]
    /\ jobs[i].due
    /\ ~jobs[i].reserved}

\* SELECT ... ORDER BY id LIMIT 1 FOR UPDATE SKIP LOCKED
ClaimSelect(w) ==
    /\ ~Busy(w)
    /\ \E i \in Claimable(w) :
        /\ \A j \in Claimable(w) : i <= j
        /\ work' = [work EXCEPT ![w] =
              [pc |-> "claiming", id |-> i, task |-> jobs[i].task,
               attempts |-> jobs[i].attempts + 1, max |-> jobs[i].max]]
    /\ UNCHANGED <<tables, uow, op, faults, crashes, history>>

\* A write of worker w that leaves the tables as given.  It succeeds and w
\* goes to pc, or it throws, applied or not, and w goes to pcError.
Write(w, jobs1, failed1, pc, pcError) ==
    \/ /\ jobs' = jobs1
       /\ failed' = failed1
       /\ Goto(w, pc)
       /\ UNCHANGED faults
    \/ /\ Fault
       /\ Goto(w, pcError)
       /\ \/ UNCHANGED <<jobs, failed>>
          \/ jobs' = jobs1 /\ failed' = failed1

\* UPDATE ... SET reserved_at = now(), attempts = attempts + 1, and COMMIT.
ClaimCommit(w) ==
    /\ work[w].pc = "claiming"
    /\ Write(w, [jobs EXCEPT ![work[w].id].reserved = TRUE, ![work[w].id].attempts = @ + 1],
             failed, "claimed", "idle")
    /\ UNCHANGED <<lastId, uow, op, crashes, history>>

\* registry.get(row.job_name) found nothing: the row is deleted unrun.
DropUnknown(w) ==
    /\ work[w].pc = "claimed"
    /\ work[w].task \notin Registered
    /\ Write(w, Without(jobs, {work[w].id}), failed, "idle", "idle")
    /\ discarded' = discarded \cup {work[w].task}
    /\ UNCHANGED <<lastId, uow, op, crashes, effects>>

\* container.make(jobClass) throws, outside the try: only run() sees it.
MakeThrows(w) ==
    /\ work[w].pc = "claimed"
    /\ work[w].task \in Registered
    /\ Fault
    /\ Goto(w, "idle")
    /\ UNCHANGED <<tables, uow, op, crashes, history>>

HandleReturns(w) ==
    /\ work[w].pc = "claimed"
    /\ work[w].task \in Registered
    /\ Goto(w, "deleting")
    /\ effects' = [effects EXCEPT ![work[w].task] = @ + 1]
    /\ UNCHANGED <<tables, uow, op, faults, crashes, discarded>>

\* Mutation of HandleThrows: the rejection is not awaited.
HandleThrowsUnseen(w) ==
    /\ work[w].pc = "claimed"
    /\ work[w].task \in Registered
    /\ Goto(w, "deleting")
    /\ UNCHANGED <<tables, uow, op, faults, crashes, history>>

\* handle() rejects; the failed() hook runs and its own errors are swallowed.
HandleThrows(w) ==
    /\ work[w].pc = "claimed"
    /\ work[w].task \in Registered
    /\ Goto(w, "failing")
    /\ UNCHANGED <<tables, uow, op, faults, crashes, history>>

\* deleteRow is inside the try of handle(): its failure is the job's failure.
DeleteDone(w) ==
    /\ work[w].pc = "deleting"
    /\ Write(w, Without(jobs, {work[w].id}), failed, "idle", "failing")
    /\ UNCHANGED <<lastId, uow, op, crashes, history>>

\* Mutation of Exhausted: off by one.
ExhaustedLate(w) == work[w].attempts > Budget(work[w].task, work[w].max)

Exhausted(w) == work[w].attempts >= Budget(work[w].task, work[w].max)

\* Mutation of MoveToFailed: the DELETE without the INSERT.
MoveToFailedDeleteOnly(w) ==
    /\ work[w].pc = "failing"
    /\ Exhausted(w)
    /\ Write(w, Without(jobs, {work[w].id}), failed, "idle", "idle")
    /\ UNCHANGED <<lastId, uow, op, crashes, history>>

\* moveToFailed: INSERT strav_failed_jobs and DELETE strav_jobs, one transaction.
MoveToFailed(w) ==
    /\ work[w].pc = "failing"
    /\ Exhausted(w)
    /\ lastId < MaxId
    /\ lastId' = lastId + 1
    /\ Write(w, Without(jobs, {work[w].id}),
             With(failed, lastId', [task |-> work[w].task, attempts |-> work[w].attempts]),
             "idle", "idle")
    /\ UNCHANGED <<uow, op, crashes, history>>

\* Mutation of ScheduleRetry: no WHERE id = $1.
ScheduleRetryAll(w, due) ==
    /\ work[w].pc = "failing"
    /\ ~Exhausted(w)
    /\ Write(w, [i \in DOMAIN jobs |-> [jobs[i] EXCEPT !.due = due, !.reserved = FALSE]],
             failed, "idle", "idle")
    /\ UNCHANGED <<lastId, uow, op, crashes, history>>

\* UPDATE ... SET available_at = later, reserved_at = NULL WHERE id = $1, which
\* updates nothing when queue:flush has deleted the row.
ScheduleRetry(w, due) ==
    /\ work[w].pc = "failing"
    /\ ~Exhausted(w)
    /\ Write(w, [i \in DOMAIN jobs |-> IF i = work[w].id
                    THEN [jobs[i] EXCEPT !.due = due, !.reserved = FALSE] ELSE jobs[i]],
             failed, "idle", "idle")
    /\ UNCHANGED <<lastId, uow, op, crashes, history>>

\* The process dies; its open claim transaction, if any, is rolled back, and
\* a new process takes its place.
Crash(w) ==
    /\ Busy(w)
    /\ crashes < MaxCrashes
    /\ crashes' = crashes + 1
    /\ Goto(w, "idle")
    /\ UNCHANGED <<tables, uow, op, faults, history>>

-----------------------------------------------------------------------------
(* Console commands *)

\* queue:retry <id> or --all: the SELECT, which takes no lock.
RetrySelect(o) ==
    /\ DOMAIN op[o] = {}
    /\ \E ids \in {DOMAIN failed} \cup {{i} : i \in DOMAIN failed} :
        /\ ids # {}
        /\ op' = [op EXCEPT ![o] = [i \in ids |-> failed[i]]]
    /\ UNCHANGED <<tables, uow, work, faults, crashes, history>>

\* ... then, for each row read, INSERT a fresh job and DELETE the dead letter
\* (which deletes nothing when another operator already did), and COMMIT.
RetryCommit(o) ==
    /\ DOMAIN op[o] # {}
    /\ lastId' = lastId + Cardinality(DOMAIN op[o])
    /\ lastId' <= MaxId
    /\ \E source \in [(lastId + 1)..lastId' -> DOMAIN op[o]] :
        /\ \A i \in DOMAIN op[o] : \E n \in DOMAIN source : source[n] = i
        /\ jobs' = [n \in DOMAIN jobs \cup DOMAIN source |->
              IF n \in DOMAIN jobs THEN jobs[n]
              ELSE NewRow(op[o][source[n]].task, RetryMax, TRUE)]
    /\ failed' = Without(failed, DOMAIN op[o])
    /\ op' = [op EXCEPT ![o] = NoRows]
    /\ UNCHANGED <<uow, work, faults, crashes, history>>

\* The command dies, or a statement of its transaction fails: rolled back.
RetryAbort(o) ==
    /\ DOMAIN op[o] # {}
    /\ op' = [op EXCEPT ![o] = NoRows]
    /\ UNCHANGED <<tables, uow, work, faults, crashes, history>>

\* queue:flush [--queue=...]: DELETE FROM strav_jobs, reserved rows included;
\* it waits for the row lock of an open claim.
Flush(queues) ==
    LET gone == {i \in DOMAIN jobs : QueueOf[jobs[i].task] \in queues} IN
    /\ gone # {}
    /\ gone \cap Locked = {}
    /\ jobs' = Without(jobs, gone)
    /\ discarded' = discarded \cup {jobs[i].task : i \in gone}
    /\ UNCHANGED <<failed, lastId, uow, work, op, faults, crashes, effects>>

-----------------------------------------------------------------------------
(* Specification *)

Init ==
    /\ jobs = NoRows
    /\ failed = NoRows
    /\ lastId = 0
    /\ uow = [t \in Task |-> [state |-> "none"]]
    /\ work = [w \in Worker |-> Idle]
    /\ op = [o \in Operator |-> NoRows]
    /\ faults = 0
    /\ crashes = 0
    /\ effects = [t \in Task |-> 0]
    /\ discarded = {}

Dispatcher(t) ==
    \/ UowBegin(t)
    \/ \E due \in BOOLEAN : DispatchInUow(t, due)
    \/ UowCommit(t)
    \/ UowRollback(t)
    \/ \E due \in BOOLEAN : DispatchAlone(t, due)

ProcessOne(w) ==
    \/ ClaimSelect(w)
    \/ ClaimCommit(w)
    \/ DropUnknown(w)
    \/ MakeThrows(w)
    \/ HandleReturns(w)
    \/ HandleThrows(w)
    \/ DeleteDone(w)
    \/ MoveToFailed(w)
    \/ \E due \in BOOLEAN : ScheduleRetry(w, due)

Console ==
    \/ \E o \in Operator : RetrySelect(o) \/ RetryCommit(o) \/ RetryAbort(o)
    \/ \E queues \in {Queue} \cup {{q} : q \in Queue} : Flush(queues)

Next ==
    \/ \E t \in Task : Dispatcher(t)
    \/ \E i \in Ids : BecomeDue(i)
    \/ \E w \in Worker : ProcessOne(w) \/ Crash(w)
    \/ Console

Spec == Init /\ [][Next]_vars

\* Worker.run loops until aborted and handlers settle, so a worker that can
\* take a step takes one; delays elapse.  Nobody is obliged to dispatch, to
\* commit or to type a command.
Fairness ==
    /\ \A w \in Worker : WF_vars(ProcessOne(w))
    /\ \A i \in Ids : WF_vars(BecomeDue(i))

FairSpec == Spec /\ Fairness

-----------------------------------------------------------------------------
(* Properties *)

UowState ==
    [state : {"none", "open", "committed", "rolledback"}]
    \cup [state : {"dispatched"}, id : Ids, due : BOOLEAN]

\* Type correctness of the tables, of the workers and of the operators.
TypeOK ==
    /\ DOMAIN jobs \subseteq Ids /\ jobs \in [DOMAIN jobs -> Row]
    /\ DOMAIN failed \subseteq Ids /\ failed \in [DOMAIN failed -> DeadLetter]
    /\ lastId \in 0..MaxId
    /\ uow \in [Task -> UowState]
    /\ work \in [Worker -> Claim \cup {Idle}]
    /\ DOMAIN op = Operator
    /\ \A o \in Operator :
          DOMAIN op[o] \subseteq Ids /\ op[o] \in [DOMAIN op[o] -> DeadLetter]
    /\ faults \in 0..MaxFaults
    /\ crashes \in 0..MaxCrashes
    /\ effects \in [Task -> Nat]
    /\ discarded \subseteq Task

\* Two workers never hold the same row: the claim's lock, then reserved_at,
\* keep a job to one worker whatever flushes, retries and failures do.
MutualExclusion ==
    \A v, w \in Worker : Busy(v) /\ Busy(w) /\ work[v].id = work[w].id => v = w

\* A job is handed to a handler at most maxAttempts times, and a row the
\* workers may still claim always has an attempt left.
AttemptBudget ==
    /\ \A i \in DOMAIN jobs :
        LET budget == Budget(jobs[i].task, jobs[i].max) IN
        jobs[i].attempts <= budget /\ (~jobs[i].reserved => jobs[i].attempts < budget)
    /\ \A w \in Worker : Busy(w) => work[w].attempts <= Budget(work[w].task, work[w].max)

\* Ids are never reused: every row written so far is below the clock, and the
\* row of an open transaction is nobody else's.
IdsFresh ==
    /\ DOMAIN jobs \subseteq 1..lastId
    /\ \A w \in Worker : Busy(w) => work[w].id <= lastId
    /\ \A t \in Task : uow[t].state = "dispatched" =>
        /\ uow[t].id <= lastId
        /\ uow[t].id \notin DOMAIN jobs
        /\ \A w \in Worker : Busy(w) => work[w].id # uow[t].id
        /\ \A u \in Task : uow[u].state = "dispatched" /\ uow[u].id = uow[t].id => u = t

\* A worker's copy of its row stays true to the table: unreserved while it
\* holds the row lock, reserved afterwards unless the row has been deleted.
HeldRowsMatch ==
    \A w \in Worker : Busy(w) =>
        LET i == work[w].id
            claiming == work[w].pc = "claiming" IN
        /\ claiming => i \in DOMAIN jobs /\ ~jobs[i].reserved
        /\ i \in DOMAIN jobs =>
            /\ ~claiming => jobs[i].reserved
            /\ jobs[i].task = work[w].task
            /\ jobs[i].max = work[w].max
            /\ work[w].attempts = jobs[i].attempts + IF claiming THEN 1 ELSE 0

\* The inductive invariant behind MutualExclusion and AttemptBudget.
QueueInv == TypeOK /\ IdsFresh /\ HeldRowsMatch /\ MutualExclusion /\ AttemptBudget

\* What a dispatch inside a transaction promises: a job exists, waits, dies or
\* runs only if the transaction that dispatched it committed.
OutboxAtomic ==
    \A t \in Task :
        \/ t \in {jobs[i].task : i \in DOMAIN jobs}
        \/ t \in {failed[i].task : i \in DOMAIN failed}
        \/ effects[t] > 0
        => uow[t].state = "committed"

HasRow(t) ==
    \/ \E i \in DOMAIN jobs : jobs[i].task = t
    \/ \E i \in DOMAIN failed : failed[i].task = t

\* No committed job disappears: it ran to completion, or is in one of the two
\* tables, or an operator flushed it or the worker did not know its name.
NothingLost ==
    \A t \in Task : uow[t].state = "committed" =>
        effects[t] > 0 \/ t \in discarded \/ HasRow(t)

\* With one operator at a time no job is ever duplicated: one row in one of
\* the two tables, and one worker running it.
SingleCopy ==
    /\ \A i, j \in DOMAIN jobs : jobs[i].task = jobs[j].task => i = j
    /\ \A i, j \in DOMAIN failed : failed[i].task = failed[j].task => i = j
    /\ \A i \in DOMAIN jobs, j \in DOMAIN failed : jobs[i].task # failed[j].task
    /\ \A v, w \in Worker : Busy(v) /\ Busy(w) /\ work[v].task = work[w].task => v = w

\* With one operator at a time a committed job is in exactly one place.
OneHome == NothingLost /\ SingleCopy

\* Only a statement that throws can make a job run to completion twice:
\* worker deaths, manual retries and flushes never do.
SuccessOnce == faults = 0 => \A t \in Task : effects[t] <= 1

\* Nobody but the worker that holds a reserved row gives it back or takes it
\* away, except queue:flush.
ReservationStable ==
    [][\A i \in DOMAIN jobs :
        jobs[i].reserved /\ (i \notin DOMAIN jobs' \/ ~jobs'[i].reserved)
        => \/ jobs[i].task \in discarded'
           \/ \E w \in Worker : Busy(w) /\ work[w].id = i /\ work'[w] # work[w]]_vars

Stranded(t) == \E i \in DOMAIN jobs :
    /\ jobs[i].task = t
    /\ jobs[i].reserved
    /\ ~\E w \in Worker : Busy(w) /\ work[w].id = i

\* Every committed job is eventually run to completion, dead-lettered,
\* discarded, or left reserved by a worker that died or failed to write.
CommittedSettles ==
    \A t \in Task : uow[t].state = "committed" ~>
        \/ effects[t] > 0
        \/ t \in discarded
        \/ \E i \in DOMAIN failed : failed[i].task = t
        \/ Stranded(t)

\* docs/durable/guides/handlers.md: after a worker crash the queue redelivers
\* the job.  Nothing in the worker ever clears the reservation of a dead one.
CrashedJobRedelivered == \A t \in Task : Stranded(t) ~> ~Stranded(t)

-----------------------------------------------------------------------------
(* JobQueue implements JobLedger, when one operator retries at a time *)

Running(w) == work[w].pc \in {"claimed", "deleting", "failing"}

LedgerStatus(t) ==
    IF \E w \in Worker : Running(w) /\ work[w].task = t THEN "running"
    ELSE IF Stranded(t) THEN "stranded"
    ELSE IF \E i \in DOMAIN jobs : jobs[i].task = t THEN "queued"
    ELSE IF \E i \in DOMAIN failed : failed[i].task = t THEN "dead"
    ELSE IF uow[t].state = "committed" THEN "gone" ELSE "absent"

Ledger == INSTANCE JobLedger WITH
    status <- [t \in Task |-> LedgerStatus(t)],
    completed <- {t \in Task : effects[t] > 0}

\* The two tables and the workers implement the ledger, step for step.
ImplementsLedger == Ledger!Spec
=============================================================================
