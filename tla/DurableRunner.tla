---------------------------- MODULE DurableRunner ----------------------------
(***************************************************************************)
(* The durable workflow engine of packages/durable: DurableRunner keeps one *)
(* row per run and one journal row per finished node, and moves a run by    *)
(* queue jobs ("tokens") whose handler is advance() or compensate().        *)
(*                                                                         *)
(* Every handler is one transaction that holds the run's row lock from its  *)
(* SELECT ... FOR UPDATE to its COMMIT, so it is one action here; BEGIN,    *)
(* which fixes now(), is an action of its own.  PostgresDatabase.transaction *)
(* does not make itself the ambient transaction, so the dispatches inside   *)
(* it commit on their own connection: they survive a rollback, and are seen *)
(* before the COMMIT.  Starting a child commits on its own connection too.  *)
(*                                                                         *)
(* parallel and route nodes run through the same envelope as step, without  *)
(* a compensator.  The queue is the one JobQueue describes, reduced to what *)
(* one claim of a maxAttempts = 1 job can lead to: deleted, dead-lettered,  *)
(* or stranded by the death of its worker.                                  *)
(***************************************************************************)
EXTENDS Naturals, Sequences

CONSTANTS
    Run,         \* workflow runs
    Roots,       \* runs that clients start
    InUow,       \* roots that may be started inside a UnitOfWork
    Workflow,    \* [Run -> Seq(Node)]: the nodes of each run's workflow
    NoRun,       \* no run
    MaxJobs,     \* bound: durable jobs in the two queue tables at a time
    MaxFaults,   \* bound: statements that throw
    MaxCrashes   \* bound: workers that die

Node == [type : {"step", "sleep", "waitForSignal", "loop", "childWorkflow"},
         maxAttempts : Nat \ {0},
         compensate : BOOLEAN,      \* a step was given a compensator
         turns : Nat,               \* a loop's condition holds for i < turns
         maxIterations : Nat,
         children : SUBSET Run]     \* ids a child run may get

ASSUME DurableAssumption ==
    /\ Roots \subseteq Run
    /\ InUow \subseteq Roots
    /\ Workflow \in [Run -> Seq(Node)]
    /\ NoRun \notin Run
    /\ MaxJobs \in Nat
    /\ MaxFaults \in Nat
    /\ MaxCrashes \in Nat

\* ids are fresh: a child's run is no client's, and no other node's.
ASSUME FreshChildren ==
    \A r, q \in Run : \A m \in DOMAIN Workflow[r], n \in DOMAIN Workflow[q] :
        /\ Workflow[r][m].children \cap Roots = {}
        /\ <<r, m>> # <<q, n>> => Workflow[r][m].children \cap Workflow[q][n].children = {}

VARIABLES
    runs,     \* strav_workflow_runs
    journal,  \* strav_workflow_journal, the rows of each run as committed
    jobs,     \* the durable jobs in the queue, by slot
    undone,   \* history: nodes compensated by the run's last compensate()
    faults,   \* statements that threw so far
    crashes   \* workers that died so far

vars == <<runs, journal, jobs, undone, faults, crashes>>

Slots == 1..MaxJobs
Missing == {"absent", "opening", "void"}
Terminal == {"completed", "failed"}
Live == {"pending", "running", "waiting", "compensating"}

\* status "opening": start()'s transaction is open; "void": it rolled back.
RunRow == [status : Missing \cup Terminal \cup Live,
           cursor : Nat \ {0},                        \* current_step + 1
           attempts : Nat,                            \* stepAttempts[node]
           sleep : {"none", "asleep", "elapsed"},     \* __sleep__ key; delay over
           awaiting : BOOLEAN,                        \* awaitingSignals[node]
           iteration : Nat,                           \* loopState[node].iteration
           child : Run \cup {NoRun}]                  \* childRunIds[node]

NewRun == [status |-> "absent", cursor |-> 1, attempts |-> 0, sleep |-> "none",
           awaiting |-> FALSE, iteration |-> 0, child |-> NoRun]

JournalRow == [kind : {"node", "iteration"}, node : Nat \ {0}, iteration : Nat,
               status : {"completed", "failed"},
               error : {"none", "threw", "ceiling", "child"},
               child : Run \cup {NoRun},              \* whose result the row copies
               at : Nat]                              \* completed_at

Job == [kind : {"advance", "compensate"}, run : Run \cup {NoRun},
        state : {"free", "held", "queued", "begun", "spawning", "continuing", "settling",
                 "dead", "stranded"},
        began : Nat, child : Run \cup {NoRun}]

FreeSlot == [kind |-> "advance", run |-> NoRun, state |-> "free", began |-> 0,
             child |-> NoRun]

Queued(kind, r) == [FreeSlot EXCEPT !.kind = kind, !.run = r, !.state = "queued"]

-----------------------------------------------------------------------------
(* Rows and tokens *)

NodeOf(r) == Workflow[r][runs[r].cursor]

AtEnd(r) == runs[r].cursor > Len(Workflow[r])

At(r, type) == ~AtEnd(r) /\ NodeOf(r).type = type

\* A parent that waits for its child's start() keeps its own row locked.
RowLocked(r) == \E j \in Slots : jobs[j].state = "spawning" /\ jobs[j].run = r

\* The job tables after one more dispatch.
Sent(kind, r) ==
    {[jobs EXCEPT ![s] = Queued(kind, r)] :
        s \in {f \in Slots : /\ jobs[f].state = "free"
                             /\ \A g \in Slots : g < f => jobs[g].state # "free"}}

\* The handler of job j stops: a statement throws and the job, whose
\* maxAttempts is 1, is dead-lettered; or its worker dies holding it.
Stop(j, tokens) ==
    \/ /\ faults < MaxFaults
       /\ faults' = faults + 1
       /\ jobs' = [tokens EXCEPT ![j].state = "dead"]
       /\ UNCHANGED crashes
    \/ /\ crashes < MaxCrashes
       /\ crashes' = crashes + 1
       /\ jobs' = [tokens EXCEPT ![j].state = "stranded"]
       /\ UNCHANGED faults

\* The transaction of job j's handler: run row, journal, at most one
\* dispatch on another connection, then COMMIT.  It may stop before or after
\* Postgres applied it; the dispatch stays either way.
Transaction(j, row, log, kinds, next) ==
    LET r == jobs[j].run
        Tokens == IF kinds = {} THEN {jobs} ELSE UNION {Sent(k, r) : k \in kinds} IN
    \/ /\ runs' = [runs EXCEPT ![r] = row]
       /\ journal' = [journal EXCEPT ![r] = log]
       /\ \E tokens \in Tokens :
            \/ jobs' = [tokens EXCEPT ![j].state = next] /\ UNCHANGED <<faults, crashes>>
            \/ Stop(j, tokens)
    \/ /\ \E tokens \in Tokens \cup {jobs} : Stop(j, tokens)
       /\ UNCHANGED <<runs, journal>>

\* now() in a transaction is the time of its BEGIN.
NodeRow(j, status, error, child) ==
    [kind |-> "node", node |-> runs[jobs[j].run].cursor, iteration |-> 0, status |-> status,
     error |-> error, child |-> child, at |-> jobs[j].began]

Logged(j, row) == Append(journal[jobs[j].run], row)

-----------------------------------------------------------------------------
(* DurableRunner.start *)

\* INSERT the run in an open transaction; the dispatch commits by itself.
StartOpen(r) ==
    /\ r \in Roots
    /\ runs[r].status = "absent"
    /\ runs' = [runs EXCEPT ![r].status = "opening"]
    /\ jobs' \in Sent("advance", r)
    /\ UNCHANGED <<journal, undone, faults, crashes>>

StartCommit(r) ==
    /\ runs[r].status = "opening"
    /\ runs' = [runs EXCEPT ![r].status = "pending"]
    /\ UNCHANGED <<journal, jobs, undone, faults, crashes>>

StartRollback(r) ==
    /\ runs[r].status = "opening"
    /\ faults < MaxFaults
    /\ faults' = faults + 1
    /\ runs' = [runs EXCEPT ![r].status = "void"]
    /\ UNCHANGED <<journal, jobs, undone, crashes>>

\* Inside a UnitOfWork the roles are reversed: db.transaction() still commits
\* the run by itself, while the dispatch joins the caller's transaction.
StartInUow(r) ==
    /\ r \in InUow
    /\ runs[r].status = "absent"
    /\ runs' = [runs EXCEPT ![r].status = "pending"]
    /\ \E tokens \in Sent("advance", r) : \E s \in Slots :
        /\ tokens[s] # jobs[s]
        /\ jobs' = [tokens EXCEPT ![s].state = "held"]
    /\ UNCHANGED <<journal, undone, faults, crashes>>

\* The caller's UnitOfWork commits the job, or rolls it back.
UowEnds(j) ==
    /\ jobs[j].state = "held"
    /\ \/ jobs' = [jobs EXCEPT ![j].state = "queued"]
       \/ jobs' = [jobs EXCEPT ![j] = FreeSlot]
    /\ UNCHANGED <<runs, journal, undone, faults, crashes>>

-----------------------------------------------------------------------------
(* The worker around the handlers *)

Begin(j) ==
    /\ jobs[j].state = "queued"
    /\ jobs' = [jobs EXCEPT ![j].state = "begun", ![j].began = Len(journal[jobs[j].run])]
    /\ UNCHANGED <<runs, journal, undone, faults, crashes>>

\* advance(): shouldContinue, so the next token is dispatched after COMMIT.
Continue(j) ==
    /\ jobs[j].state = "continuing"
    /\ \/ \E tokens \in Sent("advance", jobs[j].run) :
            \/ jobs' = [tokens EXCEPT ![j].state = "settling"] /\ UNCHANGED <<faults, crashes>>
            \/ Stop(j, tokens)
       \/ Stop(j, jobs)
    /\ UNCHANGED <<runs, journal, undone>>

\* The handler returned and the worker deletes the job.
Settle(j) ==
    /\ jobs[j].state = "settling"
    /\ \/ jobs' = [jobs EXCEPT ![j] = FreeSlot] /\ UNCHANGED <<faults, crashes>>
       \/ Stop(j, jobs)
    /\ UNCHANGED <<runs, journal, undone>>

\* queue:retry of a dead letter.
Requeue(j) ==
    /\ jobs[j].state = "dead"
    /\ jobs' = [jobs EXCEPT ![j] = Queued(jobs[j].kind, jobs[j].run)]
    /\ UNCHANGED <<runs, journal, undone, faults, crashes>>

\* RunNotFoundError: no committed run row.
RunNotFound(j) ==
    /\ jobs[j].state = "begun"
    /\ runs[jobs[j].run].status \in Missing
    /\ jobs' = [jobs EXCEPT ![j].state = "dead"]
    /\ UNCHANGED <<runs, journal, undone, faults, crashes>>

-----------------------------------------------------------------------------
(* DurableRunner.advance *)

\* Mutation of Advancing: only completed runs are skipped.
AdvancingFailed(j) ==
    /\ jobs[j].state = "begun"
    /\ jobs[j].kind = "advance"
    /\ runs[jobs[j].run].status \in Live \cup {"failed"}
    /\ ~RowLocked(jobs[j].run)

\* advance() has the row lock and the run is there and not finished.
Advancing(j) ==
    /\ jobs[j].state = "begun"
    /\ jobs[j].kind = "advance"
    /\ runs[jobs[j].run].status \in Live
    /\ ~RowLocked(jobs[j].run)

\* Mutation of NodeCompleted: the cursor is not moved.
NodeCompletedInPlace(j, child) ==
    /\ Transaction(j,
          [runs[jobs[j].run] EXCEPT !.status = "running", !.attempts = 0],
          Logged(j, NodeRow(j, "completed", "none", child)), {}, "continuing")
    /\ UNCHANGED undone

\* applyOutcome "completed": journal, drop the node's sub-state, move the cursor.
NodeCompleted(j, child) ==
    /\ Transaction(j,
          [runs[jobs[j].run] EXCEPT !.status = "running", !.cursor = @ + 1, !.attempts = 0,
                                    !.sleep = "none", !.iteration = 0, !.child = NoRun],
          Logged(j, NodeRow(j, "completed", "none", child)), {}, "continuing")
    /\ UNCHANGED undone

\* applyOutcome "retry": the counter, and a delayed token.
NodeRetried(j) ==
    /\ Transaction(j, [runs[jobs[j].run] EXCEPT !.attempts = @ + 1],
          journal[jobs[j].run], {"advance"}, "settling")
    /\ UNCHANGED undone

\* applyOutcome "failed": journal, status and error, a compensate token.
NodeFailed(j, error, child) ==
    /\ Transaction(j, [runs[jobs[j].run] EXCEPT !.status = "compensating"],
          Logged(j, NodeRow(j, "failed", error, child)), {"compensate"}, "settling")
    /\ UNCHANGED undone

\* applyOutcome "waiting" with a delay: the token to come back with.
Parked(j, row, log) ==
    /\ Transaction(j, [row EXCEPT !.status = "waiting"], log, {"advance"}, "settling")
    /\ UNCHANGED undone

AlreadyFinished(j) ==
    /\ jobs[j].state = "begun"
    /\ jobs[j].kind = "advance"
    /\ runs[jobs[j].run].status \in Terminal
    /\ jobs' = [jobs EXCEPT ![j].state = "settling"]
    /\ UNCHANGED <<runs, journal, undone, faults, crashes>>

\* markCompleted: past the last node; state is reset to emptyState().
RunCompleted(j) ==
    LET r == jobs[j].run IN
    /\ Advancing(j)
    /\ AtEnd(r)
    /\ Transaction(j, [NewRun EXCEPT !.status = "completed", !.cursor = runs[r].cursor],
                   journal[r], {}, "settling")
    /\ UNCHANGED undone

StepReturns(j) ==
    /\ Advancing(j)
    /\ At(jobs[j].run, "step")
    /\ NodeCompleted(j, NoRun)

RetriesLeft(r) == runs[r].attempts + 1 < NodeOf(r).maxAttempts

\* A step's handler or a loop's body threw.
HandlerThrows(j) ==
    LET r == jobs[j].run IN
    /\ Advancing(j)
    /\ \/ At(r, "step")
       \/ At(r, "loop") /\ runs[r].iteration < NodeOf(r).turns
                        /\ runs[r].iteration < NodeOf(r).maxIterations
    /\ \/ RetriesLeft(r) /\ NodeRetried(j)
       \/ ~RetriesLeft(r) /\ NodeFailed(j, "threw", NoRun)

\* runSleep: dispatch the wake-up; an early wake-up parks again.
SleepParks(j) ==
    LET r == jobs[j].run IN
    /\ Advancing(j)
    /\ At(r, "sleep")
    /\ runs[r].sleep # "elapsed"
    /\ Parked(j, [runs[r] EXCEPT !.sleep = "asleep"], journal[r])

SleepEnds(j) ==
    /\ Advancing(j)
    /\ At(jobs[j].run, "sleep")
    /\ runs[jobs[j].run].sleep = "elapsed"
    /\ NodeCompleted(j, NoRun)

\* The delay of a sleeping run is over.
SleepElapses(r) ==
    /\ runs[r].status = "waiting"
    /\ runs[r].sleep = "asleep"
    /\ runs' = [runs EXCEPT ![r].sleep = "elapsed"]
    /\ UNCHANGED <<journal, jobs, undone, faults, crashes>>

\* Mutation of AwaitSignal: a token to poll with.
AwaitSignalPolling(j) ==
    LET r == jobs[j].run IN
    /\ Advancing(j)
    /\ At(r, "waitForSignal")
    /\ Parked(j, [runs[r] EXCEPT !.awaiting = TRUE], journal[r])

\* runWaitForSignal: waiting, and no token.
AwaitSignal(j) ==
    LET r == jobs[j].run IN
    /\ Advancing(j)
    /\ At(r, "waitForSignal")
    /\ Transaction(j, [runs[r] EXCEPT !.status = "waiting", !.awaiting = TRUE],
                   journal[r], {}, "settling")
    /\ UNCHANGED undone

\* The delay or signalName function of the workflow throws: nothing catches
\* it, so the transaction rolls back and the token is dead-lettered.
NodeFunctionThrows(j) ==
    LET r == jobs[j].run IN
    /\ Advancing(j)
    /\ At(r, "sleep") \/ At(r, "waitForSignal")
    /\ jobs' = [jobs EXCEPT ![j].state = "dead"]
    /\ UNCHANGED <<runs, journal, undone, faults, crashes>>

\* Mutation of LoopIterates: the iteration count is not kept.
LoopRepeats(j) ==
    LET r == jobs[j].run
        i == runs[r].iteration IN
    /\ Advancing(j)
    /\ At(r, "loop")
    /\ i < NodeOf(r).maxIterations
    /\ i < NodeOf(r).turns
    /\ Parked(j, runs[r],
              Logged(j, [NodeRow(j, "completed", "none", NoRun)
                            EXCEPT !.kind = "iteration", !.iteration = i]))

\* runLoop: one iteration, journaled; the cursor stays.
LoopIterates(j) ==
    LET r == jobs[j].run
        i == runs[r].iteration IN
    /\ Advancing(j)
    /\ At(r, "loop")
    /\ i < NodeOf(r).maxIterations
    /\ i < NodeOf(r).turns
    /\ Parked(j, [runs[r] EXCEPT !.iteration = i + 1],
              Logged(j, [NodeRow(j, "completed", "none", NoRun)
                            EXCEPT !.kind = "iteration", !.iteration = i]))

LoopEnds(j) ==
    LET r == jobs[j].run IN
    /\ Advancing(j)
    /\ At(r, "loop")
    /\ runs[r].iteration < NodeOf(r).maxIterations
    /\ runs[r].iteration >= NodeOf(r).turns
    /\ NodeCompleted(j, NoRun)

\* The ceiling is tested before the condition; neither this nor a condition
\* that throws is retried.
LoopFails(j) ==
    LET r == jobs[j].run IN
    /\ Advancing(j)
    /\ At(r, "loop")
    /\ \/ runs[r].iteration >= NodeOf(r).maxIterations /\ NodeFailed(j, "ceiling", NoRun)
       \/ runs[r].iteration < NodeOf(r).maxIterations /\ NodeFailed(j, "threw", NoRun)

\* runChildWorkflow, first time: start() the child while holding the row.
ChildOpens(j) ==
    LET r == jobs[j].run IN
    /\ Advancing(j)
    /\ At(r, "childWorkflow")
    /\ runs[r].child = NoRun
    /\ \E c \in NodeOf(r).children :
        /\ runs[c].status = "absent"
        /\ runs' = [runs EXCEPT ![c].status = "opening"]
        /\ \E tokens \in Sent("advance", c) :
              jobs' = [tokens EXCEPT ![j].state = "spawning", ![j].child = c]
    /\ UNCHANGED <<journal, undone, faults, crashes>>

\* ... which threw, inside the parent's transaction and outside its try.
ChildNotStarted(j) ==
    /\ jobs[j].state = "spawning"
    /\ runs[jobs[j].child].status = "void"
    /\ jobs' = [jobs EXCEPT ![j].state = "dead"]
    /\ UNCHANGED <<runs, journal, undone, faults, crashes>>

\* ... or returned: remember the child, poll later.
ChildStarted(j) ==
    /\ jobs[j].state = "spawning"
    /\ runs[jobs[j].child].status \notin Missing
    /\ Parked(j, [runs[jobs[j].run] EXCEPT !.child = jobs[j].child],
              journal[jobs[j].run])

\* node.start(ctx) threw: attempt < 1 never holds, so it fails at once.
ChildStartThrows(j) ==
    LET r == jobs[j].run IN
    /\ Advancing(j)
    /\ At(r, "childWorkflow")
    /\ runs[r].child = NoRun
    /\ NodeFailed(j, "threw", NoRun)

\* Mutation of ChildPolled: a compensating child counts as failed.
ChildPolledEarly(j) ==
    LET r == jobs[j].run
        c == runs[r].child IN
    /\ Advancing(j)
    /\ At(r, "childWorkflow")
    /\ c # NoRun
    /\ \/ runs[c].status = "completed" /\ NodeCompleted(j, c)
       \/ runs[c].status \in {"compensating", "failed"} /\ NodeFailed(j, "child", c)
       \/ runs[c].status \in Live \ {"compensating"} /\ Parked(j, runs[r], journal[r])

\* Mutation of ChildPolled: a live child is not polled again.
ChildPolledOnce(j) ==
    LET r == jobs[j].run
        c == runs[r].child IN
    /\ Advancing(j)
    /\ At(r, "childWorkflow")
    /\ c # NoRun
    /\ \/ runs[c].status = "completed" /\ NodeCompleted(j, c)
       \/ runs[c].status = "failed" /\ NodeFailed(j, "child", c)
       \/ /\ runs[c].status \in Live
          /\ Transaction(j, [runs[r] EXCEPT !.status = "waiting"],
                         journal[r], {}, "settling")
          /\ UNCHANGED undone

\* A poll: copy the child's outcome, or come back later.
ChildPolled(j) ==
    LET r == jobs[j].run
        c == runs[r].child IN
    /\ Advancing(j)
    /\ At(r, "childWorkflow")
    /\ c # NoRun
    /\ \/ runs[c].status = "completed" /\ NodeCompleted(j, c)
       \/ runs[c].status = "failed" /\ NodeFailed(j, "child", c)
       \/ runs[c].status \in Live /\ Parked(j, runs[r], journal[r])

-----------------------------------------------------------------------------
(* DurableRunner.signal and DurableRunner.compensate *)

\* Mutation of Signal: nothing is dispatched.
SignalUndispatched(r) ==
    /\ runs[r].status = "waiting"
    /\ runs[r].awaiting
    /\ ~RowLocked(r)
    /\ runs' = [runs EXCEPT ![r].status = "running", ![r].awaiting = FALSE,
                            ![r].cursor = @ + 1]
    /\ journal' = [journal EXCEPT ![r] = Append(@,
          [kind |-> "node", node |-> runs[r].cursor, iteration |-> 0,
           status |-> "completed", error |-> "none", child |-> NoRun, at |-> Len(@)])]
    /\ UNCHANGED <<jobs, undone, faults, crashes>>

\* signal(): journal the payload, clear the marker, move on, dispatch.  If its
\* COMMIT fails the token it dispatched stays.
Signal(r) ==
    /\ runs[r].status = "waiting"
    /\ runs[r].awaiting
    /\ ~RowLocked(r)
    /\ jobs' \in Sent("advance", r)
    /\ \/ /\ runs' = [runs EXCEPT ![r].status = "running", ![r].awaiting = FALSE,
                                  ![r].cursor = @ + 1]
          /\ journal' = [journal EXCEPT ![r] = Append(@,
                [kind |-> "node", node |-> runs[r].cursor, iteration |-> 0,
                 status |-> "completed", error |-> "none", child |-> NoRun, at |-> Len(@)])]
          /\ UNCHANGED faults
       \/ /\ faults < MaxFaults
          /\ faults' = faults + 1
          /\ UNCHANGED <<runs, journal>>
    /\ UNCHANGED <<undone, crashes>>

HasCompensator(r, n) == Workflow[r][n].type = "step" /\ Workflow[r][n].compensate

\* Mutation of Compensable: failed rows are not filtered out.
CompensableAll(r) ==
    {p \in DOMAIN journal[r] :
        /\ journal[r][p].kind = "node"
        /\ HasCompensator(r, journal[r][p].node)}

\* Journal positions whose compensator runs.
Compensable(r) ==
    {p \in DOMAIN journal[r] :
        /\ journal[r][p].kind = "node"
        /\ journal[r][p].status = "completed"
        /\ HasCompensator(r, journal[r][p].node)}

\* ORDER BY completed_at ASC, reversed; rows of one instant come in any order.
Walks(r) ==
    LET P == Compensable(r) IN
    {walk \in UNION {[1..n -> P] : n \in 0..Len(journal[r])} :
        /\ \A p \in P : \E k \in DOMAIN walk : walk[k] = p
        /\ \A k, l \in DOMAIN walk : k < l =>
            /\ walk[k] # walk[l]
            /\ journal[r][walk[k]].at >= journal[r][walk[l]].at}

\* The compensators run in the transaction that sets the run to failed; their
\* own errors are logged and swallowed.
Compensate(j) ==
    LET r == jobs[j].run IN
    /\ jobs[j].state = "begun"
    /\ jobs[j].kind = "compensate"
    /\ runs[r].status = "compensating"
    /\ ~RowLocked(r)
    /\ \E walk \in Walks(r) :
        LET nodes == [k \in DOMAIN walk |-> journal[r][walk[k]].node] IN
        \/ /\ runs' = [runs EXCEPT ![r].status = "failed"]
           /\ undone' = [undone EXCEPT ![r] = nodes]
           /\ \/ jobs' = [jobs EXCEPT ![j].state = "settling"] /\ UNCHANGED <<faults, crashes>>
              \/ Stop(j, jobs)
        \/ /\ Stop(j, jobs)
           /\ \E k \in 0..Len(walk) : undone' = [undone EXCEPT ![r] = SubSeq(nodes, 1, k)]
           /\ UNCHANGED runs
    /\ UNCHANGED journal

CompensateSkips(j) ==
    LET r == jobs[j].run IN
    /\ jobs[j].state = "begun"
    /\ jobs[j].kind = "compensate"
    /\ runs[r].status \in (Live \cup Terminal) \ {"compensating"}
    /\ ~RowLocked(r)
    /\ jobs' = [jobs EXCEPT ![j].state = "settling"]
    /\ UNCHANGED <<runs, journal, undone, faults, crashes>>

-----------------------------------------------------------------------------
(* Specification *)

Init ==
    /\ runs = [r \in Run |-> NewRun]
    /\ journal = [r \in Run |-> <<>>]
    /\ jobs = [j \in Slots |-> FreeSlot]
    /\ undone = [r \in Run |-> <<>>]
    /\ faults = 0
    /\ crashes = 0

Advance(j) ==
    \/ AlreadyFinished(j)
    \/ RunCompleted(j)
    \/ StepReturns(j)
    \/ HandlerThrows(j)
    \/ SleepParks(j)
    \/ SleepEnds(j)
    \/ AwaitSignal(j)
    \/ NodeFunctionThrows(j)
    \/ LoopIterates(j)
    \/ LoopEnds(j)
    \/ LoopFails(j)
    \/ ChildOpens(j)
    \/ ChildNotStarted(j)
    \/ ChildStarted(j)
    \/ ChildStartThrows(j)
    \/ ChildPolled(j)

Process(j) ==
    \/ Begin(j)
    \/ RunNotFound(j)
    \/ Advance(j)
    \/ Compensate(j)
    \/ CompensateSkips(j)
    \/ Continue(j)
    \/ Settle(j)

Next ==
    \/ \E r \in Run : StartOpen(r) \/ StartCommit(r) \/ StartRollback(r)
                      \/ StartInUow(r) \/ SleepElapses(r) \/ Signal(r)
    \/ \E j \in Slots : Process(j) \/ Requeue(j) \/ UowEnds(j)

Spec == Init /\ [][Next]_vars

\* Workers keep processing, COMMITs return, delays elapse.  Nobody is obliged
\* to start a run, to send a signal or to retry a dead letter.  Strong
\* fairness only because MaxJobs can make a dispatch wait for a free slot.
Fairness ==
    /\ \A j \in Slots : SF_vars(Process(j))
    /\ \A r \in Run : WF_vars(StartCommit(r)) /\ WF_vars(SleepElapses(r))

FairSpec == Spec /\ Fairness

-----------------------------------------------------------------------------
(* Properties *)

\* Type correctness of the run rows, the journal and the job tables.
TypeOK ==
    /\ runs \in [Run -> RunRow]
    /\ journal \in [Run -> Seq(JournalRow)]
    /\ jobs \in [Slots -> Job]
    /\ undone \in [Run -> Seq(Nat \ {0})]
    /\ faults \in 0..MaxFaults
    /\ crashes \in 0..MaxCrashes

NodeDone(r, p) == journal[r][p].kind = "node" /\ journal[r][p].status = "completed"

\* The idempotency of advance(): whatever tokens are duplicated, redelivered or
\* retried, the nodes journaled as completed are exactly those before the
\* cursor, once each and in workflow order.
JournalIsPrefix ==
    \A r \in Run :
        /\ \A p \in DOMAIN journal[r] : NodeDone(r, p) => journal[r][p].node < runs[r].cursor
        /\ \A n \in 1..(runs[r].cursor - 1) :
              \E p \in DOMAIN journal[r] : NodeDone(r, p) /\ journal[r][p].node = n
        /\ \A p, q \in DOMAIN journal[r] :
              p < q /\ NodeDone(r, p) /\ NodeDone(r, q) => journal[r][p].node < journal[r][q].node

IterationDone(r, p) == journal[r][p].kind = "iteration"

\* A loop resumes at its first unjournaled iteration: the rows <name>#<i> of
\* the current loop are 0..iteration-1, and no iteration of a loop is run twice.
IterationsJournaled ==
    \A r \in Run :
        /\ \A p \in DOMAIN journal[r] : IterationDone(r, p) =>
              \/ journal[r][p].node < runs[r].cursor
              \/ journal[r][p].node = runs[r].cursor /\ journal[r][p].iteration < runs[r].iteration
        /\ \A i \in 0..(runs[r].iteration - 1) : \E p \in DOMAIN journal[r] :
              IterationDone(r, p) /\ journal[r][p].node = runs[r].cursor
                                  /\ journal[r][p].iteration = i
        /\ \A p, q \in DOMAIN journal[r] :
              /\ p < q /\ IterationDone(r, p) /\ IterationDone(r, q)
              /\ journal[r][p].node = journal[r][q].node
              => journal[r][p].iteration < journal[r][q].iteration

\* A run fails only after one walk compensated every completed step that has
\* a compensator, and for a reason the journal shows at the cursor.
SagaComplete ==
    \A r \in Run :
        /\ runs[r].status = "failed" =>
              {undone[r][k] : k \in DOMAIN undone[r]}
                  = {n \in 1..(runs[r].cursor - 1) : HasCompensator(r, n)}
        /\ runs[r].status \in {"compensating", "failed"} =>
              \E p \in DOMAIN journal[r] : /\ journal[r][p].kind = "node"
                                           /\ journal[r][p].status = "failed"
                                           /\ journal[r][p].node = runs[r].cursor

\* Late tokens, signals and retries never touch a finished run.
FinishedIsFinal ==
    [][\A r \in Run : runs[r].status \in Terminal =>
          runs'[r] = runs[r] /\ journal'[r] = journal[r] /\ undone'[r] = undone[r]]_vars

\* A parent copies the outcome of a child that really ended that way, so no
\* parent moves on or compensates while its child still runs.
ChildEndsFirst ==
    \A r \in Run : \A p \in DOMAIN journal[r] : journal[r][p].child # NoRun =>
        runs[journal[r][p].child].status = journal[r][p].status

\* Sub-state in the state column belongs to the node at the cursor.
SubstateAtCursor ==
    \A r \in Run :
        /\ runs[r].sleep # "none" => At(r, "sleep")
        /\ runs[r].awaiting => At(r, "waitForSignal")
        /\ runs[r].iteration > 0 => At(r, "loop")
        /\ runs[r].child # NoRun => At(r, "childWorkflow")

\* A parent that is starting a child is unfinished and nobody else's to move.
SpawningHoldsRow ==
    \A j \in Slots :
        /\ jobs[j].state # "free" => jobs[j].run \in Run
        /\ jobs[j].state = "spawning" =>
            /\ runs[jobs[j].run].status \in Live
            /\ runs[jobs[j].run].child = NoRun
            /\ At(jobs[j].run, "childWorkflow")
            /\ jobs[j].child \in Run
            /\ \A i \in Slots : jobs[i].state = "spawning" /\ jobs[i].run = jobs[j].run => i = j

\* The inductive invariant behind the safety properties above.
RunnerInv ==
    /\ TypeOK
    /\ SpawningHoldsRow
    /\ SubstateAtCursor
    /\ JournalIsPrefix
    /\ IterationsJournaled
    /\ SagaComplete
    /\ ChildEndsFirst

Working == {"held", "queued", "begun", "spawning", "continuing", "settling"}
Stuck == {"dead", "stranded"}
HasToken(r, states) == \E j \in Slots : jobs[j].run = r /\ jobs[j].state \in states

\* No run is silently forgotten: until it ends or waits for a signal there is
\* a token for it in the queue, or a dead letter or a reserved row to find.
NoSilentOrphan ==
    \A r \in Run : runs[r].status \in Live =>
        runs[r].awaiting \/ HasToken(r, Working \cup Stuck)

Unhurt == faults = 0 /\ crashes = 0

\* Without failures and dead letters a run has one token, so its nodes and its
\* compensators run one after the other, in reverse order of completion.
OneToken ==
    \A r \in Run : Unhurt =>
        /\ \A i, j \in Slots :
              /\ jobs[i].run = r /\ jobs[i].state \in {"queued", "begun", "spawning", "continuing"}
              /\ jobs[j].run = r /\ jobs[j].state \in {"queued", "begun", "spawning", "continuing"}
              => i = j
        /\ \A k, l \in DOMAIN undone[r] : k < l => undone[r][k] > undone[r][l]
        /\ runs[r].status = "completed" => undone[r] = <<>>

\* Without failures a child node starts one child.
OneChild ==
    Unhurt => \A r \in Run : \A n \in DOMAIN Workflow[r] : \A c, d \in Workflow[r][n].children :
        runs[c].status # "absent" /\ runs[d].status # "absent" => c = d

\* Without failures nothing is done twice: one token a run, one child a node.
Undivided == OneToken /\ OneChild

\* A job that moves its run on, or that an operator can make move it on.
Carrying == {"queued", "begun", "spawning", "continuing", "dead", "stranded"}
Carried(r) ==
    \E j \in Slots : /\ jobs[j].run = r
                     /\ jobs[j].state \in Carrying
                     /\ jobs[j].kind = "advance" \/ runs[r].status = "compensating"

\* The inductive invariant of NoSilentOrphan where no run is started inside a
\* UnitOfWork: a token about to be deleted is not the one a run relies on, a
\* compensate token carries only a run that is to be compensated, and a run
\* whose INSERT is not committed yet has its token already.
OrphanInv ==
    /\ \A j \in Slots : jobs[j].state # "held"
    /\ \A r \in Run : runs[r].status \in Live \cup {"opening"} =>
          runs[r].awaiting \/ Carried(r)

Active == {"held", "queued", "begun", "spawning", "continuing", "dead"}
Acting(j) == jobs[j].state \in Active

\* The active token of a run is alone, and there is none while the run is not
\* started or waits for a signal.
LoneToken ==
    /\ \A i, j \in Slots : Acting(i) /\ Acting(j) /\ jobs[i].run = jobs[j].run => i = j
    /\ \A j \in Slots : Acting(j) =>
          runs[jobs[j].run].status # "absent" /\ ~runs[jobs[j].run].awaiting
    /\ \A r \in Run : /\ runs[r].status # "void"
                      /\ runs[r].awaiting => runs[r].status = "waiting"

\* completed_at, which is a BEGIN time, still orders the journal: a handler
\* that began sees it as it was then.
JournalClock ==
    /\ \A r \in Run : \A p \in DOMAIN journal[r] : journal[r][p].at = p - 1
    /\ \A j \in Slots : jobs[j].state \in {"begun", "spawning"} =>
          jobs[j].began = Len(journal[jobs[j].run])

\* Only a failed run was compensated, latest node first.
UndoneInOrder ==
    \A r \in Run :
        /\ undone[r] # <<>> => runs[r].status = "failed"
        /\ \A k, l \in DOMAIN undone[r] : k < l => undone[r][k] > undone[r][l]

\* A started child belongs to a node its parent has passed or remembers it at.
ChildKnown ==
    \A r \in Run : \A n \in DOMAIN Workflow[r] : \A c \in Workflow[r][n].children :
        runs[c].status # "absent" =>
            \/ n < runs[r].cursor
            \/ n = runs[r].cursor /\ runs[r].child = c
            \/ n = runs[r].cursor /\ \E j \in Slots :
                  jobs[j].state = "spawning" /\ jobs[j].run = r /\ jobs[j].child = c

\* The inductive invariant of Undivided.
Undoubled == LoneToken /\ JournalClock /\ UndoneInOrder /\ ChildKnown /\ OneChild
UndividedInv == Unhurt => Undoubled

\* A run whose progress waits for somebody outside the engine.
Held(r) == runs[r].awaiting \/ HasToken(r, Stuck)

\* Every started run ends, or waits for a signal, or has a token an operator
\* must retry, or polls a child of which this is true.
RunSettles ==
    \A r \in Run : runs[r].status = "pending" ~>
        \/ runs[r].status \in Terminal
        \/ Held(r)
        \/ runs[r].child # NoRun /\ Held(runs[r].child)

\* docs/durable/api.md on start(): the run row and its first job commit
\* together, so without failures a pending run always has a token at work.
StartedRunAdvances ==
    Unhurt => \A r \in Run : runs[r].status = "pending" => HasToken(r, Working)

\* docs/durable/guides/lifecycle.md: a run one of whose steps exhausted its
\* retries is compensated and ends failed; it never goes back to running.
ExhaustedRunFails ==
    \A r \in Run : (\E p \in DOMAIN journal[r] : journal[r][p].status = "failed")
        => runs[r].status \in {"compensating", "failed"}
=============================================================================
