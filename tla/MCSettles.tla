------------------------------ MODULE MCSettles ------------------------------
(***************************************************************************)
(* What must happen in the end: a committed job settles, a started run ends *)
(* or waits, an event owed to a subscriber arrives, close() ends the loops. *)
(* The modules share no state here, so one run checks them, each behaviour  *)
(* being of the part it starts with and under the fairness of that part.    *)
(***************************************************************************)
EXTENDS PostgresBroadcaster, TLC

CONSTANTS
    NoValue, NoRun,
    sendMail, report, mail, reports, generalist, specialist,
    parent, child

VARIABLES
    part,
    jobs, failed, lastRowId, uow, work, op, faults, crashes, effects, discarded,
    runs, journal, durableJobs, undone, durableFaults, durableCrashes

queueVars == <<jobs, failed, lastRowId, uow, work, op, faults, crashes, effects, discarded>>
durableVars == <<runs, journal, durableJobs, undone, durableFaults, durableCrashes>>

(***************************************************************************)
(* Two tasks of two queues, of which only the first is registered, and a    *)
(* worker that serves one queue only.  A parent that polls a child, which   *)
(* waits for a signal.                                                      *)
(***************************************************************************)
Queues == (sendMail :> mail) @@ (report :> reports)
Serves == (generalist :> {mail, reports}) @@ (specialist :> {mail})
NotGiven == (sendMail :> NoValue) @@ (report :> NoValue)

Node(type, children) ==
    [type |-> type, maxAttempts |-> 1, compensate |-> FALSE, turns |-> 0,
     maxIterations |-> 0, children |-> children]
Polls == (parent :> <<Node("childWorkflow", {child})>>) @@ (child :> <<Node("waitForSignal", {})>>)

Jobs == INSTANCE JobQueue WITH
    Task <- {sendMail, report}, Operator <- {}, Queue <- {mail, reports}, QueueOf <- Queues,
    Listens <- Serves, Worker <- {generalist, specialist}, OptAttempts <- NotGiven,
    ClassAttempts <- NotGiven, DefaultAttempts <- 2, Registered <- {sendMail},
    MaxId <- 5, MaxFaults <- 1, MaxCrashes <- 1, lastId <- lastRowId
Durable == INSTANCE DurableRunner WITH
    Run <- {parent, child}, Roots <- {parent}, InUow <- {}, Workflow <- Polls,
    MaxJobs <- 4, MaxFaults <- 1, MaxCrashes <- 0,
    jobs <- durableJobs, faults <- durableFaults, crashes <- durableCrashes

SettlesInit == part \in {"queue", "durable", "broadcast"} /\ Jobs!Init /\ Durable!Init /\ Init

SettlesNext ==
    /\ part' = part
    /\ \/ part = "queue" /\ Jobs!Next /\ UNCHANGED <<durableVars, vars>>
       \/ part = "durable" /\ Durable!Next /\ UNCHANGED <<queueVars, vars>>
       \/ part = "broadcast" /\ Next /\ UNCHANGED <<queueVars, durableVars>>

\* The fairness of the part the behaviour is of.
PartFairness ==
    \/ [](part = "queue") /\ Jobs!Fairness
    \/ [](part = "durable") /\ Durable!Fairness
    \/ [](part = "broadcast") /\ Fairness

FairSpec == SettlesInit /\ [][SettlesNext]_<<part, queueVars, durableVars, vars>> /\ PartFairness

\* A committed job settles (worker.ts), a started run ends or waits (durable_runner.ts).
CommittedSettles == Jobs!CommittedSettles
RunSettles == Durable!RunSettles
===============================================================================
