----------------------------- MODULE JobLedger ------------------------------
(***************************************************************************)
(* What a job queue promises its callers, one task at a time: a task that   *)
(* was handed over is queued, running, dead (waiting for an operator),      *)
(* stranded (reserved by a worker that is gone) or gone, and it is gone     *)
(* only if it completed or somebody discarded it.  JobQueue implements      *)
(* this with two tables and crash-prone workers.                            *)
(***************************************************************************)
EXTENDS FiniteSets

CONSTANT Task

VARIABLES
    status,     \* where each task is
    completed,  \* tasks whose handler has returned normally
    discarded   \* tasks flushed, or deleted for an unknown name

vars == <<status, completed, discarded>>

Status == {"absent", "queued", "running", "dead", "stranded", "gone"}

TypeOK ==
    /\ status \in [Task -> Status]
    /\ completed \subseteq Task
    /\ discarded \subseteq Task

Init ==
    /\ status = [t \in Task |-> "absent"]
    /\ completed = {}
    /\ discarded = {}

Move(t, from, to) ==
    /\ status[t] \in from
    /\ status' = [status EXCEPT ![t] = to]

Enqueue(t) == Move(t, {"absent"}, "queued") /\ UNCHANGED <<completed, discarded>>

Start(t) == Move(t, {"queued"}, "running") /\ UNCHANGED <<completed, discarded>>

\* The handler returns; the row is still there.
Complete(t) ==
    /\ status[t] = "running"
    /\ completed' = completed \cup {t}
    /\ UNCHANGED <<status, discarded>>

Finish(t) ==
    /\ t \in completed \cup discarded
    /\ Move(t, {"running"}, "gone")
    /\ UNCHANGED <<completed, discarded>>

Retry(t) == Move(t, {"running"}, "queued") /\ UNCHANGED <<completed, discarded>>

Bury(t) == Move(t, {"running"}, "dead") /\ UNCHANGED <<completed, discarded>>

\* The worker dies, or cannot record the outcome, or cannot learn that its
\* claim was committed.
Strand(t) == Move(t, {"queued", "running"}, "stranded") /\ UNCHANGED <<completed, discarded>>

\* Nobody knows how to run it.
Reject(t) ==
    /\ Move(t, {"running"}, "gone") \/ Move(t, {"running"}, "stranded")
    /\ discarded' = discarded \cup {t}
    /\ UNCHANGED completed

Requeue(ts) ==
    /\ \A t \in ts : status[t] = "dead"
    /\ status' = [t \in Task |-> IF t \in ts THEN "queued" ELSE status[t]]
    /\ UNCHANGED <<completed, discarded>>

\* A running task is not stopped: its outcome is decided by its worker.
Discard(ts) ==
    /\ \A t \in ts : status[t] \in {"queued", "running", "stranded"}
    /\ discarded' = discarded \cup ts
    /\ status' = [t \in Task |->
          IF t \in ts /\ status[t] # "running" THEN "gone" ELSE status[t]]
    /\ UNCHANGED completed

Next ==
    \/ \E t \in Task :
        \/ Enqueue(t) \/ Start(t) \/ Complete(t) \/ Finish(t) \/ Retry(t)
        \/ Bury(t) \/ Strand(t) \/ Reject(t)
    \/ \E ts \in SUBSET Task : Requeue(ts) \/ Discard(ts)

Spec == Init /\ [][Next]_vars

\* No task is forgotten: what is gone was completed or discarded.
GoneForAReason == \A t \in Task : status[t] = "gone" => t \in completed \cup discarded
=============================================================================
