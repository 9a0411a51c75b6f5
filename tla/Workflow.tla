------------------------------ MODULE Workflow ------------------------------
(***************************************************************************)
(* The in-process saga of @strav/workflow: run() executes the declared      *)
(* steps one after the other; when one throws it compensates the completed  *)
(* ones and throws.  The entries of a parallel step run side by side under  *)
(* Promise.all, which rejects at the first throw and does not stop the      *)
(* others.                                                                  *)
(***************************************************************************)
EXTENDS Integers, Sequences, FiniteSets

CONSTANTS MaxSteps,       \* bound: the steps of a plan
          MaxWidth,       \* bound: the entries of a step
          MaxEntries,     \* bound: those of all its steps
          MaxIterations   \* bound: the ceiling of its loops, if it is not 0

VARIABLES plan,       \* this.steps: [type, comps: for each entry whether it has a compensator, max]
          at,         \* the step run() is at
          pc,         \* "building", "next", "executing", "compensating", "returned", "failed" (WorkflowError), "stuck" (CompensationError)
          handler,    \* entry -> "idle", "running", "done", "threw", "late": returned after run() gave up
          iteration,  \* i of the loop
          results,    \* the entries with a name in the results object
          completed,  \* the steps run() pushed
          owing,      \* the compensators still to call: <<place in completed, entry of that step>>
          called,     \* the entries whose compensators were called
          failures    \* those that threw

vars == <<plan, at, pc, handler, iteration, results, completed, owing, called, failures>>

\* An entry is named by its step and its place in it.
Entry == (1..MaxSteps) \X (1..MaxWidth)
Names(i) == {n \in Entry : n[1] = i /\ n[2] \in DOMAIN plan[i].comps}
Declared == UNION {Names(i) : i \in DOMAIN plan}
Step == plan[at]
Ended == {"returned", "failed", "stuck"}

Init == /\ plan = <<>> /\ at = 1 /\ pc = "building"
        /\ handler = [n \in Entry |-> "idle"] /\ iteration = 0
        /\ results = {} /\ completed = <<>> /\ owing = {} /\ called = <<>> /\ failures = {}

(***************************************************************************)
(* The builder: each method appends a step to the plan.                    *)
(***************************************************************************)
Build(type, comps, max) ==
  /\ pc = "building" /\ Len(plan) < MaxSteps /\ Cardinality(Declared) + Len(comps) <= MaxEntries
  /\ plan' = Append(plan, [type |-> type, comps |-> comps, max |-> max])
  /\ UNCHANGED <<at, pc, handler, iteration, results, completed, owing, called, failures>>

AddStep(comp) == Build("step", <<comp>>, 0)
AddParallel(comps) == Build("parallel", comps, 0)
AddRoute == Build("route", <<FALSE>>, 0)
AddLoop(max) == Build("loop", <<FALSE>>, max)

Start == /\ pc = "building" /\ plan # <<>> /\ pc' = "next"
         /\ UNCHANGED <<plan, at, handler, iteration, results, completed, owing, called, failures>>

(***************************************************************************)
(* run().                                                                  *)
(***************************************************************************)
(* compensatorsFor: only steps and parallel entries have any. *)
CompensatorsFor(step) ==
  IF step.type \in {"step", "parallel"} THEN {j \in DOMAIN step.comps : step.comps[j]} ELSE {}
Rollback(steps) ==
  {c \in (DOMAIN steps) \X (1..MaxWidth) : c[2] \in CompensatorsFor(plan[steps[c[1]]])}

(* Mutation of Before: the compensators are flattened first and reversed as a whole. *)
BeforeReversed(c, d) == c[1] > d[1] \/ (c[1] = d[1] /\ c[2] > d[2])
(* compensate(): the completed steps in reverse, each one's entries as declared. *)
Before(c, d) == c[1] > d[1] \/ (c[1] = d[1] /\ c[2] < d[2])

(* run(): execute() of the current step returned. *)
Complete(written) ==
  /\ results' = results \cup written
  /\ completed' = Append(completed, at) /\ at' = at + 1 /\ pc' = "next"
  /\ UNCHANGED <<owing, called, failures>>

(* run(): execute() threw. *)
Fail == /\ pc' = "compensating" /\ owing' = Rollback(completed)
        /\ UNCHANGED <<at, results, completed, called, failures>>

Enter(names) == handler' = [n \in Entry |-> IF n \in names THEN "running" ELSE handler[n]]

(* execute(): the handlers are entered, those of a parallel step all at once. *)
Execute ==
  /\ pc = "next" /\ at <= Len(plan) /\ iteration' = 0 /\ plan' = plan
  /\ \/ /\ Step.type # "loop" \/ Step.max > 0
        /\ Step.comps # <<>>
        /\ Enter(Names(at)) /\ pc' = "executing"
        /\ UNCHANGED <<at, results, completed, owing, called, failures>>
     \/ /\ \/ Step.type = "loop" /\ Step.max <= 0
           \/ Step.comps = <<>>            \* Promise.all([])
           \/ Step.type = "route"          \* a key no branch has
        /\ handler' = handler /\ Complete({})
     \/ Step.type = "route" /\ handler' = handler /\ Fail  \* the resolver throws

Awaited(n) == pc = "executing" /\ n \in Names(at)
Running(n) == handler[n] = "running" /\ plan' = plan

(* A handler that is not a loop's returns; a parallel step ends with its last. *)
Returns(n) ==
  /\ Running(n) /\ Awaited(n) /\ Step.type # "loop"
  /\ handler' = [handler EXCEPT ![n] = "done"] /\ iteration' = iteration
  /\ IF \A m \in Names(at) \ {n} : handler[m] = "done"
     THEN Complete(Names(at))
     ELSE UNCHANGED <<at, pc, results, completed, owing, called, failures>>

(* An iteration returns: the last one allowed, one until() stops at, or neither. *)
Iterates(n) ==
  /\ Running(n) /\ Awaited(n) /\ Step.type = "loop"
  /\ iteration' = iteration + 1
  /\ \/ handler' = [handler EXCEPT ![n] = "done"] /\ Complete(Names(at))
     \/ /\ iteration + 1 < Step.max
        /\ UNCHANGED <<handler, at, pc, results, completed, owing, called, failures>>

(* A handler throws while run() waits for it. *)
Throws(n) ==
  /\ Running(n) /\ Awaited(n)
  /\ handler' = [handler EXCEPT ![n] = "threw"] /\ iteration' = iteration /\ Fail

(* An entry settles after its parallel step was given up. *)
Straggles(n) ==
  /\ Running(n) /\ ~Awaited(n)
  /\ \E end \in {"late", "threw"} : handler' = [handler EXCEPT ![n] = end]
  /\ UNCHANGED <<at, pc, iteration, results, completed, owing, called, failures>>

(* compensate(): every compensator is called, whether or not others threw. *)
Compensate == \E c \in owing :
  /\ pc = "compensating" /\ \A d \in owing \ {c} : Before(c, d)
  /\ LET n == <<completed[c[1]], c[2]>> IN
     called' = Append(called, n) /\ failures' \in {failures, failures \cup {n}}
  /\ owing' = owing \ {c}
  /\ UNCHANGED <<plan, at, pc, handler, iteration, results, completed>>

(* Mutation of Compensate: the first compensator that throws ends the rollback. *)
CompensateUntilError == \E c \in owing :
  /\ pc = "compensating" /\ \A d \in owing \ {c} : Before(c, d)
  /\ LET n == <<completed[c[1]], c[2]>> IN
     /\ called' = Append(called, n)
     /\ \/ owing' = owing \ {c} /\ failures' = failures
        \/ owing' = {} /\ failures' = failures \cup {n}
  /\ UNCHANGED <<plan, at, pc, handler, iteration, results, completed>>

(* run() settles: it returns the results, or throws one of the two errors. *)
Settle ==
  /\ \/ pc = "next" /\ at > Len(plan) /\ pc' = "returned"
     \/ pc = "compensating" /\ owing = {} /\ pc' = IF failures = {} THEN "failed" ELSE "stuck"
  /\ UNCHANGED <<plan, at, handler, iteration, results, completed, owing, called, failures>>

Rest == pc \in Ended /\ (\A n \in Entry : handler[n] # "running") /\ UNCHANGED vars

Next == \/ \E c \in BOOLEAN : AddStep(c)
        \/ \E width \in 0..MaxWidth : \E comps \in [1..width -> BOOLEAN] : AddParallel(comps)
        \/ \E max \in {0, MaxIterations} : AddLoop(max)
        \/ AddRoute \/ Start
        \/ Execute \/ Compensate \/ Settle \/ Rest
        \/ \E n \in Entry : Returns(n) \/ Iterates(n) \/ Throws(n) \/ Straggles(n)

Spec == Init /\ [][Next]_vars

-----------------------------------------------------------------------------
Compensable(n) == n \in Declared /\ n[2] \in CompensatorsFor(plan[n[1]])

(* When run() has thrown, each step that completed before the one that failed *)
(* was compensated once: later steps first, the entries of one step in their  *)
(* declared order, a compensator's own error stopping none of the others;     *)
(* and which error it throws tells whether one of them failed                 *)
(* (workflow.ts compensate).                                                  *)
RolledBack ==
  pc \in {"failed", "stuck"} =>
    /\ {called[i] : i \in DOMAIN called} = {n \in Entry : Compensable(n) /\ n[1] < at}
    /\ \A i, j \in DOMAIN called : i < j =>
         called[i][1] > called[j][1] \/ (called[i][1] = called[j][1] /\ called[i][2] < called[j][2])
    /\ (pc = "stuck") = (failures # {})

(* Once a step has failed no handler is entered: the only ones still running  *)
(* are the siblings of the entry that threw; and results names exactly the    *)
(* handlers of the steps that completed, so a compensator never reads the     *)
(* result of half a parallel step (workflow.ts execute).                      *)
NothingStartsAfterFailure ==
  /\ \A n \in Entry : handler[n] # "idle" => n \in Declared /\ n[1] <= at
  /\ pc # "executing" => \A n \in Entry :
        handler[n] \in {"running", "late"} => n[1] = at /\ Step.type = "parallel"
  /\ results = {n \in Entry : handler[n] = "done" /\ n[1] < at}
  /\ \A n \in Declared : n[1] < at => handler[n] \in {"done", "idle"}

WorkflowInv == RolledBack /\ NothingStartsAfterFailure

(* docs/workflow/guides/sagas.md:34 says of a parallel step in which one      *)
(* entry throws that the others that finished are still compensated.          *)
SiblingsCompensated ==
  pc \in {"failed", "stuck"} =>
    \A n \in Entry : handler[n] = "done" /\ Compensable(n) => \E i \in DOMAIN called : called[i] = n
=============================================================================
