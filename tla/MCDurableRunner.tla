-------------------------- MODULE MCDurableRunner --------------------------
(* Instances of DurableRunner for TLC: small workflows of each node type.  *)
EXTENDS DurableRunner

CONSTANTS r1, c1, c2

Plain == [type |-> "step", maxAttempts |-> 1, compensate |-> FALSE, turns |-> 0,
          maxIterations |-> 0, children |-> {}]
Step(max) == [Plain EXCEPT !.maxAttempts = max]
Saga(max) == [Plain EXCEPT !.maxAttempts = max, !.compensate = TRUE]
Sleep == [Plain EXCEPT !.type = "sleep"]
Wait == [Plain EXCEPT !.type = "waitForSignal"]
Loop(turns, ceiling, max) ==
    [Plain EXCEPT !.type = "loop", !.turns = turns, !.maxIterations = ceiling, !.maxAttempts = max]
Child(ids) == [Plain EXCEPT !.type = "childWorkflow", !.children = ids]

Nobody == {}
One == {r1}
Family == {r1, c1, c2}

\* Compensable steps, a retry, and a last step that may fail for good.
SagaWorkflow == [r \in One |-> <<Saga(2), Saga(1), Step(1)>>]

\* Every other node type in one parent, and a child that may succeed or fail.
MixedFamily ==
    [r \in Family |->
        IF r = r1 THEN <<Sleep, Wait, Loop(1, 2, 2), Child({c1, c2})>> ELSE <<Saga(1)>>]
=============================================================================
