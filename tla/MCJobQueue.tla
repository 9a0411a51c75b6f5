----------------------------- MODULE MCJobQueue -----------------------------
(* An instance of JobQueue for TLC: two tasks on two queues, with the        *)
(* optional attempt counts set and unset.                                    *)
EXTENDS JobQueue

CONSTANTS t1, t2, w1, w2, q1, q2

\* One task per queue.
QueuePerTask == [t \in Task |-> IF t = t1 THEN q1 ELSE q2]

\* One worker serves both queues, the other only q1.
OneSpecialist == [w \in Worker |-> IF w = w1 THEN Queue ELSE {q1}]

NoOption == [t \in Task |-> NoValue]

\* t1's class allows two attempts, t2's class says nothing.
ClassOfT1 == [t \in Task |-> IF t = t1 THEN 2 ELSE NoValue]
=============================================================================
