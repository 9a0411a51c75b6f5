----------------------------- MODULE MCScheduler -----------------------------
(* An instance of Scheduler for TLC: three entries, of which the first and the *)
(* last are one job class scheduled twice without a name of its own.            *)
EXTENDS Scheduler

CONSTANTS sweep, ping

SharedName == [e \in Entry |-> IF e = 2 THEN ping ELSE sweep]

\* sweep at every minute and, by its second entry, at minute 3; ping at minute 2.
Crons == [e \in Entry |-> CASE e = 1 -> Minute [] e = 2 -> {2} [] OTHER -> {3}]
==============================================================================
