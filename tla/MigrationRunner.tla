--------------------------- MODULE MigrationRunner ---------------------------
(***************************************************************************)
(* MigrationRunner of @strav/database, run by several processes at once -   *)
(* two deploys, or a deploy and an operator.  Nothing locks the tracking    *)
(* table: a run reads what is applied, then applies or reverses one         *)
(* migration per transaction.  A migration is its place in the alphabetical *)
(* order of names.                                                          *)
(***************************************************************************)
EXTENDS Integers, FiniteSetsExt

CONSTANTS Runner,
          Migration,   \* 1..n, by name
          Versions,    \* what a version of the code registers: sets of migrations
          Tolerant,    \* migrations whose down() does not fail when run a second time
          MaxRuns      \* bound: commands ever started

VARIABLES known,       \* runner -> the migrations its code registers
          rows,        \* the tracking table: set of [m, batch]
          effect,      \* migration -> how often up() was committed, less down()
          run,         \* runner -> Idle, or [op, at, todo: the migrations left, batch]
          crossed,     \* did a rollback ever overlap another command
          runs

vars == <<known, rows, effect, run, crossed, runs>>

Idle == [op |-> "none", at |-> "idle", todo |-> {}, batch |-> 0]
Tracked == {x.m : x \in rows}
LastBatch == Max({0} \cup {x.batch : x \in rows})

Init == known \in [Runner -> Versions] /\ rows = {} /\ effect = [m \in Migration |-> 0] /\ run = [r \in Runner |-> Idle] /\ crossed = FALSE /\ runs = 0

Command(r, op, at, todo, batch) ==
  /\ run[r] = Idle /\ runs < MaxRuns /\ runs' = runs + 1 /\ todo # {}
  /\ run' = [run EXCEPT ![r] = [op |-> op, at |-> at, todo |-> todo, batch |-> batch]]
  /\ LET others == {run[s].op : s \in Runner} IN
     crossed' = (crossed \/ "rollback" \in others \/ (op = "rollback" /\ others # {"none"}))
  /\ UNCHANGED <<known, rows, effect>>

(* migrate: what is pending is read once ... *)
Migrate(r) == Command(r, "migrate", "batch", known[r] \ Tracked, 0)

(* ... and the batch in a query of its own. *)
NextBatch(r) == /\ run[r].at = "batch"
                /\ run' = [run EXCEPT ![r].at = "step", ![r].batch = LastBatch + 1]
                /\ UNCHANGED <<known, rows, effect, crossed, runs>>

(* The last batch. *)
Undone == {x.m : x \in {y \in rows : y.batch = LastBatch}}
Rollback(r) == Command(r, "rollback", "step", Undone, LastBatch)

(* A migrate takes the first that is left by name, a rollback the last. *)
First(r, m) == m \in run[r].todo /\ \A k \in run[r].todo : m <= k
(* Mutation of Latest: the batch comes off in the order it was applied. *)
LatestAscending(r, m) == First(r, m)
Latest(r, m) == m \in run[r].todo /\ \A k \in run[r].todo : k <= m

Stop(r) == run' = [run EXCEPT ![r] = Idle]
Advance(r, m) == run' = [run EXCEPT ![r] = IF @.todo = {m} THEN Idle ELSE [@ EXCEPT !.todo = run[r].todo \ {m}]]

(* up() and the INSERT commit together: a name that is there already is a    *)
(* conflict that takes up() back with it and ends the command.               *)
Up(r) == \E m \in run[r].todo :
  /\ run[r].op = "migrate" /\ run[r].at = "step" /\ First(r, m)
  /\ IF m \in Tracked THEN Stop(r) /\ UNCHANGED <<rows, effect>>
     ELSE /\ Advance(r, m) /\ rows' = rows \cup {[m |-> m, batch |-> run[r].batch]}
          /\ effect' = [effect EXCEPT ![m] = @ + 1]
  /\ UNCHANGED <<known, crossed, runs>>

(* down() and the DELETE.  Deleting no row is no error: only a down() that   *)
(* does not bear a second run notices that another rollback was first.       *)
Down(r) == \E m \in run[r].todo :
  /\ run[r].op = "rollback" /\ Latest(r, m)
  /\ IF m \notin known[r] \/ (m \notin Tracked /\ m \notin Tolerant) THEN Stop(r) /\ UNCHANGED <<rows, effect>>
     ELSE /\ Advance(r, m) /\ rows' = {x \in rows : x.m # m} /\ effect' = [effect EXCEPT ![m] = @ - 1]
  /\ UNCHANGED <<known, crossed, runs>>

(* up() or down() throws, or the process dies between two transactions. *)
Fails(r) == run[r] # Idle /\ Stop(r) /\ UNCHANGED <<known, rows, effect, crossed, runs>>

Next == \E r \in Runner : Migrate(r) \/ NextBatch(r) \/ Rollback(r) \/ Up(r) \/ Down(r) \/ Fails(r)
Spec == Init /\ [][Next]_vars

-----------------------------------------------------------------------------
TypeOK == /\ Tracked \subseteq Migration /\ \A x, y \in rows : x.m = y.m => x = y
          /\ \A r \in Runner : run[r] = Idle \/ run[r].todo # {}

(* The tracking table tells what the schema holds: a migration is applied    *)
(* once if it has a row and not at all without one - or, when its down()     *)
(* bears being run again, taken back once too often by two rollbacks.        *)
Truthful == \A m \in Migration : LET there == IF m \in Tracked THEN 1 ELSE 0 IN
              IF m \in Tolerant /\ crossed THEN effect[m] <= there ELSE effect[m] = there

(* What one version of the code applied is a beginning of its list, wherever *)
(* two migrates met and whatever step failed, unless a rollback met them.    *)
NoGaps == ~crossed /\ (\A r \in Runner : known[r] = Migration)
            => \A m \in Tracked : \A k \in Migration : k < m => k \in Tracked

MigrationInv == TypeOK /\ Truthful /\ NoGaps
=============================================================================
