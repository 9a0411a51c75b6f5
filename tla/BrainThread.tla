---------------------------- MODULE BrainThread ----------------------------
(***************************************************************************)
(* A persisted conversation of @strav/brain.  A request loads the thread,   *)
(* sends through Thread, and stores the two turns with                      *)
(* DatabaseBrainStore.appendTurn; other requests do the same to the same    *)
(* thread, and it may be deleted meanwhile.  turn_index is computed inside  *)
(* the INSERT from what the statement sees; the unique index on             *)
(* (thread_id, turn_index), which the application's migration adds, decides *)
(* between two that saw the same.                                           *)
(***************************************************************************)
EXTENDS Integers, Sequences, FiniteSets

CONSTANTS Request, None

VARIABLES stored,   \* rows of the thread: [index, role, response, by]
          exists,   \* does the thread row
          pointer,  \* its last_response_id
          req       \* request -> [pc, messages, last: lastResponseId, seen: MAX + 1 its INSERT saw, turns: kept so far]

vars == <<stored, exists, pointer, req>>

Init == /\ stored = {} /\ exists = TRUE /\ pointer = None
        /\ req = [r \in Request |-> [pc |-> "idle", messages |-> <<>>, last |-> None, seen |-> 0, turns |-> 0]]

Go(r, pc) == req' = [req EXCEPT ![r].pc = pc]

(* loadThread: the thread's row first, its messages by a second query. *)
Load(r) ==
  /\ req[r].pc = "idle" /\ exists
  /\ req' = [req EXCEPT ![r] = [@ EXCEPT !.pc = "loading", !.last = pointer]]
  /\ UNCHANGED <<stored, exists, pointer>>

(* Thread.fromJSON keeps the turns in the order of their index. *)
InOrder(rows) ==
  CHOOSE s \in [1..Cardinality(rows) -> rows] :
    \A i, j \in 1..Cardinality(rows) : i < j => s[i].index < s[j].index
LoadMessages(r) ==
  /\ req[r].pc = "loading"
  /\ req' = [req EXCEPT ![r] = [@ EXCEPT !.pc = "loaded",
       !.messages = [i \in 1..Cardinality(stored) |-> InOrder(stored)[i].role]]]
  /\ UNCHANGED <<stored, exists, pointer>>

(* send(): the user's turn is pushed before the model is asked, and stays when it fails. *)
Send(r) ==
  /\ req[r].pc = "loaded"
  /\ req' = [req EXCEPT ![r] = [@ EXCEPT !.pc = "asked", !.messages = Append(req[r].messages, "user")]]
  /\ UNCHANGED <<stored, exists, pointer>>
Replied(r) ==
  /\ req[r].pc = "asked"
  /\ \/ req' = [req EXCEPT ![r] = [@ EXCEPT !.pc = "append", !.messages = Append(req[r].messages, "assistant"), !.last = r]]
     \/ Go(r, "failed")
  /\ UNCHANGED <<stored, exists, pointer>>

Role(r) == IF req[r].turns = 0 THEN "user" ELSE "assistant"
NextIndex == IF stored = {} THEN 0 ELSE 1 + CHOOSE n \in {m.index : m \in stored} : \A m \in stored : m.index <= n

(* appendTurn: the INSERT reads MAX(turn_index) as of its start ... *)
Insert(r) ==
  /\ req[r].pc = "append"
  /\ req' = [req EXCEPT ![r] = [@ EXCEPT !.pc = "inserting", !.seen = NextIndex]]
  /\ UNCHANGED <<stored, exists, pointer>>

Response(r) == IF Role(r) = "assistant" THEN r ELSE None

(* ... and commits, unless the index is taken or the thread is gone. *)
Free(n) == \A m \in stored : m.index # n
Inserted(r) ==
  /\ req[r].pc = "inserting"
  /\ IF exists /\ Free(req[r].seen)
     THEN /\ stored' = stored \cup {[index |-> req[r].seen, role |-> Role(r), response |-> Response(r), by |-> r]}
          /\ req' = [req EXCEPT ![r] = [@ EXCEPT !.turns = req[r].turns + 1, !.pc = IF req[r].turns = 0 THEN "append" ELSE "bump"]]
     ELSE stored' = stored /\ Go(r, "failed")
  /\ UNCHANGED <<exists, pointer>>

(* A turn with a response id bumps the thread's pointer: find, then update. *)
Find(r) == /\ req[r].pc = "bump" /\ Go(r, IF exists THEN "bumping" ELSE "done")
           /\ UNCHANGED <<stored, exists, pointer>>
Bump(r) == /\ req[r].pc = "bumping"
           /\ IF exists THEN pointer' = r /\ Go(r, "done") ELSE pointer' = pointer /\ Go(r, "failed")
           /\ UNCHANGED <<stored, exists>>

(* deleteThread: the messages go with the thread. *)
Delete == exists /\ exists' = FALSE /\ stored' = {} /\ pointer' = None /\ UNCHANGED req

Next == \/ \E r \in Request : Load(r) \/ LoadMessages(r) \/ Send(r) \/ Replied(r)
                              \/ Insert(r) \/ Inserted(r) \/ Find(r) \/ Bump(r)
        \/ Delete
Spec == Init /\ [][Next]_vars

-----------------------------------------------------------------------------
TypeOK == /\ exists \in BOOLEAN /\ pointer \in Request \cup {None}
          /\ \A m \in stored : m.index \in Nat /\ m.role \in {"user", "assistant"}

(* The stored turns are numbered without gap or double, whoever appends.     *)
Dense == {m.index : m \in stored} = 0..(Cardinality(stored) - 1)

(* An answer is never stored without its question, or before it.             *)
QuestionFirst ==
  \A m \in stored : m.role = "assistant" => \E n \in stored : n.by = m.by /\ n.role = "user" /\ n.index < m.index

(* The response the next send continues from is one of a stored turn.        *)
PointerStored == pointer # None => \E m \in stored : m.response = pointer

(* The stored conversation keeps its numbering, its order within a request,  *)
(* and a pointer into itself, however requests interleave.                   *)
ThreadInv == TypeOK /\ Dense /\ QuestionFirst /\ PointerStored

(* brain_message_repository.ts:44: turn_index is computed in the statement,  *)
(* so two concurrent appends do not collide.                                 *)
AppendsDoNotCollide ==
  [][\A r \in Request : req[r].pc = "inserting" /\ req'[r].pc = "failed" => ~exists]_vars
=============================================================================
