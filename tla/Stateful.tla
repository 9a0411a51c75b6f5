------------------------------ MODULE Stateful ------------------------------
(***************************************************************************)
(* State machines of @strav/machine on database rows.  transition() checks  *)
(* the state of the object the caller holds, awaits the guard, changes the  *)
(* object, awaits the effect, and writes the column by id - whatever the    *)
(* row holds by then - before it emits the event.  Callers hold copies of   *)
(* one row or share one, and may call inside a UnitOfWork that rolls back.  *)
(***************************************************************************)
EXTENDS Integers, Sequences, FiniteSets

CONSTANTS Caller, Copy, None,
          InUnit,       \* the callers that wrap the call in UnitOfWork.run
          States,       \* the values of the field
          Transitions,  \* name -> [from: set of states, to, guarded, event]
          MaxWrites     \* bound: how often the row is written

VARIABLES history,  \* the values ever written to the column
          current,  \* the one the row has
          deleted,  \* DELETE came
          copy,     \* copy -> [state: its field, seen: the value in history it was in step with,
                    \*          ahead: a transition changed it and has not written]
          task,     \* caller -> [pc, copy, name, from, seen, clean, unit: inside UnitOfWork.run]
          open,     \* the caller whose uncommitted write holds the row's lock
          before,   \* what a rollback of it restores
          writes,   \* the writes of transition() that stand: [at, was, from, name, fresh]
          emitted   \* the machine's events: [at, name, unit]

vars == <<history, current, deleted, copy, task, open, before, writes, emitted>>
database == <<history, current, deleted, open, before, writes>>

Row == history[current]
Idle == [pc |-> "idle", copy |-> None, name |-> None, from |-> None, seen |-> 0, clean |-> TRUE, unit |-> FALSE]

Init == /\ history \in {<<s>> : s \in States} /\ current = 1 /\ deleted = FALSE
        /\ copy = [c \in Copy |-> [state |-> Row, seen |-> 1, ahead |-> FALSE]]
        /\ task = [a \in Caller |-> Idle] /\ open = None /\ before = 1
        /\ writes = {} /\ emitted = {}

(* find(): a copy is hydrated from the committed row. *)
Load(c) ==
  /\ ~deleted /\ \A a \in Caller : task[a].copy # c
  /\ LET v == IF open = None THEN current ELSE before IN
     copy' = [copy EXCEPT ![c] = [state |-> history[v], seen |-> v, ahead |-> FALSE]]
  /\ UNCHANGED <<database, task, emitted>>

(* apply(): TransitionError, when the copy's state does not allow it, changes nothing. *)
Apply(a, c, t) ==
  /\ task[a].pc = "idle" /\ copy[c].state \in Transitions[t].from
  /\ task' = [task EXCEPT ![a] = [pc |-> IF Transitions[t].guarded THEN "guard" ELSE "set",
                                  copy |-> c, name |-> t, from |-> copy[c].state,
                                  seen |-> copy[c].seen, clean |-> ~copy[c].ahead, unit |-> a \in InUnit]]
  /\ UNCHANGED <<database, copy, emitted>>

(* The guard answers; GuardError ends the call. *)
Guard(a) ==
  /\ task[a].pc = "guard"
  /\ task' \in {[task EXCEPT ![a].pc = "set"], [task EXCEPT ![a] = Idle]}
  /\ UNCHANGED <<database, copy, emitted>>

(* apply(), the rest: the object changes before its effect runs. *)
SetField(a) ==
  /\ task[a].pc = "set" /\ task' = [task EXCEPT ![a].pc = "effect"]
  /\ LET c == task[a].copy IN
     copy' = [copy EXCEPT ![c].state = Transitions[task[a].name].to, ![c].ahead = TRUE]
  /\ UNCHANGED <<database, emitted>>

(* The effect returns, or it - or an "updating" listener, or the statement - throws: *)
(* the object keeps its new state.                                                   *)
Effect(a) ==
  /\ task[a].pc = "effect"
  /\ task' \in {[task EXCEPT ![a].pc = "update"], [task EXCEPT ![a] = Idle]}
  /\ UNCHANGED <<database, copy, emitted>>

(* Repository.update(): the column is set by id, whatever it held. *)
Update(a) ==
  /\ task[a].pc = "update" /\ open = None /\ ~deleted /\ Len(history) <= MaxWrites
  /\ LET t == task[a] to == Transitions[t.name].to at == Len(history) + 1 IN
     /\ history' = Append(history, to) /\ current' = at /\ before' = current
     /\ copy' = [copy EXCEPT ![t.copy].seen = at, ![t.copy].ahead = copy[t.copy].state # to]
     /\ writes' = writes \cup {[at |-> at, was |-> Row, from |-> t.from, name |-> t.name,
                                fresh |-> t.clean /\ t.seen = current]}
     /\ task' = [task EXCEPT ![a] = [@ EXCEPT !.pc = IF Transitions[t.name].event THEN "emit" ELSE "end",
                                              !.seen = at]]
     /\ open' = IF t.unit THEN a ELSE None
  /\ UNCHANGED <<deleted, emitted>>

(* NotFoundError: the row is gone. *)
UpdateMisses(a) ==
  /\ task[a].pc = "update" /\ deleted /\ open = None
  /\ task' = [task EXCEPT ![a] = Idle]
  /\ UNCHANGED <<database, copy, emitted>>

(* Mutation of UpdateMisses: an UPDATE of no row passes for one of the row. *)
UpdateIgnoresCount(a) ==
  /\ task[a].pc = "update" /\ deleted /\ open = None
  /\ task' = [task EXCEPT ![a].pc = "emit"]
  /\ UNCHANGED <<database, copy, emitted>>

(* The machine's event goes out at once, inside a transaction too. *)
Emit(a) ==
  /\ task[a].pc = "emit" /\ task' = [task EXCEPT ![a].pc = "end"]
  /\ emitted' = emitted \cup {[at |-> task[a].seen, name |-> task[a].name, unit |-> task[a].unit]}
  /\ UNCHANGED <<database, copy>>

(* The call returns, and its scope commits or - something else threw in it - rolls back. *)
End(a) ==
  /\ task[a].pc = "end" /\ task' = [task EXCEPT ![a] = Idle]
  /\ open' = IF open = a THEN None ELSE open
  /\ \/ UNCHANGED <<current, writes>>
     \/ open = a /\ current' = before /\ writes' = {w \in writes : w.at # current}
  /\ UNCHANGED <<history, deleted, copy, before, emitted>>

Delete == /\ ~deleted /\ open = None /\ deleted' = TRUE
          /\ UNCHANGED <<history, current, copy, task, open, before, writes, emitted>>

Next == \/ Delete \/ \E c \in Copy : Load(c)
        \/ \E a \in Caller :
             \/ Guard(a) \/ SetField(a) \/ Effect(a) \/ Update(a) \/ UpdateMisses(a) \/ Emit(a) \/ End(a)
             \/ \E c \in Copy, t \in DOMAIN Transitions : Apply(a, c, t)

Spec == Init /\ [][Next]_vars

-----------------------------------------------------------------------------
(* A transition whose copy was in step with the row when it was checked, and  *)
(* that nobody overtook, takes the row along an arrow of the machine; only a  *)
(* stale copy, or one a failed transition left ahead of its row, can make the *)
(* row jump (stateful.ts transition, define_machine.ts apply).                *)
FreshFollowsTheMachine ==
  \A w \in writes : /\ history[w.at] = Transitions[w.name].to
                    /\ w.fresh => w.was = w.from /\ w.was \in Transitions[w.name].from

(* A copy that shows anything but the row it was in step with was changed by  *)
(* a transition past its guard: a refused one leaves no trace.                *)
RefusalLeavesNoTrace == \A c \in Copy : ~copy[c].ahead => copy[c].state = history[copy[c].seen]

(* Outside a UnitOfWork an event tells of a change that was made: its write   *)
(* stands, and it is of that transition.  (Inside one it goes out before      *)
(* COMMIT and outlives a rollback.)                                           *)
EventsTellTheTruth ==
  \A e \in emitted : ~e.unit => \E w \in writes : w.at = e.at /\ w.name = e.name

StatefulInv == FreshFollowsTheMachine /\ RefusalLeavesNoTrace /\ EventsTellTheTruth
=============================================================================
