------------------------------ MODULE EventBus ------------------------------
(***************************************************************************)
(* The event bus of @strav/kernel.  emit() takes a snapshot of the entries  *)
(* that match, removes the one-shot ones among them and awaits each         *)
(* listener in turn; emitParallel() enters them all.  Listeners subscribe,  *)
(* unsubscribe and emit while a dispatch is under way.                      *)
(***************************************************************************)
EXTENDS Integers, Sequences, FiniteSets, SequencesExt

CONSTANTS EventNames,  \* the names emitted: sequences of segments
          Patterns,    \* the patterns listened to: [prefix: sequence, wild: "none", "segment" (prefix.*) or "all" (*)]
          Cancelable,  \* the names isCancelable() accepts
          MaxEntries,  \* bound: listeners ever registered
          MaxEmits     \* bound: events ever emitted

VARIABLES entries,  \* the registered entries, oldest first: [id, pattern, once]
          known,    \* how many were ever registered
          emits     \* the dispatches: [name, parallel, matched, at, threw, outcome, seen: known when it began,
                    \*               fired: ids of the listeners entered, in order]

vars == <<entries, known, emits>>

Init == entries = <<>> /\ known = 0 /\ emits = <<>>

(* patternMatches(). *)
PatternMatches(p, name) ==
  \/ p.wild = "none" /\ p.prefix = name
  \/ p.wild = "all"
  \/ p.wild = "segment" /\ Len(name) = Len(p.prefix) + 1 /\ IsStrictPrefix(p.prefix, name)

(* on() and once(): one entry for each name; the unsubscribe removes them together. *)
Register(patterns, once) ==
  /\ known + Len(patterns) <= MaxEntries
  /\ entries' = entries \o [i \in DOMAIN patterns |-> [id |-> known + i, pattern |-> patterns[i], once |-> once]]
  /\ known' = known + Len(patterns)
  /\ emits' = emits

Unsubscribe(ids) ==
  /\ ids # {} /\ ids \subseteq {entries[i].id : i \in DOMAIN entries}
  /\ entries' = SelectSeq(entries, LAMBDA e : e.id \notin ids)
  /\ UNCHANGED <<known, emits>>

RemoveAllListeners(p) ==
  /\ \E i \in DOMAIN entries : entries[i].pattern = p
  /\ entries' = SelectSeq(entries, LAMBDA e : e.pattern # p)
  /\ UNCHANGED <<known, emits>>

(* matching() and prepareForDispatch(). *)
Matching(name) == SelectSeq(entries, LAMBDA e : PatternMatches(e.pattern, name))
PrepareForDispatch(name) == SelectSeq(entries, LAMBDA e : ~(e.once /\ PatternMatches(e.pattern, name)))

(* Mutation of PrepareForDispatch: one-shot entries stay until their handler returned. *)
PrepareNothing(name) == entries

Dispatch(name, parallel) ==
  /\ Len(emits) < MaxEmits /\ Matching(name) # <<>>
  /\ entries' = PrepareForDispatch(name)
  /\ emits' = Append(emits, [name |-> name, parallel |-> parallel, matched |-> Matching(name), at |-> 0,
                             threw |-> {}, outcome |-> "running", seen |-> known,
                             fired |-> IF parallel THEN [i \in DOMAIN Matching(name) |-> Matching(name)[i].id] ELSE <<>>])
  /\ known' = known

(* emitParallel() refuses a cancelable name. *)
Emit(name) == Dispatch(name, FALSE)
EmitParallel(name) == name \notin Cancelable /\ Dispatch(name, TRUE)

Running(k) == emits[k].outcome = "running"

(* emit(): the next listener is entered. *)
Enter(k) ==
  /\ Running(k) /\ ~emits[k].parallel /\ emits[k].at < Len(emits[k].matched)
  /\ emits' = [emits EXCEPT ![k].at = @ + 1, ![k].fired = Append(@, emits[k].matched[emits[k].at + 1].id)]
  /\ UNCHANGED <<entries, known>>

(* emit(): the listener just entered throws: a cancelable event rejects at once, *)
(* any other reports it and goes on.                                             *)
Throw(k) ==
  /\ Running(k) /\ ~emits[k].parallel /\ emits[k].at \notin emits[k].threw \cup {0}
  /\ emits' = [emits EXCEPT ![k].threw = @ \cup {emits[k].at},
                            ![k].outcome = IF emits[k].name \in Cancelable THEN "rejected" ELSE "running"]
  /\ UNCHANGED <<entries, known>>

Resolve(k) ==
  /\ Running(k) /\ ~emits[k].parallel /\ emits[k].at = Len(emits[k].matched)
  /\ emits' = [emits EXCEPT ![k].outcome = "resolved"]
  /\ UNCHANGED <<entries, known>>

(* emitParallel(): all settled; it throws only when every listener failed. *)
Settle(k) ==
  /\ Running(k) /\ emits[k].parallel
  /\ \E threw \in SUBSET (DOMAIN emits[k].matched) :
       emits' = [emits EXCEPT ![k].threw = threw,
                              ![k].outcome = IF threw = DOMAIN emits[k].matched THEN "rejected" ELSE "resolved"]
  /\ UNCHANGED <<entries, known>>

Next == \/ \E p \in Patterns, once \in BOOLEAN : Register(<<p>>, once)
        \/ \E p, q \in Patterns : p # q /\ Register(<<p, q>>, FALSE)
        \/ \E e \in 1..known : Unsubscribe({e})
        \/ \E p \in Patterns : RemoveAllListeners(p)
        \/ \E n \in EventNames : Emit(n) \/ EmitParallel(n)
        \/ \E k \in DOMAIN emits : Enter(k) \/ Throw(k) \/ Resolve(k) \/ Settle(k)

Spec == Init /\ [][Next]_vars

-----------------------------------------------------------------------------
(* A one-shot listener is entered at most once, whatever is emitted from      *)
(* inside a dispatch (event_bus.ts prepareForDispatch).                       *)
OnceFiresOnce ==
  \A k, l \in DOMAIN emits : \A i \in DOMAIN emits[k].matched :
    LET e == emits[k].matched[i] IN
      e.once /\ k # l => ~(e.id \in ToSet(emits[k].fired) /\ e.id \in ToSet(emits[l].fired))

(* Each dispatch enters, in the order of registration and no listener twice,  *)
(* listeners that were there when it began and that its name matches; when it *)
(* resolved it entered them all, when a cancelable one rejected none after    *)
(* the one that threw (event_bus.ts emit).                                    *)
DispatchIsASnapshot ==
  \A k \in DOMAIN emits :
    LET e == emits[k] f == e.fired IN
      /\ \A i \in DOMAIN f : f[i] <= e.seen /\ (i > 1 => f[i - 1] < f[i])
      /\ e.outcome = "resolved" => Len(f) = Len(e.matched)
      /\ e.outcome = "rejected" /\ ~e.parallel => /\ e.name \in Cancelable
                                                  /\ e.threw = {Len(f)}

EventBusInv == OnceFiresOnce /\ DispatchIsASnapshot
=============================================================================
