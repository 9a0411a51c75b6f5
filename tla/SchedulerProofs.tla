-------------------------- MODULE SchedulerProofs --------------------------
(***************************************************************************)
(* For every fleet, every set of entries and every behaviour of the clocks: *)
(* a oneServer name is dispatched at most once for a minute, last_run_at    *)
(* never goes back, a server leaves no due minute behind that is neither    *)
(* covered nor failed, and an entry of every server is dispatched by each   *)
(* of them once for a minute, but for the jumps of its clock.               *)
(*                                                                         *)
(* None of this follows from the run table alone.  A transaction decides on *)
(* the last_run_at it read, so the proof carries that the advisory lock has *)
(* one holder (LockHeldOnce) and that what the holder read is still what    *)
(* the table says (ReadIsFresh); then a minute the transaction finds        *)
(* uncovered is later than every minute dispatched so far (RunsRecorded),   *)
(* and a minute once covered stays covered (LastGrows).  For the direct     *)
(* entries each server has one turn for a minute, which a jump of its clock *)
(* gives back: what was dispatched and what is still ahead never exceed the *)
(* turns given.                                                            *)
(***************************************************************************)
EXTENDS Scheduler, WellFoundedInduction, TLAPS

USE SchedulerAssumption

State == {Idle} \cup Sleeping \cup Ticking

-----------------------------------------------------------------------------
(* The loop *)

\* find() and tick pick an entry of a non-empty set: the least exists.
LEMMA LeastEntry ==
    ASSUME NEW S \in SUBSET Entry, S # {}
    PROVE  LET least == CHOOSE e \in S : \A f \in S : e <= f IN
           least \in S /\ \A f \in S : least <= f
<1> DEFINE R == {ss \in Nat \X Nat : ss[1] < ss[2]}
<1>1. IsWellFoundedOn(R, Nat) BY NatLessThanWellFounded DEF OpToRel
<1>2. S \subseteq Nat BY DEF Entry
<1>3. \A e, f \in S : ~(<<f, e>> \in R) => e <= f BY <1>2
<1> HIDE DEF R
<1>4. \E e \in S : \A f \in S : ~(<<f, e>> \in R) BY <1>1, <1>2, WFMin
<1> QED BY <1>3, <1>4

\* A process in a tick is in a Ticking record.
LEMMA InTick ==
    ASSUME TypeOK, NEW p \in Process, loop[p].pc \in {"ticking", "locked"}
    PROVE  loop[p] \in Ticking
BY DEF TypeOK, Idle, Sleeping

\* Going on to the next entry moves that process only, and leaves its transaction.
LEMMA ProceedMoves ==
    ASSUME TypeOK, NEW p \in Process, NEW i, NEW m \in Minute,
           NEW missed \in SUBSET Entry, Proceed(p, i, m, missed)
    PROVE  /\ loop' \in [Process -> State]
           /\ loop'[p].pc # "locked"
           /\ \A q \in Process : q # p => loop'[q] = loop[q]
<1> DEFINE rest == {e \in Entry : e > i /\ m \in Due[e]}
           next == CHOOSE e \in rest : \A f \in rest : e <= f
           row  == [pc |-> "ticking", minute |-> m, at |-> next,
                    seen |-> 0, missed |-> missed]
<1>0. loop \in [Process -> State] BY DEF TypeOK, State
<1>1. CASE loop' = [loop EXCEPT ![p] = Idle]
  <2>1. Idle \in State /\ Idle.pc # "locked" BY DEF State, Idle
  <2> QED BY <1>0, <1>1, <2>1
<1>2. CASE rest # {} /\ loop' = [loop EXCEPT ![p] = row]
  <2>1. next \in Entry BY <1>2, LeastEntry
  <2>2. row \in Ticking
    <3> HIDE DEF next
    <3> QED BY <2>1 DEF Ticking, Minute
  <2>3. row \in State /\ row.pc # "locked" BY <2>2 DEF State
  <2> HIDE DEF row
  <2> QED BY <1>0, <1>2, <2>3
<1> QED BY <1>1, <1>2 DEF Proceed

\* The next entry is the first matching one after i.
LEMMA ProceedNext ==
    ASSUME TypeOK, NEW p \in Process, NEW i \in Nat, NEW m \in Minute,
           NEW missed \in SUBSET Entry, Proceed(p, i, m, missed)
    PROVE  \/ loop'[p] = Idle
           \/ /\ loop'[p].pc = "ticking" /\ loop'[p].minute = m /\ loop'[p].missed = missed
              /\ loop'[p].at \in Entry /\ loop'[p].at > i /\ m \in Due[loop'[p].at]
              /\ \A e \in Entry : e > i /\ m \in Due[e] => loop'[p].at <= e
<1> DEFINE rest == {e \in Entry : e > i /\ m \in Due[e]}
           next == CHOOSE e \in rest : \A f \in rest : e <= f
           row  == [pc |-> "ticking", minute |-> m, at |-> next,
                    seen |-> 0, missed |-> missed]
<1>0. loop \in [Process -> State] BY DEF TypeOK, State
<1>1. CASE loop' = [loop EXCEPT ![p] = Idle] BY <1>0, <1>1
<1>2. CASE rest # {} /\ loop' = [loop EXCEPT ![p] = row]
  <2>1. next \in rest /\ \A f \in rest : next <= f BY <1>2, LeastEntry
  <2> HIDE DEF next
  <2>2. loop'[p] = row BY <1>0, <1>2
  <2> QED BY <2>1, <2>2
<1> QED BY <1>1, <1>2 DEF Proceed

-----------------------------------------------------------------------------
(* The invariant *)

\* Process p alone changes its record, and not by entering a transaction.
Leaves(p) ==
    /\ loop' \in [Process -> State]
    /\ loop'[p].pc # "locked"
    /\ \A q \in Process : q # p => loop'[q] = loop[q]

\* With the run table and the history untouched, such a step keeps the invariant.
LEMMA LeavingKeeps ==
    ASSUME SchedulerInv, NEW p \in Process, Leaves(p), UNCHANGED <<last, runs>>,
           clock' \in [Server -> Minute], faults' \in 0..MaxFaults, jumps' \in 0..MaxJumps,
           fanout' \in [Server -> [Entry -> [Minute -> Nat]]]
    PROVE  SchedulerInv'
<1>1. TypeOK' BY DEF Leaves, State, SchedulerInv, TypeOK
<1>2. AtMostOncePerTick' /\ RunsRecorded' BY DEF SchedulerInv, AtMostOncePerTick, RunsRecorded
<1>3. \A q \in Process : loop'[q].pc = "locked" => loop'[q] = loop[q] BY DEF Leaves
<1>4. LockHeldOnce' BY <1>3 DEF SchedulerInv, LockHeldOnce, NameAt
<1>5. ReadIsFresh' BY <1>3 DEF SchedulerInv, ReadIsFresh, NameAt
<1> QED BY <1>1, <1>2, <1>4, <1>5 DEF SchedulerInv

\* Taking the lock: no other holder, and the row read is the current one.
LEMMA LockAndReadInv ==
    ASSUME SchedulerInv, NEW p \in Process, LockAndRead(p)
    PROVE  SchedulerInv'
<1>0. TypeOK BY DEF SchedulerInv
<1>1. loop[p] \in Ticking /\ loop \in [Process -> State]
  BY <1>0, InTick DEF LockAndRead, TypeOK, State
<1>2. NameAt(p) \in Name /\ last[NameAt(p)] \in 0..MaxMinute
  BY <1>0, <1>1 DEF NameAt, Ticking, TypeOK
<1>3. loop'[p] = [loop[p] EXCEPT !.pc = "locked", !.seen = last[NameAt(p)]]
  BY <1>1 DEF LockAndRead
<1>4. \A q \in Process : q # p => loop'[q] = loop[q]
  BY <1>1 DEF LockAndRead
<1>5. loop'[p] \in Ticking /\ loop'[p].at = loop[p].at /\ loop'[p].seen = last[NameAt(p)]
  BY <1>1, <1>2, <1>3 DEF Ticking
<1>6. loop' \in [Process -> State]
  <2>1. DOMAIN loop' = Process /\ loop' = [q \in Process |-> loop'[q]]
    BY <1>1 DEF LockAndRead
  <2> QED BY <1>1, <1>4, <1>5, <2>1 DEF State
<1>7. TypeOK' BY <1>0, <1>6 DEF TypeOK, LockAndRead, State, clocks
<1>8. AtMostOncePerTick' /\ RunsRecorded'
  BY DEF SchedulerInv, LockAndRead, AtMostOncePerTick, RunsRecorded
<1>9. NameAt(p)' = NameAt(p) /\ \A q \in Process : q # p => NameAt(q)' = NameAt(q)
  BY <1>4, <1>5 DEF NameAt
<1>10. \A q \in Process : q # p /\ loop[q].pc = "locked" => NameAt(q) # NameAt(p)
  BY DEF LockAndRead, LockFree
<1>11. LockHeldOnce' BY <1>4, <1>9, <1>10 DEF SchedulerInv, LockHeldOnce
<1>12. ReadIsFresh' BY <1>4, <1>5, <1>9 DEF SchedulerInv, ReadIsFresh, LockAndRead
<1> QED BY <1>7, <1>8, <1>11, <1>12 DEF SchedulerInv

\* A transaction that finds its minute uncovered comes after all dispatches of the name.
LEMMA FirstForMinute ==
    ASSUME SchedulerInv, NEW p \in Process, RunCommits(p)
    PROVE  /\ loop[p] \in Ticking /\ NameAt(p) \in Name
           /\ last[NameAt(p)] < loop[p].minute
           /\ runs[NameAt(p)][loop[p].minute] = 0
<1>1. loop[p] \in Ticking BY InTick DEF RunCommits, SchedulerInv
<1>2. NameAt(p) \in Name /\ loop[p].minute \in Minute BY <1>1 DEF NameAt, Ticking
<1>3. last[NameAt(p)] < loop[p].minute
  BY <1>1, <1>2 DEF RunCommits, Covered, SchedulerInv, ReadIsFresh, Ticking, Minute
<1>4. runs[NameAt(p)][loop[p].minute] \in Nat BY <1>2 DEF SchedulerInv, TypeOK
<1>5. ~(runs[NameAt(p)][loop[p].minute] > 0)
  BY <1>2, <1>3 DEF SchedulerInv, RunsRecorded, TypeOK, Minute
<1> QED BY <1>1, <1>2, <1>3, <1>4, <1>5

\* The dispatch and the recorded minute commit together.
LEMMA RunCommitsInv ==
    ASSUME SchedulerInv, NEW p \in Process, RunCommits(p)
    PROVE  SchedulerInv'
<1> DEFINE n == NameAt(p)
           m == loop[p].minute
<1>0. TypeOK BY DEF SchedulerInv
<1>1. /\ loop[p] \in Ticking /\ n \in Name /\ m \in Minute
      /\ last[n] < m /\ runs[n][m] = 0
  BY FirstForMinute DEF Ticking
<1>2. Leaves(p)
  <2>1. loop[p].missed \in SUBSET Entry BY <1>1 DEF Ticking
  <2> QED BY <1>0, <1>1, <2>1, ProceedMoves DEF RunCommits, Done, Leaves
<1>3. /\ last' = [last EXCEPT ![n] = m]
      /\ runs' = [runs EXCEPT ![n] = [runs[n] EXCEPT ![m] = 1]]
      /\ UNCHANGED <<clock, faults, jumps, fanout>>
  BY <1>1 DEF RunCommits, clocks
<1>4. last \in [Name -> 0..MaxMinute] /\ runs \in [Name -> [Minute -> Nat]]
  BY <1>0 DEF TypeOK
<1>5. \A q \in Process : loop'[q].pc = "locked" =>
        q # p /\ loop'[q] = loop[q] /\ NameAt(q) # n
  BY <1>2 DEF Leaves, SchedulerInv, LockHeldOnce, RunCommits
<1> HIDE DEF n, m
<1>6. /\ last'[n] = m /\ \A k \in Name : k # n => last'[k] = last[k]
      /\ last' \in [Name -> 0..MaxMinute]
  BY <1>1, <1>3, <1>4 DEF Minute
<1>7. /\ runs'[n][m] = 1 /\ runs' \in [Name -> [Minute -> Nat]]
      /\ \A l \in Minute : l # m => runs'[n][l] = runs[n][l]
      /\ \A k \in Name : k # n => runs'[k] = runs[k]
  BY <1>1, <1>3, <1>4
<1>8. TypeOK' BY <1>0, <1>2, <1>3, <1>6, <1>7 DEF TypeOK, Leaves, State
<1>9. AtMostOncePerTick'
  BY <1>7 DEF SchedulerInv, AtMostOncePerTick
<1>10. RunsRecorded'
  <2> SUFFICES ASSUME NEW k \in Name
               PROVE  /\ last'[k] # 0 => runs'[k][last'[k]] > 0
                      /\ \A l \in Minute : runs'[k][l] > 0 => l <= last'[k]
    BY DEF RunsRecorded
  <2>1. CASE k # n BY <1>6, <1>7, <2>1 DEF SchedulerInv, RunsRecorded
  <2>2. CASE k = n
    <3>1. \A l \in Minute : l # m /\ runs'[n][l] > 0 => l <= last[n]
      BY <1>1, <1>7 DEF SchedulerInv, RunsRecorded
    <3> QED BY <1>1, <1>4, <1>6, <1>7, <2>2, <3>1 DEF Minute
  <2> QED BY <2>1, <2>2
<1>11. LockHeldOnce' BY <1>5 DEF SchedulerInv, LockHeldOnce, NameAt
<1>12. ReadIsFresh'
  <2> SUFFICES ASSUME NEW q \in Process, loop'[q].pc = "locked"
               PROVE  loop'[q].seen = last'[NameAt(q)']
    BY DEF ReadIsFresh
  <2>1. loop'[q] = loop[q] /\ NameAt(q)' = NameAt(q) /\ NameAt(q) # n
    BY <1>5 DEF NameAt
  <2>2. NameAt(q) \in Name
    BY <1>0, <2>1, InTick DEF NameAt, Ticking
  <2> QED BY <1>6, <2>1, <2>2 DEF SchedulerInv, ReadIsFresh
<1> QED BY <1>8, <1>9, <1>10, <1>11, <1>12 DEF SchedulerInv

\* The first state: nothing dispatched, no row.
LEMMA InitInv == Init => SchedulerInv
BY DEF Init, SchedulerInv, TypeOK, AtMostOncePerTick, RunsRecorded, LockHeldOnce,
       ReadIsFresh, Minute, Idle

\* A tick beginning, ending or passing over an entry, and a process that stops.
LEMMA LeavingInv ==
    ASSUME SchedulerInv, NEW p \in Process,
           \/ Sleep(p) \/ Abort(p)
           \/ Wake(p)
           \/ \E n \in Name, m \in Minute : RunEntry(p, n, m)
           \/ AlreadyRan(p) \/ DispatchFails(p)
           \/ Crash(p)
    PROVE  SchedulerInv'
<1>0. TypeOK /\ loop \in [Process -> State] BY DEF SchedulerInv, TypeOK, State
<1>1. /\ clock \in [Server -> Minute] /\ faults \in 0..MaxFaults /\ jumps \in 0..MaxJumps
      /\ fanout \in [Server -> [Entry -> [Minute -> Nat]]]
  BY <1>0 DEF TypeOK
<1>2. Idle \in State /\ Idle.pc # "locked" BY DEF State, Idle
<1>3. CASE Sleep(p)
  <2> DEFINE past == clock[p] >= NextBoundary(p)
             row  == [pc |-> "sleeping", minute |-> NextBoundary(p), ripe |-> past]
  <2>1. row \in State /\ row.pc # "locked"
    <3>1. past \in BOOLEAN OBVIOUS
    <3>2. NextBoundary(p) \in Minute BY <1>3 DEF Sleep
    <3> HIDE DEF past
    <3>3. row \in Sleeping BY <3>1, <3>2, Zenon DEF Sleeping
    <3>4. row.pc = "sleeping" BY DEF Sleeping
    <3> QED BY <3>3, <3>4 DEF State
  <2>2. loop' = [loop EXCEPT ![p] = row] BY <1>3 DEF Sleep
  <2> HIDE DEF row
  <2>3. Leaves(p) BY <1>0, <2>1, <2>2 DEF Leaves
  <2> QED BY <1>1, <1>3, <2>3, LeavingKeeps DEF Sleep, clocks
<1>4. CASE Abort(p)
  <2>1. Leaves(p) BY <1>0, <1>2, <1>4 DEF Abort, Leaves
  <2> QED BY <1>1, <1>4, <2>1, LeavingKeeps DEF Abort, clocks
<1>5. CASE Wake(p)
  <2>0. loop[p].pc = "sleeping" /\ loop[p] \in State BY <1>0, <1>5 DEF Wake
  <2>1. loop[p] \in Sleeping /\ loop[p].minute \in Minute
    BY <2>0 DEF State, Idle, Sleeping, Ticking
  <2>2. Leaves(p) BY <1>0, <1>5, <2>1, ProceedMoves DEF Wake, Leaves
  <2>3. jumps' \in 0..MaxJumps BY <1>1, <1>5 DEF Wake
  <2> QED BY <1>1, <1>5, <2>2, <2>3, LeavingKeeps DEF Wake
<1>6. CASE \E n \in Name, m \in Minute : RunEntry(p, n, m)
  <2>1. PICK n \in Name, m \in Minute : RunEntry(p, n, m) BY <1>6
  <2> DEFINE named == {e \in Entry : NameOf[e] = n}
             first == CHOOSE e \in named : \A f \in named : e <= f
             row   == [pc |-> "ticking", minute |-> m, seen |-> 0, missed |-> {},
                       at |-> first]
  <2>2. named # {} /\ loop' = [loop EXCEPT ![p] = row] BY <2>1 DEF RunEntry
  <2>3. first \in Entry BY <2>2, LeastEntry
  <2>4. row \in State /\ row.pc # "locked"
    <3> HIDE DEF first
    <3> QED BY <2>3 DEF State, Ticking, Minute
  <2> HIDE DEF row
  <2>5. Leaves(p) BY <1>0, <2>2, <2>4 DEF Leaves
  <2> QED BY <1>1, <2>1, <2>5, LeavingKeeps DEF RunEntry, clocks
<1>7. CASE AlreadyRan(p)
  <2>1. loop[p] \in Ticking BY <1>0, <1>7, InTick DEF AlreadyRan
  <2>2. loop[p].minute \in Minute /\ loop[p].missed \in SUBSET Entry BY <2>1 DEF Ticking
  <2>3. Leaves(p) BY <1>0, <1>7, <2>2, ProceedMoves DEF AlreadyRan, Done, Leaves
  <2> QED BY <1>1, <1>7, <2>3, LeavingKeeps DEF AlreadyRan, clocks
<1>8. CASE DispatchFails(p)
  <2>1. loop[p] \in Ticking BY <1>0, <1>8, InTick DEF DispatchFails
  <2>2. /\ loop[p].minute \in Minute
        /\ loop[p].missed \cup {At(p)} \in SUBSET Entry
    BY <2>1 DEF Ticking, At
  <2>3. Leaves(p) BY <1>0, <1>8, <2>2, ProceedMoves DEF DispatchFails, Leaves
  <2>4. faults' \in 0..MaxFaults BY <1>1, <1>8 DEF DispatchFails
  <2> QED BY <1>1, <1>8, <2>3, <2>4, LeavingKeeps DEF DispatchFails, clocks
<1>9. CASE Crash(p)
  <2>1. Leaves(p) BY <1>0, <1>2, <1>9 DEF Crash, Leaves
  <2>2. faults' \in 0..MaxFaults BY <1>1, <1>9 DEF Crash
  <2> QED BY <1>1, <1>9, <2>1, <2>2, LeavingKeeps DEF Crash, clocks
<1> QED BY <1>3, <1>4, <1>5, <1>6, <1>7, <1>8, <1>9

\* A dispatch outside oneServer touches neither the run table nor its history.
LEMMA DispatchDirectInv ==
    ASSUME SchedulerInv, NEW p \in Process, DispatchDirect(p)
    PROVE  SchedulerInv'
<1>0. TypeOK BY DEF SchedulerInv
<1>1. loop[p] \in Ticking BY <1>0, InTick DEF DispatchDirect
<1>2. /\ At(p) \in Entry /\ loop[p].minute \in Minute /\ loop[p].missed \in SUBSET Entry
  BY <1>1 DEF Ticking, At
<1>3. Leaves(p) BY <1>0, <1>2, ProceedMoves DEF DispatchDirect, Done, Leaves
<1>4. fanout' \in [Server -> [Entry -> [Minute -> Nat]]]
  <2> DEFINE e == At(p)
             m == loop[p].minute
  <2>1. fanout \in [Server -> [Entry -> [Minute -> Nat]]] BY <1>0 DEF TypeOK
  <2>2. \/ fanout' = fanout
        \/ p \in Server /\ fanout' = [fanout EXCEPT ![p][e][m] = @ + 1]
    BY DEF DispatchDirect
  <2>3. e \in Entry /\ m \in Minute BY <1>2
  <2> HIDE DEF e, m
  <2>4. CASE fanout' = fanout BY <2>1, <2>4
  <2>5. CASE p \in Server /\ fanout' = [fanout EXCEPT ![p][e][m] = @ + 1]
    <3>1. fanout[p] \in [Entry -> [Minute -> Nat]] BY <2>1, <2>5
    <3>2. fanout[p][e] \in [Minute -> Nat] BY <2>3, <3>1
    <3>3. fanout[p][e][m] + 1 \in Nat BY <2>3, <3>2
    <3>4. [fanout[p][e] EXCEPT ![m] = @ + 1] \in [Minute -> Nat] BY <2>3, <3>2, <3>3
    <3>5. [fanout[p] EXCEPT ![e] = [fanout[p][e] EXCEPT ![m] = @ + 1]]
              \in [Entry -> [Minute -> Nat]]
      BY <3>1, <3>4
    <3> QED BY <2>1, <2>5, <3>5
  <2> QED BY <2>2, <2>4, <2>5
<1> QED BY <1>0, <1>3, <1>4, LeavingKeeps DEF DispatchDirect, clocks, TypeOK

\* Clocks move timers, never a transaction.
LEMMA ClockInv ==
    ASSUME SchedulerInv, NEW s \in Server, ClockAdvances(s) \/ ClockSetBack(s)
    PROVE  SchedulerInv'
<1>0. TypeOK /\ loop \in [Process -> State] BY DEF SchedulerInv, TypeOK, State
<1>1. clock[s] \in Minute /\ s \in Process BY <1>0 DEF TypeOK, Process
<1>2. clock' \in [Server -> Minute] /\ jumps' \in 0..MaxJumps
  BY <1>0, <1>1 DEF ClockAdvances, ClockSetBack, TypeOK, Minute
<1>3. \/ loop' = loop
      \/ loop[s] \in Sleeping /\ loop' = [loop EXCEPT ![s].ripe = TRUE]
  BY <1>0, <1>1 DEF ClockAdvances, ClockSetBack, State, Idle, Ticking
<1>4. CASE loop' = loop
  BY <1>0, <1>2, <1>4 DEF ClockAdvances, ClockSetBack, SchedulerInv, TypeOK,
     AtMostOncePerTick, RunsRecorded, LockHeldOnce, ReadIsFresh, NameAt
<1>5. CASE loop[s] \in Sleeping /\ loop' = [loop EXCEPT ![s].ripe = TRUE]
  <2>1. [loop[s] EXCEPT !.ripe = TRUE] \in Sleeping BY <1>5 DEF Sleeping
  <2>2. Leaves(s) BY <1>0, <1>1, <1>5, <2>1 DEF Leaves, State, Sleeping
  <2> QED BY <1>0, <1>1, <1>2, <2>2, LeavingKeeps DEF ClockAdvances, ClockSetBack, TypeOK
<1> QED BY <1>3, <1>4, <1>5

\* Every step of the fleet keeps the invariant.
LEMMA StepInv == SchedulerInv /\ [Next]_vars => SchedulerInv'
<1> SUFFICES ASSUME SchedulerInv, [Next]_vars PROVE SchedulerInv'
  OBVIOUS
<1>1. CASE \E s \in Server : Sleep(s) \/ Wake(s) \/ Abort(s)
  BY <1>1, LeavingInv DEF Process
<1>2. CASE \E s \in Server : ClockAdvances(s) \/ ClockSetBack(s)
  BY <1>2, ClockInv
<1>3. CASE \E c \in Console, n \in Name, m \in Minute : RunEntry(c, n, m)
  BY <1>3, LeavingInv DEF Process
<1>4. CASE \E p \in Process : Dispatch(p) \/ Crash(p)
  BY <1>4, LeavingInv, DispatchDirectInv, LockAndReadInv, RunCommitsInv DEF Dispatch
<1>5. CASE UNCHANGED vars
  BY <1>5 DEF vars, SchedulerInv, TypeOK, AtMostOncePerTick, RunsRecorded, LockHeldOnce,
     ReadIsFresh, NameAt
<1> QED BY <1>1, <1>2, <1>3, <1>4, <1>5 DEF Next

\* A step of the fleet changes last_run_at only by recording a later minute.
LEMMA LastGrows ==
    ASSUME SchedulerInv, [Next]_vars PROVE \A n \in Name : last'[n] >= last[n]
<1>0. \A n \in Name : last[n] \in 0..MaxMinute BY DEF SchedulerInv, TypeOK
<1>1. CASE \E p \in Process : RunCommits(p)
  <2>1. PICK p \in Process : RunCommits(p) BY <1>1
  <2>2. NameAt(p) \in Name /\ last[NameAt(p)] < loop[p].minute /\ loop[p] \in Ticking
    BY <2>1, FirstForMinute
  <2>3. last' = [last EXCEPT ![NameAt(p)] = loop[p].minute] BY <2>1 DEF RunCommits
  <2>4. last \in [Name -> 0..MaxMinute] BY DEF SchedulerInv, TypeOK
  <2>5. loop[p].minute \in Minute BY <2>2 DEF Ticking
  <2> DEFINE k == NameAt(p)
             m == loop[p].minute
  <2>6. k \in Name /\ last[k] < m /\ m \in Minute /\ last' = [last EXCEPT ![k] = m]
    BY <2>2, <2>3, <2>5
  <2> HIDE DEF k, m
  <2> QED BY <1>0, <2>4, <2>6 DEF Minute
<1>2. CASE UNCHANGED last BY <1>0, <1>2
<1>3. CASE UNCHANGED vars BY <1>0, <1>3 DEF vars
<1>4. Next => (UNCHANGED last \/ \E p \in Process : RunCommits(p))
  BY DEF Next, Sleep, Wake, Abort, ClockAdvances, ClockSetBack, RunEntry, Dispatch,
     DispatchDirect, LockAndRead, AlreadyRan, DispatchFails, Crash
<1> QED BY <1>1, <1>2, <1>3, <1>4

-----------------------------------------------------------------------------
(* Theorems *)

\* The inductive invariant: one lock holder, a fresh read, and a run table
\* that is exactly the dispatches.
THEOREM SchedulerInvariant == Spec => []SchedulerInv
<1>1. Init => SchedulerInv BY InitInv
<1>2. SchedulerInv /\ [Next]_vars => SchedulerInv' BY StepInv
<1> QED BY <1>1, <1>2, PTL DEF Spec

\* oneServer: whatever the servers, consoles, clocks, faults and crashes do, a
\* name is dispatched at most once for a minute.
THEOREM OneDispatch == Spec => []AtMostOncePerTick
<1>1. SchedulerInv => AtMostOncePerTick BY DEF SchedulerInv
<1> QED BY <1>1, SchedulerInvariant, PTL

\* The run table tells the latest minute dispatched, whoever reads it.
THEOREM Recorded == Spec => []RunsRecorded
<1>1. SchedulerInv => RunsRecorded BY DEF SchedulerInv
<1> QED BY <1>1, SchedulerInvariant, PTL

\* last_run_at never goes back: a slow clock cannot reopen a covered minute.
THEOREM NeverBack == Spec => LastRunMonotone
<1>1. ASSUME SchedulerInv, [Next]_vars PROVE [\A n \in Name : last'[n] >= last[n]]_vars
  BY <1>1, LastGrows
<1> QED BY <1>1, SchedulerInvariant, PTL DEF Spec, LastRunMonotone

-----------------------------------------------------------------------------
(* What a tick has passed is covered *)

Passed(s) ==
    loop[s].pc \in {"ticking", "locked"} =>
        \A e \in OneServer :
            e < At(s) /\ loop[s].minute \in Due[e] /\ e \notin loop[s].missed =>
                last[NameOf[e]] >= loop[s].minute

\* A server that stays at its entry, or is not in a tick, has passed nothing new.
LEMMA StillPassed ==
    ASSUME SchedulerInv, SchedulerInv', PassedIsCovered, \A n \in Name : last'[n] >= last[n], NEW s \in Server,
           loop'[s].pc \in {"ticking", "locked"} =>
               /\ loop[s].pc \in {"ticking", "locked"} /\ loop'[s].at = loop[s].at
               /\ loop'[s].minute = loop[s].minute /\ loop'[s].missed = loop[s].missed
    PROVE  Passed(s)'
<1> SUFFICES ASSUME loop'[s].pc \in {"ticking", "locked"}, NEW e \in OneServer, e < loop'[s].at,
                    loop'[s].minute \in Due[e], e \notin loop'[s].missed
             PROVE  last'[NameOf[e]] >= loop'[s].minute
  BY DEF Passed, At
<1>1. last[NameOf[e]] >= loop[s].minute BY DEF PassedIsCovered, At
<1>2. NameOf[e] \in Name BY DEF Entry
<1>3. last[NameOf[e]] \in Nat /\ last'[NameOf[e]] \in Nat /\ last'[NameOf[e]] >= last[NameOf[e]] /\ loop[s].minute \in Nat
  <2>1. loop[s] \in Ticking BY InTick DEF SchedulerInv, Process
  <2>2. loop[s].minute \in Minute BY <2>1 DEF Ticking
  <2>3. last[NameOf[e]] \in 0..MaxMinute /\ last'[NameOf[e]] \in 0..MaxMinute BY <1>2 DEF SchedulerInv, TypeOK
  <2> QED BY <1>2, <2>2, <2>3 DEF Minute
<1> QED BY <1>1, <1>3

\* A server that goes on from entry i has passed i and what it passed before.
LEMMA ProceedPassed ==
    ASSUME SchedulerInv, NEW s \in Server, NEW i \in Nat, NEW m \in Minute, NEW missed \in SUBSET Entry,
           Proceed(s, i, m, missed),
           \A e \in OneServer : e <= i /\ m \in Due[e] /\ e \notin missed => last'[NameOf[e]] >= m
    PROVE  Passed(s)'
<1> SUFFICES ASSUME loop'[s].pc \in {"ticking", "locked"}, NEW e \in OneServer, e < loop'[s].at,
                    loop'[s].minute \in Due[e], e \notin loop'[s].missed
             PROVE  last'[NameOf[e]] >= loop'[s].minute
  BY DEF Passed, At
<1>1. loop'[s] # Idle BY DEF Idle
<1>2. /\ loop'[s].minute = m /\ loop'[s].missed = missed /\ loop'[s].at \in Entry
      /\ \A f \in Entry : f > i /\ m \in Due[f] => loop'[s].at <= f
  BY <1>1, ProceedNext DEF SchedulerInv, Process
<1>3. e \in Entry /\ e \in Nat /\ loop'[s].at \in Nat BY <1>2 DEF Entry
<1>4. e <= i BY <1>2, <1>3
<1> QED BY <1>2, <1>4

\* Every step of the fleet keeps it.
LEMMA PassedStep ==
    ASSUME SchedulerInv, SchedulerInv', PassedIsCovered, [Next]_vars, NEW s \in Server PROVE Passed(s)'
<1>0. /\ TypeOK /\ s \in Process /\ loop \in [Process -> State]
      /\ \A n \in Name : last'[n] >= last[n]
  BY LastGrows DEF SchedulerInv, TypeOK, State, Process
<1>1. ASSUME loop'[s].pc \in {"ticking", "locked"} =>
               /\ loop[s].pc \in {"ticking", "locked"} /\ loop'[s].at = loop[s].at
               /\ loop'[s].minute = loop[s].minute /\ loop'[s].missed = loop[s].missed
      PROVE  Passed(s)'
  BY <1>0, <1>1, StillPassed
<1>2. ASSUME loop'[s] = loop[s] PROVE Passed(s)'
  BY <1>1, <1>2
<1>3. ASSUME loop'[s].pc \notin {"ticking", "locked"} PROVE Passed(s)'
  BY <1>3 DEF Passed
<1>4. ASSUME NEW failed \in SUBSET {At(s)}, loop[s].pc \in {"ticking", "locked"},
             Proceed(s, At(s), loop[s].minute, loop[s].missed \cup failed),
             At(s) \in OneServer /\ failed = {} => last'[NameAt(s)] >= loop[s].minute
      PROVE  Passed(s)'
  <2> DEFINE missed == loop[s].missed \cup failed
  <2>1. loop[s] \in Ticking BY <1>0, <1>4, InTick
  <2>2. At(s) \in Entry /\ At(s) \in Nat /\ loop[s].minute \in Minute /\ missed \in SUBSET Entry
    BY <2>1 DEF Ticking, At, Entry
  <2>3. /\ Proceed(s, At(s), loop[s].minute, missed) /\ loop[s].missed \subseteq missed
        /\ (At(s) \in OneServer /\ At(s) \notin missed) => last'[NameAt(s)] >= loop[s].minute
    BY <1>4
  <2> HIDE DEF missed
  <2>4. ASSUME NEW e \in OneServer, e <= At(s), loop[s].minute \in Due[e], e \notin missed
        PROVE  last'[NameOf[e]] >= loop[s].minute
    <3>1. CASE e = At(s) BY <2>3, <2>4, <3>1 DEF NameAt, At
    <3>2. CASE e < At(s)
      <4>1. last[NameOf[e]] >= loop[s].minute
        BY <1>4, <2>3, <2>4, <3>2 DEF PassedIsCovered
      <4>2. NameOf[e] \in Name /\ last[NameOf[e]] \in 0..MaxMinute /\ last'[NameOf[e]] \in 0..MaxMinute
        BY DEF Entry, SchedulerInv, TypeOK
      <4> QED BY <1>0, <2>2, <4>1, <4>2 DEF Minute
    <3> QED BY <2>2, <2>4, <3>1, <3>2 DEF Entry
  <2> QED BY <2>2, <2>3, <2>4, ProceedPassed
<1>5. ASSUME NEW p \in Process, p # s, \/ Dispatch(p) \/ Crash(p) \/ Sleep(p) \/ Wake(p) \/ Abort(p)
                                      \/ \E n \in Name, m \in Minute : RunEntry(p, n, m)
      PROVE  Passed(s)'
  <2>1. loop'[s] = loop[s]
    BY <1>0, <1>5 DEF Dispatch, Crash, Sleep, Wake, Abort, RunEntry, Proceed, Done, DispatchDirect, LockAndRead,
       AlreadyRan, RunCommits, DispatchFails
  <2> QED BY <1>2, <2>1
<1>6. ASSUME Sleep(s) \/ Abort(s) \/ Crash(s) PROVE Passed(s)'
  <2>1. loop'[s].pc \in {"idle", "sleeping"}
    BY <1>0, <1>6 DEF Sleep, Abort, Crash, Idle
  <2> QED BY <1>3, <2>1
<1>7. ASSUME Wake(s) PROVE Passed(s)'
  <2>1. loop[s] \in Sleeping /\ loop[s].minute \in Minute
    <3>1. loop[s].pc = "sleeping" /\ loop[s] \in State BY <1>0, <1>7 DEF Wake
    <3> QED BY <3>1 DEF State, Idle, Sleeping, Ticking
  <2>2. Proceed(s, 0, loop[s].minute, {}) BY <1>7 DEF Wake
  <2>3. \A e \in OneServer : ~(e <= 0) BY DEF Entry
  <2> QED BY <2>1, <2>2, <2>3, ProceedPassed
<1>8. ASSUME DispatchDirect(s) PROVE Passed(s)'
  <2>1. loop[s].pc = "ticking" /\ Proceed(s, At(s), loop[s].minute, loop[s].missed) /\ At(s) \notin OneServer
    BY <1>8 DEF DispatchDirect, Done
  <2>2. loop[s].missed = loop[s].missed \cup {}
    OBVIOUS
  <2> QED BY <1>4, <2>1, <2>2
<1>9. ASSUME LockAndRead(s) PROVE Passed(s)'
  <2>1. loop[s] \in Ticking BY <1>0, <1>9, InTick DEF LockAndRead
  <2>2. loop'[s] = [loop[s] EXCEPT !.pc = "locked", !.seen = last[NameAt(s)]]
    BY <1>0, <1>9 DEF LockAndRead
  <2>3. loop[s].pc = "ticking" BY <1>9 DEF LockAndRead
  <2> QED BY <1>1, <2>1, <2>2, <2>3 DEF Ticking
<1>10. ASSUME AlreadyRan(s) PROVE Passed(s)'
  <2>1. loop[s].pc = "locked" /\ Done(s) /\ UNCHANGED last BY <1>10 DEF AlreadyRan
  <2>2. last[NameAt(s)] >= loop[s].minute
    BY <1>0, <1>10 DEF AlreadyRan, Covered, SchedulerInv, ReadIsFresh
  <2> QED BY <1>4, <2>1, <2>2 DEF Done
<1>11. ASSUME RunCommits(s) PROVE Passed(s)'
  <2>1. loop[s].pc = "locked" /\ Done(s) /\ last' = [last EXCEPT ![NameAt(s)] = loop[s].minute]
    BY <1>11 DEF RunCommits
  <2>2. NameAt(s) \in Name /\ loop[s].minute \in Minute BY <1>0, <1>11, FirstForMinute DEF Ticking
  <2>3. last'[NameAt(s)] >= loop[s].minute BY <1>0, <2>1, <2>2 DEF TypeOK, Minute
  <2> QED BY <1>4, <2>1, <2>3 DEF Done
<1>12. ASSUME DispatchFails(s) PROVE Passed(s)'
  <2>1. loop[s].pc \in {"ticking", "locked"} /\ Proceed(s, At(s), loop[s].minute, loop[s].missed \cup {At(s)})
    BY <1>12 DEF DispatchFails
  <2>2. loop[s] \in Ticking BY <1>0, <2>1, InTick
  <2>3. loop[s].missed \cup {At(s)} \in SUBSET Entry BY <2>2 DEF Ticking, At
  <2> QED BY <1>4, <2>1, <2>3
<1>13. ASSUME NEW q \in Server, ClockAdvances(q) \/ ClockSetBack(q) PROVE Passed(s)'
  <2>1. \/ loop' = loop
        \/ loop[q].pc = "sleeping" /\ loop' = [loop EXCEPT ![q].ripe = TRUE]
    BY <1>13 DEF ClockAdvances, ClockSetBack
  <2>2. CASE loop' = loop BY <1>2, <2>2
  <2>3. CASE loop[q].pc = "sleeping" /\ loop' = [loop EXCEPT ![q].ripe = TRUE]
    <3>1. loop[q] \in Sleeping BY <1>0, <2>3 DEF State, Idle, Sleeping, Ticking, Process
    <3>2. q = s => loop'[s].pc = "sleeping" BY <1>0, <2>3, <3>1 DEF Sleeping
    <3>3. q # s => loop'[s] = loop[s] BY <1>0, <2>3
    <3> QED BY <1>2, <1>3, <3>2, <3>3
  <2> QED BY <2>1, <2>2, <2>3
<1>14. CASE UNCHANGED vars BY <1>2, <1>14 DEF vars
<1>15. ASSUME NEW c \in Console, NEW n \in Name, NEW m \in Minute, RunEntry(c, n, m) PROVE Passed(s)'
  BY <1>5, <1>15 DEF Process
<1>16. ASSUME NEW p \in Process, Dispatch(p) \/ Crash(p) PROVE Passed(s)'
  BY <1>5, <1>6, <1>8, <1>9, <1>10, <1>11, <1>12, <1>16, Zenon DEF Dispatch
<1>17. ASSUME NEW q \in Server, Sleep(q) \/ Wake(q) \/ Abort(q) PROVE Passed(s)'
  BY <1>5, <1>6, <1>7, <1>17, Zenon DEF Process
<1> QED BY <1>13, <1>14, <1>15, <1>16, <1>17, Zenon DEF Next

\* A due oneServer entry that a server's tick went past is covered, or its
\* failure was logged.
THEOREM NothingPassedOver == Spec => []PassedIsCovered
<1>1. Init => PassedIsCovered BY DEF Init, PassedIsCovered, Idle, Process
<1>2. SchedulerInv /\ SchedulerInv' /\ PassedIsCovered /\ [Next]_vars => PassedIsCovered'
  BY PassedStep DEF PassedIsCovered, Passed
<1> QED BY <1>1, <1>2, SchedulerInvariant, PTL DEF Spec

-----------------------------------------------------------------------------
(* Outside oneServer *)

FanOutInv == TimerAhead /\ FanOutBudget
Weight(P) == IF P THEN 1 ELSE 0
Within(s, e, m) == fanout[s][e][m] + Weight(Turn(s, e, m)) + Weight(Ahead(s, m)) <= 1 + jumps

\* A tick has its turn for the entries it has not passed; it comes with its timer.
LEMMA TurnOf ==
    ASSUME TypeOK, NEW s \in Server, NEW e \in Entry, NEW m \in Minute
    PROVE  /\ loop[s] = Idle => ~Turn(s, e, m)
           /\ fanout[s][e][m] \in Nat /\ jumps \in Nat /\ clock[s] \in Nat /\ m \in Nat /\ e \in Nat
           /\ loop[s].pc = "sleeping" => loop[s] \in Sleeping
           /\ loop[s].pc \in {"ticking", "locked"} => loop[s] \in Ticking /\ At(s) \in Entry
<1>1. loop[s] = Idle => ~Turn(s, e, m) BY DEF Turn, Idle
<1>2. loop[s].pc = "sleeping" => loop[s] \in Sleeping
  <2>1. loop[s] \in State BY DEF TypeOK, State, Process
  <2> QED BY <2>1 DEF State, Idle, Ticking
<1>3. loop[s].pc \in {"ticking", "locked"} => loop[s] \in Ticking /\ At(s) \in Entry
  BY InTick DEF Process, At, Ticking
<1>4. fanout[s][e][m] \in Nat /\ jumps \in Nat /\ clock[s] \in Nat /\ m \in Nat /\ e \in Nat
  <2>1. fanout[s] \in [Entry -> [Minute -> Nat]] BY DEF TypeOK
  <2>2. fanout[s][e] \in [Minute -> Nat] BY <2>1
  <2>3. fanout[s][e][m] \in Nat BY <2>2
  <2> QED BY <2>3 DEF TypeOK, Minute, Entry
<1> QED BY <1>1, <1>2, <1>3, <1>4

\* A step that gives a server no new turn and no new minute ahead.
LEMMA WithinKept ==
    ASSUME TypeOK, TypeOK', FanOutBudget, NEW s \in Server, NEW e \in Entry, NEW m \in Minute,
           fanout'[s][e][m] = fanout[s][e][m], jumps' >= jumps,
           Turn(s, e, m)' => Turn(s, e, m), Ahead(s, m)' => Ahead(s, m)
    PROVE  Within(s, e, m)'
<1>1. Within(s, e, m) BY DEF FanOutBudget, Within, Weight
<1>2. /\ fanout[s][e][m] \in Nat /\ jumps \in Nat /\ jumps' \in Nat
  BY TurnOf DEF TypeOK
<1>3. /\ Weight(Turn(s, e, m)) \in {0, 1} /\ Weight(Turn(s, e, m))' \in {0, 1}
      /\ Weight(Turn(s, e, m))' <= Weight(Turn(s, e, m))
  BY DEF Weight
<1>4. /\ Weight(Ahead(s, m)) \in {0, 1} /\ Weight(Ahead(s, m))' \in {0, 1}
      /\ Weight(Ahead(s, m))' <= Weight(Ahead(s, m))
  BY DEF Weight
<1> QED BY <1>1, <1>2, <1>3, <1>4 DEF Within

\* A jump pays for one more turn or one more minute ahead.
LEMMA WithinJump ==
    ASSUME TypeOK, TypeOK', FanOutBudget, NEW s \in Server, NEW e \in Entry, NEW m \in Minute,
           fanout'[s][e][m] = fanout[s][e][m], jumps' = jumps + 1,
           (Turn(s, e, m)' => Turn(s, e, m)) \/ (Ahead(s, m)' => Ahead(s, m))
    PROVE  Within(s, e, m)'
<1>1. Within(s, e, m) BY DEF FanOutBudget, Within, Weight
<1>2. /\ fanout[s][e][m] \in Nat /\ jumps \in Nat
  BY TurnOf
<1>3. /\ Weight(Turn(s, e, m)) \in {0, 1} /\ Weight(Turn(s, e, m))' \in {0, 1}
      /\ Weight(Ahead(s, m)) \in {0, 1} /\ Weight(Ahead(s, m))' \in {0, 1}
  BY DEF Weight
<1>4. \/ Weight(Turn(s, e, m))' <= Weight(Turn(s, e, m))
      \/ Weight(Ahead(s, m))' <= Weight(Ahead(s, m))
  BY DEF Weight
<1> QED BY <1>1, <1>2, <1>3, <1>4 DEF Within

\* Going on past entry i leaves turns for later entries of the same minute only.
LEMMA TurnPassed ==
    ASSUME TypeOK, NEW s \in Server, NEW i \in Nat, NEW k \in Minute, NEW missed \in SUBSET Entry,
           Proceed(s, i, k, missed), NEW e \in Entry, NEW m \in Minute, Turn(s, e, m)'
    PROVE  m = k /\ i < e
<1>1. loop'[s] # Idle BY DEF Turn, Idle
<1>2. /\ loop'[s].pc = "ticking" /\ loop'[s].minute = k /\ loop'[s].at \in Entry /\ loop'[s].at > i
  BY <1>1, ProceedNext DEF Process
<1>3. loop'[s].minute = m /\ loop'[s].at <= e BY <1>2 DEF Turn, At
<1> QED BY <1>2, <1>3 DEF Entry

\* Steps of other processes, and steps of the clocks of other servers.
LEMMA WithinElsewhere ==
    ASSUME TypeOK, TypeOK', FanOutBudget, NEW s \in Server, NEW e \in Entry, NEW m \in Minute,
           loop'[s] = loop[s], clock'[s] = clock[s], fanout'[s][e][m] = fanout[s][e][m], jumps' >= jumps
    PROVE  Within(s, e, m)'
<1>1. (Turn(s, e, m)' => Turn(s, e, m)) /\ (Ahead(s, m)' => Ahead(s, m)) BY DEF Turn, Ahead, At
<1> QED BY <1>1, WithinKept

\* Steps of a server that end a turn or keep the ones it has.
LEMMA WithinTick ==
    ASSUME TypeOK, TypeOK', FanOutBudget, NEW s \in Server, NEW e \in Entry, NEW m \in Minute,
           NEW k \in Minute, NEW missed \in SUBSET Entry, loop[s].pc \in {"ticking", "locked"},
           loop[s].minute = k, Proceed(s, At(s), k, missed), UNCHANGED <<clock, jumps>>,
           \/ fanout'[s][e][m] = fanout[s][e][m]
           \/ e = At(s) /\ m = k /\ fanout'[s][e][m] = fanout[s][e][m] + 1
    PROVE  Within(s, e, m)'
<1>0. At(s) \in Nat /\ e \in Nat BY TurnOf DEF Entry
<1>1. Turn(s, e, m)' => m = k /\ At(s) < e BY <1>0, TurnPassed
<1>2. (Turn(s, e, m)' => Turn(s, e, m)) /\ (Ahead(s, m)' => Ahead(s, m))
  BY <1>0, <1>1 DEF Turn, Ahead
<1>3. CASE fanout'[s][e][m] = fanout[s][e][m]
  <2>1. jumps' >= jumps BY DEF TypeOK
  <2> QED BY <1>2, <1>3, <2>1, WithinKept
<1>4. CASE e = At(s) /\ m = k /\ fanout'[s][e][m] = fanout[s][e][m] + 1
  <2>1. Turn(s, e, m) /\ ~Turn(s, e, m)'
    BY <1>0, <1>1, <1>4 DEF Turn
  <2>2. Within(s, e, m) BY DEF FanOutBudget, Within, Weight
  <2>3. Ahead(s, m)' <=> Ahead(s, m) BY DEF Ahead
  <2>4. fanout[s][e][m] \in Nat /\ jumps \in Nat BY TurnOf
  <2>5. Weight(Turn(s, e, m)) = 1 /\ Weight(Turn(s, e, m))' = 0 BY <2>1 DEF Weight
  <2>6. Weight(Ahead(s, m))' = Weight(Ahead(s, m)) /\ Weight(Ahead(s, m)) \in {0, 1} BY <2>3 DEF Weight
  <2> QED BY <1>4, <2>2, <2>4, <2>5, <2>6 DEF Within
<1> QED BY <1>3, <1>4

\* Every step of the fleet stays within the bound.
LEMMA WithinStep ==
    ASSUME SchedulerInv, SchedulerInv', FanOutInv, [Next]_vars,
           NEW s \in Server, NEW e \in Entry, NEW m \in Minute
    PROVE  Within(s, e, m)'
<1>0. /\ TypeOK /\ TypeOK' /\ FanOutBudget /\ TimerAhead /\ s \in Process /\ loop \in [Process -> State]
      /\ clock \in [Server -> Minute] /\ jumps \in Nat
  BY DEF SchedulerInv, TypeOK, FanOutInv, State, Process
<1>1. ASSUME UNCHANGED <<clock, jumps, fanout>>, loop'[s] = loop[s] PROVE Within(s, e, m)'
  BY <1>0, <1>1, WithinElsewhere
<1>2. ASSUME UNCHANGED <<clock, jumps, fanout>>, loop'[s].pc = "idle" PROVE Within(s, e, m)'
  <2>1. ~Turn(s, e, m)' BY <1>2 DEF Turn
  <2> QED BY <1>0, <1>2, <2>1, WithinKept DEF Ahead
<1>3. ASSUME NEW p \in Process, p # s, \/ Dispatch(p) \/ Crash(p) \/ Sleep(p) \/ Wake(p) \/ Abort(p)
                                      \/ \E n \in Name, k \in Minute : RunEntry(p, n, k)
      PROVE  Within(s, e, m)'
  <2>1. loop'[s] = loop[s] /\ clock' = clock
    BY <1>0, <1>3 DEF Dispatch, Crash, Sleep, Wake, Abort, RunEntry, Proceed, Done, DispatchDirect, LockAndRead,
       AlreadyRan, RunCommits, DispatchFails, clocks
  <2>2. jumps' >= jumps
    BY <1>0, <1>3 DEF Dispatch, Crash, Sleep, Wake, Abort, RunEntry, DispatchDirect, LockAndRead,
       AlreadyRan, RunCommits, DispatchFails, clocks
  <2>3. fanout'[s] = fanout[s]
    <3>1. CASE DispatchDirect(p)
      <4>1. fanout \in [Server -> [Entry -> [Minute -> Nat]]] BY <1>0 DEF TypeOK
      <4>2. \/ fanout' = fanout
            \/ \E x : fanout' = [fanout EXCEPT ![p] = x]
        BY <3>1 DEF DispatchDirect
      <4> QED BY <1>3, <4>1, <4>2
    <3>2. CASE ~DispatchDirect(p)
      BY <1>3, <3>2 DEF Dispatch, Crash, Sleep, Wake, Abort, RunEntry, LockAndRead, AlreadyRan, RunCommits, DispatchFails
    <3> QED BY <3>1, <3>2
  <2> QED BY <1>0, <2>1, <2>2, <2>3, WithinElsewhere
<1>4. ASSUME Sleep(s) PROVE Within(s, e, m)'
  <2> DEFINE row == [pc |-> "sleeping", minute |-> clock[s] + 1, ripe |-> clock[s] >= clock[s] + 1]
  <2>1. loop' = [loop EXCEPT ![s] = row] /\ UNCHANGED <<clock, jumps, fanout>>
    BY <1>4 DEF Sleep, NextBoundary, clocks
  <2>2. clock[s] \in Nat /\ m \in Nat BY <1>0, TurnOf
  <2>3. loop'[s].pc = "sleeping" /\ loop'[s].minute = clock[s] + 1 /\ ~loop'[s].ripe
    <3>1. (clock[s] >= clock[s] + 1) = FALSE BY <2>2
    <3>2. loop'[s] = row BY <1>0, <2>1
    <3>3. row = [pc |-> "sleeping", minute |-> clock[s] + 1, ripe |-> FALSE] BY <3>1, Zenon
    <3> HIDE DEF row
    <3> QED BY <3>2, <3>3
  <2>4. ~Turn(s, e, m)' BY <2>1, <2>2, <2>3 DEF Turn
  <2> QED BY <1>0, <2>1, <2>4, WithinKept DEF Ahead
<1>5. ASSUME Abort(s) \/ Crash(s) PROVE Within(s, e, m)'
  BY <1>0, <1>2, <1>5 DEF Abort, Crash, Idle, clocks
<1>6. ASSUME Wake(s) PROVE Within(s, e, m)'
  <2>1. loop[s].pc = "sleeping" /\ loop[s] \in Sleeping /\ loop[s].minute \in Minute
    BY <1>0, <1>6, TurnOf DEF Wake, Sleeping
  <2>2. Proceed(s, 0, loop[s].minute, {}) /\ UNCHANGED <<clock, fanout>> BY <1>6 DEF Wake
  <2>3. Turn(s, e, m)' => m = loop[s].minute BY <1>0, <2>1, <2>2, TurnPassed
  <2>4. CASE loop[s].ripe /\ UNCHANGED jumps
    <3>1. Turn(s, e, m)' => Turn(s, e, m) BY <2>1, <2>3, <2>4 DEF Turn
    <3> QED BY <1>0, <2>2, <2>4, <3>1, WithinKept DEF Ahead
  <2>5. CASE jumps' = jumps + 1
    BY <1>0, <2>2, <2>5, WithinJump DEF Ahead
  <2> QED BY <1>6, <2>4, <2>5 DEF Wake
<1>7. ASSUME DispatchDirect(s) PROVE Within(s, e, m)'
  <2>1. /\ loop[s].pc = "ticking" /\ Proceed(s, At(s), loop[s].minute, loop[s].missed) /\ UNCHANGED <<clock, jumps>>
        /\ fanout' = [fanout EXCEPT ![s][At(s)][loop[s].minute] = @ + 1]
    BY <1>7 DEF DispatchDirect, Done, clocks
  <2>2. loop[s] \in Ticking /\ At(s) \in Entry BY <1>0, <2>1, TurnOf
  <2>3. loop[s].minute \in Minute /\ loop[s].missed \in SUBSET Entry BY <2>2 DEF Ticking
  <2>4. \/ fanout'[s][e][m] = fanout[s][e][m]
        \/ e = At(s) /\ m = loop[s].minute /\ fanout'[s][e][m] = fanout[s][e][m] + 1
    <3> DEFINE i == At(s)
               k == loop[s].minute
    <3>1. i \in Entry /\ k \in Minute /\ fanout' = [fanout EXCEPT ![s][i][k] = @ + 1]
      BY <2>1, <2>2, <2>3
    <3> HIDE DEF i, k
    <3>2. fanout \in [Server -> [Entry -> [Minute -> Nat]]] BY <1>0 DEF TypeOK
    <3>3. fanout[s] \in [Entry -> [Minute -> Nat]] /\ fanout[s][i] \in [Minute -> Nat] BY <3>1, <3>2
    <3>4. fanout'[s] = [fanout[s] EXCEPT ![i] = [fanout[s][i] EXCEPT ![k] = @ + 1]] BY <3>1, <3>2
    <3>5. e # i => fanout'[s][e] = fanout[s][e] BY <3>3, <3>4
    <3>6. fanout'[s][i] = [fanout[s][i] EXCEPT ![k] = @ + 1] BY <3>1, <3>3, <3>4
    <3>7. m # k => fanout'[s][i][m] = fanout[s][i][m] BY <3>3, <3>6
    <3>8. fanout'[s][i][k] = fanout[s][i][k] + 1 BY <3>1, <3>3, <3>6
    <3> QED BY <3>5, <3>7, <3>8 DEF i, k
  <2> QED BY <1>0, <2>1, <2>3, <2>4, WithinTick
<1>8. ASSUME LockAndRead(s) PROVE Within(s, e, m)'
  <2>1. loop[s].pc = "ticking" /\ UNCHANGED <<clock, jumps, fanout>>
        /\ loop' = [loop EXCEPT ![s] = [loop[s] EXCEPT !.pc = "locked", !.seen = last[NameAt(s)]]]
    BY <1>0, <1>8 DEF LockAndRead, clocks
  <2>2. loop[s] \in Ticking BY <1>0, <2>1, TurnOf
  <2>3. loop'[s].pc = "locked" /\ loop'[s].at = loop[s].at /\ loop'[s].minute = loop[s].minute
    BY <1>0, <2>1, <2>2 DEF Ticking
  <2>4. Turn(s, e, m)' => Turn(s, e, m) BY <2>1, <2>3 DEF Turn, At
  <2> QED BY <1>0, <2>1, <2>4, WithinKept DEF Ahead
<1>9. ASSUME AlreadyRan(s) \/ RunCommits(s) \/ DispatchFails(s) PROVE Within(s, e, m)'
  <2>1. PICK missed \in {loop[s].missed, loop[s].missed \cup {At(s)}} :
          /\ loop[s].pc \in {"ticking", "locked"} /\ Proceed(s, At(s), loop[s].minute, missed)
          /\ UNCHANGED <<clock, jumps, fanout>>
    BY <1>9 DEF AlreadyRan, RunCommits, DispatchFails, Done, clocks
  <2>2. loop[s] \in Ticking /\ At(s) \in Entry BY <1>0, <2>1, TurnOf
  <2>3. loop[s].minute \in Minute /\ missed \in SUBSET Entry BY <2>1, <2>2 DEF Ticking
  <2> QED BY <1>0, <2>1, <2>3, WithinTick
<1>10. ASSUME NEW q \in Server, ClockAdvances(q) \/ ClockSetBack(q), q # s PROVE Within(s, e, m)'
  <2>1. loop'[s] = loop[s] /\ clock'[s] = clock[s] /\ fanout' = fanout /\ jumps' >= jumps
    BY <1>0, <1>10 DEF ClockAdvances, ClockSetBack
  <2> QED BY <1>0, <2>1, WithinElsewhere
<1>11. ASSUME ClockAdvances(s) PROVE Within(s, e, m)'
  <2>1. /\ clock'[s] = clock[s] + 1 /\ UNCHANGED <<jumps, fanout>>
        /\ loop' = IF loop[s].pc = "sleeping" THEN [loop EXCEPT ![s].ripe = TRUE] ELSE loop
    BY <1>0, <1>11 DEF ClockAdvances
  <2>2. clock[s] \in Nat /\ m \in Nat BY <1>0, TurnOf
  <2>3. Ahead(s, m)' => Ahead(s, m) BY <2>1, <2>2 DEF Ahead
  <2>4. CASE loop[s].pc = "sleeping" /\ loop[s].minute = m /\ ~Turn(s, e, m)
    <3>1. ~loop[s].ripe /\ ~(clock[s] + 1 < m) BY <2>4 DEF Turn
    <3>2. clock[s] < m BY <1>0, <2>4, <3>1 DEF TimerAhead
    <3>3. Ahead(s, m) /\ ~Ahead(s, m)' BY <2>1, <2>2, <3>1, <3>2 DEF Ahead
    <3>4. Weight(Turn(s, e, m)) = 0 /\ Weight(Turn(s, e, m))' \in {0, 1} BY <2>4 DEF Weight
    <3>5. Weight(Ahead(s, m)) = 1 /\ Weight(Ahead(s, m))' = 0 BY <3>3 DEF Weight
    <3>6. Within(s, e, m) BY <1>0 DEF FanOutBudget, Within, Weight
    <3>7. fanout[s][e][m] \in Nat BY <1>0, TurnOf
    <3> QED BY <1>0, <2>1, <3>4, <3>5, <3>6, <3>7 DEF Within
  <2>5. CASE loop[s].pc = "sleeping" /\ (loop[s].minute = m => Turn(s, e, m))
    <3>1. loop[s] \in Sleeping BY <1>0, <2>5, TurnOf
    <3>2. loop'[s].pc = "sleeping" /\ loop'[s].minute = loop[s].minute BY <1>0, <2>1, <2>5, <3>1 DEF Sleeping
    <3>3. Turn(s, e, m)' => Turn(s, e, m) BY <2>5, <3>2 DEF Turn
    <3> QED BY <1>0, <2>1, <2>3, <3>3, WithinKept
  <2>6. CASE loop[s].pc # "sleeping"
    <3>1. Turn(s, e, m)' => Turn(s, e, m) BY <2>1, <2>6 DEF Turn, At
    <3> QED BY <1>0, <2>1, <2>3, <3>1, WithinKept
  <2> QED BY <2>4, <2>5, <2>6
<1>12. ASSUME ClockSetBack(s) PROVE Within(s, e, m)'
  <2>1. clock'[s] = clock[s] - 1 /\ jumps' = jumps + 1 /\ UNCHANGED <<loop, fanout>>
    BY <1>0, <1>12 DEF ClockSetBack
  <2>2. clock[s] \in Nat /\ m \in Nat BY <1>0, TurnOf
  <2>3. CASE Ahead(s, m) BY <1>0, <2>1, <2>3, WithinJump
  <2>4. CASE ~Ahead(s, m)
    <3>1. ~(clock'[s] + 1 < m) BY <2>1, <2>2, <2>4 DEF Ahead
    <3>2. Turn(s, e, m)' => Turn(s, e, m) BY <2>1, <3>1 DEF Turn, At
    <3> QED BY <1>0, <2>1, <3>2, WithinJump
  <2> QED BY <2>3, <2>4
<1>13. CASE UNCHANGED vars BY <1>1, <1>13 DEF vars
<1>14. ASSUME NEW c \in Console, NEW n \in Name, NEW k \in Minute, RunEntry(c, n, k) PROVE Within(s, e, m)'
  BY <1>3, <1>14 DEF Process
<1>15. ASSUME NEW p \in Process, Dispatch(p) \/ Crash(p) PROVE Within(s, e, m)'
  BY <1>3, <1>5, <1>7, <1>8, <1>9, <1>15, Zenon DEF Dispatch
<1>16. ASSUME NEW q \in Server, Sleep(q) \/ Wake(q) \/ Abort(q) PROVE Within(s, e, m)'
  BY <1>3, <1>4, <1>5, <1>6, <1>16, Zenon DEF Process
<1> QED BY <1>10, <1>11, <1>12, <1>13, <1>14, <1>15, <1>16, Zenon DEF Next

\* A timer that is not due is for a minute the clock has not reached.
LEMMA TimerStep ==
    ASSUME SchedulerInv, TimerAhead, [Next]_vars, NEW s \in Server, loop'[s].pc = "sleeping"
    PROVE  loop'[s].ripe \/ clock'[s] < loop'[s].minute
<1>0. /\ TypeOK /\ s \in Process /\ loop \in [Process -> State] /\ clock \in [Server -> Minute]
      /\ clock[s] \in Nat
  BY DEF SchedulerInv, TypeOK, State, Process, Minute
<1>1. ASSUME loop'[s] = loop[s], clock'[s] = clock[s] PROVE loop'[s].ripe \/ clock'[s] < loop'[s].minute
  BY <1>1 DEF TimerAhead
<1>2. ASSUME NEW p \in Process, p # s, \/ Dispatch(p) \/ Crash(p) \/ Sleep(p) \/ Wake(p) \/ Abort(p)
                                      \/ \E n \in Name, k \in Minute : RunEntry(p, n, k)
      PROVE  loop'[s].ripe \/ clock'[s] < loop'[s].minute
  <2>1. loop'[s] = loop[s] /\ clock' = clock
    BY <1>0, <1>2 DEF Dispatch, Crash, Sleep, Wake, Abort, RunEntry, Proceed, Done, DispatchDirect, LockAndRead,
       AlreadyRan, RunCommits, DispatchFails, clocks
  <2> QED BY <1>1, <2>1
<1>3. ASSUME Sleep(s) PROVE loop'[s].ripe \/ clock'[s] < loop'[s].minute
  <2>1. loop'[s].minute = clock[s] + 1 /\ clock' = clock
    BY <1>0, <1>3 DEF Sleep, NextBoundary, clocks
  <2> QED BY <1>0, <2>1
<1>4. ~(Abort(s) \/ Crash(s)) BY <1>0 DEF Abort, Crash, Idle
<1>5. ASSUME NEW i, NEW k, NEW missed, Proceed(s, i, k, missed) PROVE FALSE
  <2>1. loop'[s].pc \in {"idle", "ticking"}
    <3> DEFINE rest == {e \in Entry : e > i /\ k \in Due[e]}
               next == CHOOSE e \in rest : \A f \in rest : e <= f
    <3>1. \/ loop' = [loop EXCEPT ![s] = Idle]
          \/ loop' = [loop EXCEPT ![s] = [pc |-> "ticking", minute |-> k, at |-> next, seen |-> 0, missed |-> missed]]
      BY <1>5 DEF Proceed
    <3> HIDE DEF next
    <3> QED BY <1>0, <3>1 DEF Idle
  <2> QED BY <2>1
<1>6. ~(Wake(s) \/ DispatchDirect(s) \/ AlreadyRan(s) \/ RunCommits(s) \/ DispatchFails(s))
  BY <1>5 DEF Wake, DispatchDirect, AlreadyRan, RunCommits, DispatchFails, Done
<1>7. ~LockAndRead(s)
  <2> SUFFICES ASSUME LockAndRead(s) PROVE FALSE OBVIOUS
  <2>1. loop[s] \in Ticking BY <1>0, InTick DEF LockAndRead
  <2>2. loop'[s] = [loop[s] EXCEPT !.pc = "locked", !.seen = last[NameAt(s)]] BY <1>0 DEF LockAndRead
  <2> QED BY <2>1, <2>2 DEF Ticking
<1>8. ASSUME NEW q \in Server, ClockAdvances(q) \/ ClockSetBack(q) PROVE loop'[s].ripe \/ clock'[s] < loop'[s].minute
  <2>1. CASE q # s BY <1>0, <1>1, <1>8, <2>1 DEF ClockAdvances, ClockSetBack
  <2>2. CASE ClockAdvances(s)
    <3>1. CASE loop[s].pc = "sleeping"
      <4>1. loop[s] \in Sleeping /\ loop' = [loop EXCEPT ![s].ripe = TRUE]
        BY <1>0, <2>2, <3>1 DEF ClockAdvances, State, Idle, Ticking
      <4>2. loop'[s].ripe BY <1>0, <4>1 DEF Sleeping
      <4> QED BY <4>2
    <3>2. CASE loop[s].pc # "sleeping" BY <2>2, <3>2 DEF ClockAdvances
    <3> QED BY <3>1, <3>2
  <2>3. CASE ClockSetBack(s)
    <3>1. loop' = loop /\ clock'[s] = clock[s] - 1 BY <1>0, <2>3 DEF ClockSetBack
    <3>2. CASE ~loop[s].ripe
      <4>1. clock[s] < loop[s].minute BY <3>1, <3>2 DEF TimerAhead
      <4>2. loop[s] \in Sleeping BY <1>0, <3>1 DEF State, Idle, Ticking
      <4>3. loop[s].minute \in Nat BY <4>2 DEF Sleeping, Minute
      <4> QED BY <1>0, <3>1, <4>1, <4>3
    <3> QED BY <3>1, <3>2
  <2> QED BY <1>8, <2>1, <2>2, <2>3
<1>9. CASE UNCHANGED vars BY <1>1, <1>9 DEF vars
<1>10. ASSUME NEW c \in Console, NEW n \in Name, NEW k \in Minute, RunEntry(c, n, k)
       PROVE  loop'[s].ripe \/ clock'[s] < loop'[s].minute
  BY <1>2, <1>10 DEF Process
<1>11. ASSUME NEW p \in Process, Dispatch(p) \/ Crash(p) PROVE loop'[s].ripe \/ clock'[s] < loop'[s].minute
  BY <1>2, <1>4, <1>6, <1>7, <1>11, Zenon DEF Dispatch
<1>12. ASSUME NEW q \in Server, Sleep(q) \/ Wake(q) \/ Abort(q) PROVE loop'[s].ripe \/ clock'[s] < loop'[s].minute
  BY <1>2, <1>3, <1>4, <1>6, <1>12, Zenon DEF Process
<1> QED BY <1>8, <1>9, <1>10, <1>11, <1>12, Zenon DEF Next

\* Without oneServer a server dispatches an entry once for a minute, and once
\* more for every time its clock was set back or its timer was early.
THEOREM DirectOncePerMinute == Spec => []FanOutOnce
<1>1. Init => FanOutInv
  <2> SUFFICES ASSUME Init PROVE FanOutInv OBVIOUS
  <2>1. TimerAhead BY DEF Init, TimerAhead, Idle, Process
  <2>2. ASSUME NEW s \in Server, NEW e \in Entry, NEW m \in Minute PROVE Within(s, e, m)
    <3>1. ~Turn(s, e, m) BY DEF Init, Turn, Idle, Process
    <3>2. fanout[s][e][m] = 0 /\ jumps = 0 BY DEF Init
    <3> QED BY <3>1, <3>2 DEF Within, Weight
  <2> QED BY <2>1, <2>2 DEF FanOutInv, FanOutBudget, Within, Weight
<1>2. SchedulerInv /\ SchedulerInv' /\ FanOutInv /\ [Next]_vars => FanOutInv'
  <2> SUFFICES ASSUME SchedulerInv, SchedulerInv', FanOutInv, [Next]_vars PROVE FanOutInv' OBVIOUS
  <2>1. TimerAhead' BY TimerStep DEF FanOutInv, TimerAhead
  <2>2. FanOutBudget'
    <3>1. \A s \in Server, e \in Entry, m \in Minute : Within(s, e, m)' BY WithinStep
    <3> QED BY <3>1 DEF FanOutBudget, Within, Weight
  <2> QED BY <2>1, <2>2 DEF FanOutInv
<1>3. SchedulerInv /\ FanOutInv => FanOutOnce
  <2> SUFFICES ASSUME SchedulerInv, FanOutInv, NEW s \in Server, NEW e \in Entry, NEW m \in Minute
               PROVE  fanout[s][e][m] <= 1 + jumps
    BY DEF FanOutOnce
  <2>1. fanout[s][e][m] \in Nat /\ jumps \in Nat BY TurnOf DEF SchedulerInv
  <2>2. Within(s, e, m) BY DEF FanOutInv, FanOutBudget, Within, Weight
  <2>3. Weight(Turn(s, e, m)) \in {0, 1} /\ Weight(Ahead(s, m)) \in {0, 1} BY DEF Weight
  <2> QED BY <2>1, <2>2, <2>3 DEF Within
<1> QED BY <1>1, <1>2, <1>3, SchedulerInvariant, PTL DEF Spec
=============================================================================
