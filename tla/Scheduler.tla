----------------------------- MODULE Scheduler -----------------------------
(***************************************************************************)
(* The cron scheduler of packages/queue.  Every server of a fleet runs the  *)
(* minute loop of Scheduler.run over the same entries; scheduler:run calls  *)
(* runEntry from a console.  An entry that is not oneServer is dispatched   *)
(* by every server.  A oneServer entry is dispatched inside withLock: one   *)
(* transaction takes the advisory lock of the entry's name, reads           *)
(* strav_scheduler_runs.last_run_at, and dispatches and records the minute  *)
(* unless the minute is covered.                                            *)
(*                                                                         *)
(* Each server has a wall clock of its own, in whole minutes, which other   *)
(* clocks do not constrain, and a console may show any minute.  A clock may *)
(* be set back, and a timer may fire while the wall clock still shows the   *)
(* minute before; MaxJumps bounds both.  A commit whose answer is lost      *)
(* leaves the state of one whose answer arrives, so DispatchFails is the    *)
(* rollback alone.                                                          *)
(***************************************************************************)
EXTENDS Naturals, FiniteSets

CONSTANTS
    Server,      \* processes in Scheduler.run
    Console,     \* processes that call runEntry
    Name,        \* names of entries: lock keys and rows of the run table
    NumEntries,  \* registered entries, in the order of schedule()
    NameOf,      \* [Entry -> Name]: options.name ?? job.jobName
    OneServer,   \* the entries with oneServer: true
    Due,         \* [Entry -> SUBSET Minute]: cron.matches
    MaxMinute,   \* bound: minutes on a clock
    MaxFaults,   \* bound: dispatches that throw, and processes that die in one
    MaxJumps     \* bound: clocks set back and timers that fire early

Entry == 1..NumEntries
Minute == 1..MaxMinute
Process == Server \cup Console

ASSUME SchedulerAssumption ==
    /\ Server \cap Console = {}
    /\ NumEntries \in Nat
    /\ NameOf \in [Entry -> Name]
    /\ OneServer \subseteq Entry
    /\ Due \in [Entry -> SUBSET Minute]
    /\ MaxMinute \in Nat \ {0}
    /\ MaxFaults \in Nat /\ MaxJumps \in Nat

VARIABLES
    clock,    \* each server's wall clock, floored to the minute
    loop,     \* each process: where it is in run, tick, runEntry
    last,     \* strav_scheduler_runs.last_run_at by name; 0: no row
    faults,   \* dispatches that threw and processes that died so far
    jumps,    \* clocks set back and early timers so far
    runs,     \* history: committed oneServer dispatches per name and minute
    fanout    \* history: other dispatches per server, entry and minute

clocks == <<clock, jumps>>
vars == <<clock, loop, last, faults, jumps, runs, fanout>>

Idle == [pc |-> "idle"]
Sleeping == [pc : {"sleeping"}, minute : Minute, ripe : BOOLEAN]
\* "ticking": about to dispatch entry at; "locked": in its transaction, having
\* read last_run_at; missed: entries whose failure this tick logged (history).
Ticking == [pc : {"ticking", "locked"}, minute : Minute, at : Entry,
            seen : 0..MaxMinute, missed : SUBSET Entry]

-----------------------------------------------------------------------------
(* The loop *)

\* Mutation of NextBoundary: the floor of now.
CurrentBoundary(s) == clock[s]

\* nextMinuteBoundary(new Date())
NextBoundary(s) == clock[s] + 1

\* What tick does after entry i: the next matching entry, or back to the loop;
\* runEntry has one entry only.
Proceed(p, i, m, missed) ==
    LET rest == {e \in Entry : e > i /\ m \in Due[e]} IN
    IF p \in Console \/ rest = {} THEN loop' = [loop EXCEPT ![p] = Idle]
    ELSE LET next == CHOOSE e \in rest : \A f \in rest : e <= f IN
         loop' = [loop EXCEPT ![p] = [pc |-> "ticking", minute |-> m, at |-> next,
                                      seen |-> 0, missed |-> missed]]

At(p) == loop[p].at
NameAt(p) == NameOf[loop[p].at]
Done(p) == Proceed(p, At(p), loop[p].minute, loop[p].missed)

\* An iteration of run, the first after a start included; a boundary already
\* past would not be slept for.
Sleep(s) ==
    /\ loop[s] = Idle
    /\ NextBoundary(s) \in Minute
    /\ loop' = [loop EXCEPT ![s] = [pc |-> "sleeping", minute |-> NextBoundary(s),
                                     ripe |-> clock[s] >= NextBoundary(s)]]
    /\ UNCHANGED <<clocks, last, faults, runs, fanout>>

\* The timer fires: tick(nextBoundary).
Wake(s) ==
    /\ loop[s].pc = "sleeping"
    /\ \/ loop[s].ripe /\ UNCHANGED jumps
       \/ ~loop[s].ripe /\ jumps < MaxJumps /\ jumps' = jumps + 1
    /\ Proceed(s, 0, loop[s].minute, {})
    /\ UNCHANGED <<clock, last, faults, runs, fanout>>

\* signal.abort() ends the sleep and the loop; a tick in progress is finished.
Abort(s) ==
    /\ loop[s].pc = "sleeping"
    /\ loop' = [loop EXCEPT ![s] = Idle]
    /\ UNCHANGED <<clocks, last, faults, runs, fanout>>

\* runEntry(name): the first entry of that name, at the minute m of the console.
RunEntry(c, n, m) ==
    LET named == {e \in Entry : NameOf[e] = n} IN
    /\ loop[c] = Idle
    /\ named # {}
    /\ loop' = [loop EXCEPT ![c] =
            [pc |-> "ticking", minute |-> m, seen |-> 0, missed |-> {},
             at |-> CHOOSE e \in named : \A f \in named : e <= f]]
    /\ UNCHANGED <<clocks, last, faults, runs, fanout>>

-----------------------------------------------------------------------------
(* Dispatching an entry *)

\* Entries that are not oneServer: queue.dispatch outside any transaction.
DispatchDirect(p) ==
    /\ loop[p].pc = "ticking"
    /\ At(p) \notin OneServer
    /\ Done(p)
    /\ fanout' = IF p \in Server
                 THEN [fanout EXCEPT ![p][At(p)][loop[p].minute] = @ + 1] ELSE fanout
    /\ UNCHANGED <<clocks, last, faults, runs>>

\* Mutation of LockFree: a lock the process holds alone.
LockIgnored(n) == TRUE

\* pg_advisory_xact_lock(hashtext('scheduler:' || name))
LockFree(n) == \A q \in Process : loop[q].pc = "locked" => NameAt(q) # n

\* withLock opens the transaction, waits for the lock, then reads last_run_at.
LockAndRead(p) ==
    /\ loop[p].pc = "ticking"
    /\ At(p) \in OneServer
    /\ LockFree(NameAt(p))
    /\ loop' = [loop EXCEPT ![p].pc = "locked", ![p].seen = last[NameAt(p)]]
    /\ UNCHANGED <<clocks, last, faults, runs, fanout>>

\* Mutation of Covered: only the very same minute counts as covered.
CoveredExactly(seen, m) == seen = m

\* Mutation of Covered: off by one.
CoveredEarly(seen, m) == seen + 1 >= m

\* last !== null && last.last_run_at >= tickBoundary (no row reads as 0)
Covered(seen, m) == seen >= m

\* Mutation of AlreadyRan: the server tries the entry again.
AlreadyRanRetries(p) ==
    /\ loop[p].pc = "locked"
    /\ Covered(loop[p].seen, loop[p].minute)
    /\ loop' = [loop EXCEPT ![p].pc = "ticking"]
    /\ UNCHANGED <<clocks, last, faults, runs, fanout>>

\* Another server won this minute: the callback returns, an empty commit.
AlreadyRan(p) ==
    /\ loop[p].pc = "locked"
    /\ Covered(loop[p].seen, loop[p].minute)
    /\ Done(p)
    /\ UNCHANGED <<clocks, last, faults, runs, fanout>>

\* Mutation of RunCommits: the dispatch without the upsert.
RunUnrecorded(p) ==
    /\ loop[p].pc = "locked"
    /\ ~Covered(loop[p].seen, loop[p].minute)
    /\ runs' = [runs EXCEPT ![NameAt(p)][loop[p].minute] = @ + 1]
    /\ Done(p)
    /\ UNCHANGED <<clocks, last, faults, fanout>>

\* The INSERT of the job and the UPSERT of last_run_at commit together.
RunCommits(p) ==
    /\ loop[p].pc = "locked"
    /\ ~Covered(loop[p].seen, loop[p].minute)
    /\ last' = [last EXCEPT ![NameAt(p)] = loop[p].minute]
    /\ runs' = [runs EXCEPT ![NameAt(p)][loop[p].minute] = @ + 1]
    /\ Done(p)
    /\ UNCHANGED <<clocks, faults, fanout>>

\* Anything throws: the transaction rolls back; tick logs and goes on, runEntry throws.
DispatchFails(p) ==
    /\ loop[p].pc \in {"ticking", "locked"}
    /\ faults < MaxFaults
    /\ faults' = faults + 1
    /\ Proceed(p, At(p), loop[p].minute, loop[p].missed \cup {At(p)})
    /\ UNCHANGED <<clocks, last, runs, fanout>>

-----------------------------------------------------------------------------
(* The environment *)

\* The process dies; Postgres rolls its transaction back and frees the lock.
\* (Death while it sleeps leaves what Abort leaves.)
Crash(p) ==
    /\ loop[p].pc \in {"ticking", "locked"}
    /\ faults < MaxFaults
    /\ faults' = faults + 1
    /\ loop' = [loop EXCEPT ![p] = Idle]
    /\ UNCHANGED <<clocks, last, runs, fanout>>

\* A minute passes on s's clock: a timer set before is due.
ClockAdvances(s) ==
    /\ clock[s] < MaxMinute
    /\ clock' = [clock EXCEPT ![s] = @ + 1]
    /\ loop' = IF loop[s].pc = "sleeping" THEN [loop EXCEPT ![s].ripe = TRUE] ELSE loop
    /\ UNCHANGED <<last, faults, jumps, runs, fanout>>

ClockSetBack(s) ==
    /\ clock[s] > 1
    /\ jumps < MaxJumps
    /\ jumps' = jumps + 1
    /\ clock' = [clock EXCEPT ![s] = @ - 1]
    /\ UNCHANGED <<loop, last, faults, runs, fanout>>

-----------------------------------------------------------------------------
Init ==
    /\ clock = [s \in Server |-> 1]
    /\ loop = [p \in Process |-> Idle]
    /\ last = [n \in Name |-> 0]
    /\ faults = 0 /\ jumps = 0
    /\ runs = [n \in Name |-> [m \in Minute |-> 0]]
    /\ fanout = [s \in Server |-> [e \in Entry |-> [m \in Minute |-> 0]]]

Dispatch(p) ==
    \/ DispatchDirect(p) \/ LockAndRead(p) \/ AlreadyRan(p)
    \/ RunCommits(p) \/ DispatchFails(p)

Next ==
    \/ \E s \in Server : Sleep(s) \/ Wake(s) \/ Abort(s) \/ ClockAdvances(s) \/ ClockSetBack(s)
    \/ \E c \in Console, n \in Name, m \in Minute : RunEntry(c, n, m)
    \/ \E p \in Process : Dispatch(p) \/ Crash(p)

Spec == Init /\ [][Next]_vars

\* Postgres grants an advisory lock in the order of the requests, so a process
\* that asks for it again and again gets it; every other statement returns.
Fairness ==
    \A p \in Process :
        /\ SF_vars(LockAndRead(p))
        /\ WF_vars(DispatchDirect(p) \/ AlreadyRan(p) \/ RunCommits(p))

FairSpec == Spec /\ Fairness

-----------------------------------------------------------------------------
(* Properties *)

\* Rows, clocks and program counters stay in their domains.
TypeOK ==
    /\ clock \in [Server -> Minute]
    /\ loop \in [Process -> {Idle} \cup Sleeping \cup Ticking]
    /\ last \in [Name -> 0..MaxMinute]
    /\ faults \in 0..MaxFaults /\ jumps \in 0..MaxJumps
    /\ runs \in [Name -> [Minute -> Nat]]
    /\ fanout \in [Server -> [Entry -> [Minute -> Nat]]]

\* A oneServer name is dispatched at most once for a minute, whatever servers,
\* consoles, clocks, faults and crashes do.
AtMostOncePerTick == \A n \in Name, m \in Minute : runs[n][m] <= 1

\* The run table is exactly the dispatches: last_run_at is the latest minute
\* for which the name's job was written.
RunsRecorded ==
    \A n \in Name :
        /\ last[n] # 0 => runs[n][last[n]] > 0
        /\ \A m \in Minute : runs[n][m] > 0 => m <= last[n]

\* A server that went past a due oneServer entry in its tick left it covered,
\* unless it logged a failure: nobody can be waiting for that minute any more.
PassedIsCovered ==
    \A s \in Server : loop[s].pc \in {"ticking", "locked"} =>
        \A e \in OneServer :
            e < At(s) /\ loop[s].minute \in Due[e] /\ e \notin loop[s].missed =>
                last[NameOf[e]] >= loop[s].minute

\* Outside oneServer a server dispatches an entry once per minute: again only
\* when its clock was set back or its timer was early.
FanOutOnce ==
    \A s \in Server, e \in Entry, m \in Minute : fanout[s][e][m] <= 1 + jumps

\* last_run_at never goes back, so no slower clock reopens a covered minute.
LastRunMonotone == [][\A n \in Name : last'[n] >= last[n]]_vars

\* Every tick ends: the locks of the fleet starve and deadlock no server.
TickEnds ==
    \A s \in Server : loop[s].pc \in {"ticking", "locked"} ~> loop[s] = Idle

\* What the locked transaction read is still what the table says.
ReadIsFresh == \A p \in Process : loop[p].pc = "locked" => loop[p].seen = last[NameAt(p)]

\* One holder of a name's advisory lock.
LockHeldOnce ==
    \A p, q \in Process :
        loop[p].pc = "locked" /\ loop[q].pc = "locked" /\ NameAt(p) = NameAt(q) => p = q

\* Why FanOutOnce holds: what a server dispatched for a minute and what it may
\* still dispatch without a jump are within the bound.  It may when its tick of the
\* minute has not passed the entry, or its timer for it is due although the clock
\* has not arrived (Turn), and when the minute is still ahead of its clock (Ahead).
Turn(s, e, m) ==
    \/ loop[s].pc \in {"ticking", "locked"} /\ loop[s].minute = m /\ At(s) <= e
    \/ loop[s].pc = "sleeping" /\ loop[s].minute = m /\ (loop[s].ripe \/ clock[s] + 1 < m)
Ahead(s, m) == clock[s] < m
TimerAhead ==
    \A s \in Server : loop[s].pc = "sleeping" => loop[s].ripe \/ clock[s] < loop[s].minute
FanOutBudget ==
    \A s \in Server, e \in Entry, m \in Minute :
        fanout[s][e][m] + (IF Turn(s, e, m) THEN 1 ELSE 0) + (IF Ahead(s, m) THEN 1 ELSE 0) <= 1 + jumps

\* The inductive invariant of SchedulerProofs.
SchedulerInv == TypeOK /\ AtMostOncePerTick /\ RunsRecorded /\ LockHeldOnce /\ ReadIsFresh
=============================================================================
