-------------------------- MODULE PostgresBroadcaster --------------------------
(***************************************************************************)
(* One process of the polled broadcast backplane (postgres_broadcaster.ts): *)
(* publishers anywhere insert rows whose ids come from a sequence and       *)
(* become visible in any order, subscribers start the poller, the retention *)
(* sweep deletes rows, and the process closes.  What becomes of a row that  *)
(* was handed to a local subscription is MemoryBroadcaster's.  An event is  *)
(* its row's id, and there is one channel: channels share only the cursor.  *)
(* A call is cut where the code awaits.                                     *)
(***************************************************************************)
EXTENDS Naturals, FiniteSets

CONSTANTS
    Subscriber,
    BatchLimit,     \* LIMIT of the poll query (1000 in the code)
    MaxId           \* bound: events published

VARIABLES
    nextId,     \* the sequence behind the primary key
    inserting,  \* ids handed out to INSERTs that have not committed
    table,      \* committed rows
    lastId, cursorPrimed,
    pollTimer,  \* undefined ("none") or the loop that armed it last
    cleanup,    \* cleanupTimer is set
    closed,     \* "open", then close() is waiting for a poll, then "closed"
    inFlight,   \* pollInFlight: "none" or a loop
    awaited,    \* the poll close() waits for
    starter,    \* ensurePoller() of each subscribe(): [pc, max]
    loop,       \* the poll loop each starter started: [pc, after, rows]
    sub,        \* local subscriptions: [state, last, disorder]
    owed        \* history: rows committed in time for a subscriber and not delivered yet

poller == <<lastId, cursorPrimed, pollTimer, cleanup, inFlight, starter, loop>>
database == <<nextId, inserting, table>>
vars == <<poller, database, closed, awaited, sub, owed>>

Ids == 1..MaxId
None == "none"
Quiet == [pc |-> "none", max |-> 0]
Off == [pc |-> "off", after |-> 0, rows |-> {}]
Fresh == [state |-> "new", last |-> 0, disorder |-> FALSE]

TypeOK ==
    /\ nextId \in 1..(MaxId + 1) /\ inserting \subseteq Ids /\ table \subseteq Ids
    /\ lastId \in 0..MaxId /\ cursorPrimed \in BOOLEAN /\ cleanup \in BOOLEAN
    /\ pollTimer \in Subscriber \cup {None} /\ inFlight \in Subscriber \cup {None}
    /\ awaited \in Subscriber \cup {None} /\ closed \in {"open", "closing", "closed"}
    /\ starter \in [Subscriber -> [pc : {"none", "query", "answer", "start"}, max : 0..MaxId]]
    /\ loop \in [Subscriber -> [pc : {"off", "timer", "query", "fan"}, after : 0..MaxId, rows : SUBSET Ids]]
    /\ sub \in [Subscriber -> [state : {"new", "open", "closed"}, last : 0..MaxId, disorder : BOOLEAN]]
    /\ owed \in [Subscriber -> SUBSET Ids]

Init ==
    /\ nextId = 1 /\ inserting = {} /\ table = {}
    /\ lastId = 0 /\ cursorPrimed = FALSE /\ pollTimer = None /\ cleanup = FALSE
    /\ closed = "open" /\ inFlight = None /\ awaited = None
    /\ starter = [s \in Subscriber |-> Quiet]
    /\ loop = [s \in Subscriber |-> Off]
    /\ sub = [s \in Subscriber |-> Fresh]
    /\ owed = [s \in Subscriber |-> {}]

(* ---------------------- publishers and the ledger table ------------------ *)
\* The INSERT takes an id; other INSERTs may commit before it does.
Publish ==
    /\ nextId <= MaxId
    /\ nextId' = nextId + 1
    /\ inserting' = inserting \cup {nextId}
    /\ UNCHANGED <<poller, table, closed, awaited, sub, owed>>

\* What the queries of this process have returned or have asked past.
Read == {lastId} \cup UNION {{loop[s].after} \cup loop[s].rows : s \in Subscriber}
Priming == \E s \in Subscriber : starter[s].pc \in {"query", "answer"}

\* A row is owed to the subscribers there are when it commits, unless the
\* cursor is still being primed or a query has gone past its id.
InsertCommits(i) ==
    /\ i \in inserting
    /\ inserting' = inserting \ {i}
    /\ table' = table \cup {i}
    /\ owed' = [s \in Subscriber |->
          IF sub[s].state = "open" /\ cursorPrimed /\ ~Priming /\ \A j \in Read : j < i
          THEN owed[s] \cup {i} ELSE owed[s]]
    /\ UNCHANGED <<poller, nextId, closed, awaited, sub>>

\* A failed INSERT: its id is never used.
InsertFails(i) ==
    /\ i \in inserting
    /\ inserting' = inserting \ {i}
    /\ UNCHANGED <<poller, nextId, table, closed, awaited, sub, owed>>

\* sweepOnce, here or in another process.  A row outlives retentionSeconds only
\* after the poll loops, a thousand times faster, have read past it.
Sweep ==
    /\ \E i \in table : i <= lastId
    /\ \A s \in Subscriber : loop[s].rows = {}
    /\ table' = {i \in table : i > lastId}
    /\ UNCHANGED <<poller, nextId, inserting, closed, awaited, sub, owed>>

(* --------------------------- the local fan-out --------------------------- *)
\* local.publish() to one subscription; disorder remembers an id that came again
\* or late.
Delivered(b, i) ==
    IF b.state # "open" THEN b
    ELSE [b EXCEPT !.last = i, !.disorder = @ \/ i <= b.last]

Detached == [Fresh EXCEPT !.state = "closed"]

\* unsubscribe() or return() of the iterator.
Unsubscribe(s) ==
    /\ sub[s].state = "open"
    /\ sub' = [sub EXCEPT ![s] = Detached]
    /\ owed' = [owed EXCEPT ![s] = {}]
    /\ UNCHANGED <<poller, database, closed, awaited>>

(* ------------------------ subscribe and the poller ------------------------ *)
\* Mutation of Running: close() forgets to set the flag.
RunningAlways == TRUE
\* this.closed, as the starting and the polling loop test it.
Running == closed = "open"

\* subscribe() registers locally and runs ensurePoller() up to its first await.
\* (A subscription made after close() has returned is left out: nothing ends it.)
Subscribe(s) ==
    /\ sub[s].state = "new"
    /\ closed # "closed"
    /\ sub' = [sub EXCEPT ![s].state = "open"]
    /\ starter' = IF ~Running \/ pollTimer # None THEN starter
                  ELSE [starter EXCEPT ![s].pc = IF cursorPrimed THEN "start" ELSE "query"]
    /\ UNCHANGED <<database, lastId, cursorPrimed, pollTimer, cleanup, inFlight, loop, closed,
                   awaited, owed>>

\* Postgres evaluates MAX(id); of an empty table the cursor is 0.
MaxEvaluated(s) ==
    /\ starter[s].pc = "query"
    /\ \E i \in table \cup {0} :
        /\ \A j \in table : j <= i
        /\ starter' = [starter EXCEPT ![s] = [pc |-> "answer", max |-> i]]
    /\ UNCHANGED <<database, lastId, cursorPrimed, pollTimer, cleanup, inFlight, loop, closed,
                   awaited, sub, owed>>

\* primeCursor() returns; it does not look again whether the cursor is primed.
CursorPrimed(s) ==
    /\ starter[s].pc = "answer"
    /\ lastId' = starter[s].max
    /\ cursorPrimed' = TRUE
    /\ starter' = [starter EXCEPT ![s] = [Quiet EXCEPT !.pc = "start"]]
    /\ UNCHANGED <<database, pollTimer, cleanup, inFlight, loop, closed, awaited, sub, owed>>

\* startPollLoop(), which looks at closed, then startCleanupLoop(), which does not.
StartLoops(s) ==
    /\ starter[s].pc = "start"
    /\ starter' = [starter EXCEPT ![s] = Quiet]
    /\ IF Running
       THEN loop' = [loop EXCEPT ![s].pc = "timer"] /\ pollTimer' = s
       ELSE UNCHANGED <<loop, pollTimer>>
    /\ cleanup' = TRUE
    /\ UNCHANGED <<database, lastId, cursorPrimed, inFlight, closed, awaited, sub, owed>>

\* The timer fires: the poll is issued with the cursor as it is now.
Tick(s) ==
    /\ loop[s].pc = "timer"
    /\ IF Running
       THEN /\ loop' = [loop EXCEPT ![s] = [pc |-> "query", after |-> lastId, rows |-> {}]]
            /\ inFlight' = s
       ELSE loop' = [loop EXCEPT ![s] = Off] /\ UNCHANGED inFlight
    /\ UNCHANGED <<database, lastId, cursorPrimed, pollTimer, cleanup, starter, closed, awaited,
                   sub, owed>>

\* The rows after the cursor, no more than the limit and the oldest ones.
Selected(after) == {i \in table : i > after}
Batch(after) == {i \in Selected(after) : Cardinality({j \in Selected(after) : j <= i}) <= BatchLimit}

RowsSelected(s) ==
    /\ loop[s].pc = "query"
    /\ loop' = [loop EXCEPT ![s] = [pc |-> "fan", after |-> 0, rows |-> Batch(loop[s].after)]]
    /\ UNCHANGED <<database, lastId, cursorPrimed, pollTimer, cleanup, inFlight, starter, closed,
                   awaited, sub, owed>>

\* An error is swallowed; the loop goes on as after an empty answer.
PollFails(s) ==
    /\ loop[s].pc = "query"
    /\ loop' = [loop EXCEPT ![s] = [Off EXCEPT !.pc = "fan"]]
    /\ UNCHANGED <<database, lastId, cursorPrimed, pollTimer, cleanup, inFlight, starter, closed,
                   awaited, sub, owed>>

\* Mutation of CursorAfter: the cursor jumps to the end of the batch's ids.
CursorAtSequence(i) == nextId - 1
CursorAfter(i) == i

\* One row, the oldest: the cursor moves, the subscribers get it, the loop awaits.
FanOut(s) ==
    /\ loop[s].pc = "fan"
    /\ \E i \in loop[s].rows :
        /\ \A j \in loop[s].rows : i <= j
        /\ lastId' = CursorAfter(i)
        /\ sub' = [x \in Subscriber |-> Delivered(sub[x], i)]
        /\ owed' = [x \in Subscriber |-> owed[x] \ {i}]
        /\ loop' = [loop EXCEPT ![s].rows = @ \ {i}]
    /\ UNCHANGED <<database, cursorPrimed, pollTimer, cleanup, inFlight, starter, closed, awaited>>

\* The poll is over: the loop re-arms its timer unless close() was called.
PollEnds(s) ==
    /\ loop[s].pc = "fan"
    /\ loop[s].rows = {}
    /\ inFlight' = None
    /\ IF Running
       THEN loop' = [loop EXCEPT ![s] = [Off EXCEPT !.pc = "timer"]] /\ pollTimer' = s
       ELSE loop' = [loop EXCEPT ![s] = Off] /\ UNCHANGED pollTimer
    /\ awaited' = IF awaited = s THEN None ELSE awaited
    /\ UNCHANGED <<database, lastId, cursorPrimed, cleanup, starter, closed, sub, owed>>

(* --------------------------------- close --------------------------------- *)
\* close() clears the timers it knows and waits for the poll it knows.
Close ==
    /\ closed = "open"
    /\ closed' = "closing"
    /\ awaited' = inFlight
    /\ loop' = [s \in Subscriber |->
          IF s = pollTimer /\ loop[s].pc = "timer" THEN Off ELSE loop[s]]
    /\ pollTimer' = None
    /\ cleanup' = FALSE
    /\ UNCHANGED <<database, lastId, cursorPrimed, inFlight, starter, sub, owed>>

CloseLocal ==
    /\ closed = "closing"
    /\ awaited = None
    /\ closed' = "closed"
    /\ sub' = [s \in Subscriber |-> IF sub[s].state = "open" THEN Detached ELSE sub[s]]
    /\ owed' = [s \in Subscriber |-> {}]
    /\ UNCHANGED <<poller, database, awaited>>

Starting(s) == MaxEvaluated(s) \/ CursorPrimed(s) \/ StartLoops(s)
Polling(s) == Tick(s) \/ RowsSelected(s) \/ FanOut(s) \/ PollEnds(s)

Next ==
    \/ Publish \/ Sweep \/ Close \/ CloseLocal
    \/ \E i \in Ids : InsertCommits(i) \/ InsertFails(i)
    \/ \E s \in Subscriber :
        \/ Subscribe(s) \/ Unsubscribe(s)
        \/ Starting(s) \/ Polling(s) \/ PollFails(s)

Spec == Init /\ [][Next]_vars

\* Timers fire, queries return, and a query that is tried again and again is
\* answered; callers need not do anything.
Fairness ==
    /\ WF_vars(CloseLocal)
    /\ \A s \in Subscriber :
        WF_vars(Starting(s)) /\ WF_vars(Polling(s)) /\ SF_vars(RowsSelected(s))

(* ------------------------------- properties ------------------------------- *)
\* A row that was committed in time is never passed over: until its subscriber
\* has got it, it is in the table and ahead of the cursor, whatever other loops,
\* failures, starts of the poller and the sweep do (pollOnce, primeCursor).
OwedIsAhead == \A s \in Subscriber : \A i \in owed[s] : i \in table /\ i > lastId

Loops == {s \in Subscriber : loop[s].pc # "off"}
Started == Loops \cup {s \in Subscriber : starter[s].pc # "none"}

\* As long as a single subscribe() has started the poller, every subscriber gets
\* every row at most once and in the order of the ids, although rows commit in
\* any other order.
OneLoopInOrder ==
    closed = "open" /\ (\A x, y \in Started : x = y) => \A s \in Subscriber : ~sub[s].disorder

\* The types, and the two invariants above.
BroadcastInv == TypeOK /\ OwedIsAhead /\ OneLoopInOrder

\* close() always returns, and no poll loop survives it, also one whose timer it
\* did not know of.
CloseSettles == closed # "open" ~> (closed = "closed" /\ Loops = {})

\* A row owed to a subscriber reaches it, unless the subscriber or the process
\* goes away first.
OwedArrives == \A s \in Subscriber : \A i \in Ids : i \in owed[s] ~> i \notin owed[s]
================================================================================
