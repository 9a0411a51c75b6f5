----------------------- MODULE PostgresBroadcasterProofs -----------------------
(***************************************************************************)
(* BroadcastInv for any number of subscribers, events and batch sizes.  Two  *)
(* inductive invariants, one per promise.                                    *)
(*                                                                         *)
(* Nothing is passed over: a row that is owed is ahead of the cursor and of  *)
(* every query under way, and a batch that reaches as far as the row holds   *)
(* it, because a batch is the oldest rows of the table (Ahead).             *)
(*                                                                         *)
(* In order: while one loop has been started, its rows are ahead of the      *)
(* cursor, and no subscriber has got an id above it (OneReader).             *)
(***************************************************************************)
EXTENDS PostgresBroadcaster, FiniteSetTheorems, TLAPS

\* The bounds the theorems need; every instance of the module has them.
Bounds == MaxId \in Nat /\ BatchLimit \in Nat

\* What the starters, the loops and the subscriptions are.
Starter == [pc : {"none", "query", "answer", "start"}, max : 0..MaxId]
Loop == [pc : {"off", "timer", "query", "fan"}, after : 0..MaxId, rows : SUBSET Ids]
Sub == [state : {"new", "open", "closed"}, last : 0..MaxId, disorder : BOOLEAN]

\* What keeps an owed row reachable.
Ahead ==
    \A s \in Subscriber : \A i \in owed[s] :
        /\ cursorPrimed /\ ~Priming
        /\ i \in table /\ i > lastId
        /\ \A x \in Subscriber :
            /\ loop[x].pc = "query" => loop[x].after < i
            /\ \A j \in loop[x].rows : j >= i => i \in loop[x].rows

\* A subscribe() starts at most one loop, and a
\* subscription that was not made has neither started nor got anything.
StartsOnce ==
    \A s \in Subscriber :
        /\ starter[s].pc # "none" => loop[s].pc = "off"
        /\ starter[s].pc # "none" \/ loop[s].pc # "off" => sub[s].state # "new"
        /\ loop[s].pc # "fan" => loop[s].rows = {}

Alone == \A x, y \in Started : x = y

\* What keeps the ids of a single reader in order.
OneReader ==
    closed = "open" =>
        /\ Loops = {} => \A s \in Subscriber : sub[s].last = 0 /\ ~sub[s].disorder
        /\ Alone => \A s \in Subscriber :
            /\ ~sub[s].disorder /\ sub[s].last <= lastId
            /\ loop[s].pc = "query" => loop[s].after = lastId
            /\ \A i \in loop[s].rows : i > lastId

ReaderInv == TypeOK /\ Ahead /\ StartsOnce /\ OneReader

(* -------------------------------- batches -------------------------------- *)
\* A batch is rows of the table after the cursor, and with a row it has every older one.
LEMMA BatchIsOldest ==
    ASSUME Bounds, TypeOK, NEW a \in 0..MaxId
    PROVE  /\ Batch(a) \subseteq table /\ Batch(a) \in SUBSET Ids
           /\ \A i \in Batch(a) : i > a
           /\ \A i \in table, j \in Batch(a) : i > a /\ i <= j => i \in Batch(a)
<1>1. table \subseteq Ids /\ Ids \subseteq Nat /\ IsFiniteSet(Ids)
  <2>1. table \subseteq Ids /\ Ids \subseteq Nat
    BY DEF Bounds, TypeOK, Ids
  <2>2. 1 \in Int /\ MaxId \in Int
    BY DEF Bounds
  <2>3. IsFiniteSet(1..MaxId)
    BY <2>2, FS_Interval
  <2> QED BY <2>1, <2>3 DEF Ids
<1>2. ASSUME NEW i \in table, NEW j \in Batch(a), i > a, i <= j PROVE i \in Batch(a)
  <2> DEFINE Upto(k) == {m \in Selected(a) : m <= k}
  <2>0. i \in Nat /\ j \in Nat /\ j \in Selected(a)
    BY <1>1 DEF Batch, Selected
  <2>1. Upto(i) \subseteq Upto(j) /\ Upto(j) \subseteq Ids
    <3>1. \A m \in Selected(a) : m \in Ids /\ m \in Nat
      BY <1>1 DEF Selected
    <3>2. \A m \in Selected(a) : m <= i => m <= j
      BY <1>2, <2>0, <3>1
    <3> QED BY <3>1, <3>2
  <2>2. IsFiniteSet(Upto(j))
    BY <1>1, <2>1, FS_Subset
  <2>3. IsFiniteSet(Upto(i)) /\ Cardinality(Upto(i)) <= Cardinality(Upto(j))
    BY <2>1, <2>2, FS_Subset
  <2>4. Cardinality(Upto(i)) \in Nat /\ Cardinality(Upto(j)) \in Nat
    BY <2>2, <2>3, FS_CardinalityType
  <2>5. Cardinality(Upto(j)) <= BatchLimit
    BY DEF Batch
  <2>6. Cardinality(Upto(i)) <= BatchLimit
    BY <2>3, <2>4, <2>5 DEF Bounds
  <2> QED BY <1>2, <2>6 DEF Batch, Selected
<1>3. Batch(a) \subseteq table /\ \A i \in Batch(a) : i > a
  BY DEF Batch, Selected
<1> QED BY <1>1, <1>2, <1>3

(* --------------------------------- types --------------------------------- *)
\* The types hold in the initial state.
LEMMA InitTypes == ASSUME Bounds, Init PROVE TypeOK
<1> USE DEF Bounds
<1>1. Quiet \in [pc : {"none", "query", "answer", "start"}, max : 0..MaxId]
  BY DEF Quiet
<1>2. Off \in [pc : {"off", "timer", "query", "fan"}, after : 0..MaxId, rows : SUBSET Ids]
  BY DEF Off
<1>3. Fresh \in [state : {"new", "open", "closed"}, last : 0..MaxId, disorder : BOOLEAN]
  BY DEF Fresh
<1>4. nextId \in 1..(MaxId + 1) /\ inserting \subseteq Ids /\ table \subseteq Ids /\ lastId \in 0..MaxId
  BY DEF Init
<1>5. /\ starter \in [Subscriber -> [pc : {"none", "query", "answer", "start"}, max : 0..MaxId]]
      /\ loop \in [Subscriber -> [pc : {"off", "timer", "query", "fan"}, after : 0..MaxId, rows : SUBSET Ids]]
      /\ sub \in [Subscriber -> [state : {"new", "open", "closed"}, last : 0..MaxId, disorder : BOOLEAN]]
      /\ owed \in [Subscriber -> SUBSET Ids]
  BY <1>1, <1>2, <1>3 DEF Init
<1> QED BY <1>4, <1>5 DEF Init, TypeOK

\* Every step keeps the types.
LEMMA StepTypes == ASSUME Bounds, TypeOK, [Next]_vars PROVE TypeOK'
<1>0. /\ MaxId \in Nat /\ lastId \in 0..MaxId /\ nextId \in 1..(MaxId + 1) /\ table \subseteq Ids /\ inserting \subseteq Ids
      /\ starter \in [Subscriber -> Starter] /\ loop \in [Subscriber -> Loop] /\ sub \in [Subscriber -> Sub]
      /\ owed \in [Subscriber -> SUBSET Ids]
  BY DEF Bounds, TypeOK, Starter, Loop, Sub
<1>1. Quiet \in Starter /\ Off \in Loop /\ Fresh \in Sub /\ Detached \in Sub
  <2>1. Quiet \in Starter
    BY <1>0 DEF Starter, Quiet
  <2>2. Off \in Loop
    BY <1>0 DEF Loop, Off
  <2>3. Fresh \in Sub
    BY <1>0 DEF Sub, Fresh
  <2>4. Detached \in Sub
    BY <2>3 DEF Sub, Detached
  <2> QED BY <2>1, <2>2, <2>3, <2>4
<1>2. \A b \in Sub, i \in Ids : Delivered(b, i) \in Sub
  <2> SUFFICES ASSUME NEW b \in Sub, NEW i \in Ids PROVE Delivered(b, i) \in Sub
    OBVIOUS
  <2>1. i \in 0..MaxId
    BY <1>0 DEF Ids
  <2>2. (b.disorder \/ i <= b.last) \in BOOLEAN
    BY DEF Sub
  <2> QED BY <2>1, <2>2 DEF Delivered, Sub
<1>3. ASSUME Publish PROVE TypeOK'
  BY <1>0, <1>3 DEF Publish, TypeOK, poller, Ids
<1>4. ASSUME Sweep PROVE TypeOK'
  BY <1>0, <1>4 DEF Sweep, TypeOK, poller
<1>5. ASSUME Close PROVE TypeOK'
  <2>1. loop' \in [Subscriber -> Loop]
    BY <1>0, <1>1, <1>5 DEF Close
  <2> QED BY <1>5, <2>1 DEF Close, TypeOK, database, None, Loop
<1>6. ASSUME CloseLocal PROVE TypeOK'
  <2>1. sub' \in [Subscriber -> Sub]
    BY <1>0, <1>1, <1>6 DEF CloseLocal
  <2> QED BY <1>6, <2>1 DEF CloseLocal, TypeOK, database, poller, Sub
<1>7. ASSUME NEW i \in Ids, InsertCommits(i) PROVE TypeOK'
  <2>1. owed' \in [Subscriber -> SUBSET Ids]
    BY <1>0, <1>7 DEF InsertCommits
  <2> QED BY <1>7, <2>1 DEF InsertCommits, TypeOK, poller
<1>8. ASSUME NEW i \in Ids, InsertFails(i) PROVE TypeOK'
  BY <1>8 DEF InsertFails, TypeOK, poller
<1>9. ASSUME NEW s \in Subscriber, Subscribe(s) PROVE TypeOK'
  <2>1. sub' \in [Subscriber -> Sub]
    BY <1>0, <1>9 DEF Subscribe, Sub
  <2>2. starter' \in [Subscriber -> Starter]
    BY <1>0, <1>9 DEF Subscribe, Starter
  <2> QED BY <1>9, <2>1, <2>2 DEF Subscribe, TypeOK, database, Sub, Starter
<1>10. ASSUME NEW s \in Subscriber, Unsubscribe(s) PROVE TypeOK'
  <2>1. sub' \in [Subscriber -> Sub] /\ owed' \in [Subscriber -> SUBSET Ids]
    BY <1>0, <1>1, <1>10 DEF Unsubscribe
  <2> QED BY <1>10, <2>1 DEF Unsubscribe, TypeOK, database, poller, Sub
<1>11. ASSUME NEW s \in Subscriber, MaxEvaluated(s) PROVE TypeOK'
  <2>1. PICK i \in table \cup {0} : starter' = [starter EXCEPT ![s] = [pc |-> "answer", max |-> i]]
    BY <1>11 DEF MaxEvaluated
  <2>2. [pc |-> "answer", max |-> i] \in Starter
    BY <1>0 DEF Starter, Ids
  <2>3. starter' \in [Subscriber -> Starter]
    BY <1>0, <2>1, <2>2
  <2> QED BY <1>11, <2>3 DEF MaxEvaluated, TypeOK, database, Starter
<1>12. ASSUME NEW s \in Subscriber, CursorPrimed(s) PROVE TypeOK'
  <2>1. starter' \in [Subscriber -> Starter] /\ lastId' \in 0..MaxId
    BY <1>0, <1>12 DEF CursorPrimed, Quiet, Starter
  <2> QED BY <1>12, <2>1 DEF CursorPrimed, TypeOK, database, Starter
<1>13. ASSUME NEW s \in Subscriber, StartLoops(s) PROVE TypeOK'
  <2>1. starter' \in [Subscriber -> Starter]
    BY <1>0, <1>1, <1>13 DEF StartLoops
  <2>2. loop' \in [Subscriber -> Loop]
    BY <1>0, <1>13 DEF StartLoops, Loop
  <2>3. pollTimer' \in Subscriber \cup {None}
    BY <1>13 DEF StartLoops, TypeOK
  <2> QED BY <1>13, <2>1, <2>2, <2>3 DEF StartLoops, TypeOK, database, Starter, Loop
<1>14. ASSUME NEW s \in Subscriber, Tick(s) PROVE TypeOK'
  <2>1. loop' \in [Subscriber -> Loop]
    BY <1>0, <1>1, <1>14 DEF Tick, Loop
  <2>2. inFlight' \in Subscriber \cup {None}
    BY <1>14 DEF Tick, TypeOK
  <2> QED BY <1>14, <2>1, <2>2 DEF Tick, TypeOK, database, Loop
<1>15. ASSUME NEW s \in Subscriber, RowsSelected(s) PROVE TypeOK'
  <2>1. Batch(loop[s].after) \in SUBSET Ids
    BY <1>0, BatchIsOldest DEF Loop
  <2>2. [pc |-> "fan", after |-> 0, rows |-> Batch(loop[s].after)] \in Loop
    BY <1>0, <2>1 DEF Loop
  <2>3. loop' \in [Subscriber -> Loop]
    BY <1>0, <1>15, <2>2 DEF RowsSelected
  <2> QED BY <1>15, <2>3 DEF RowsSelected, TypeOK, database, Loop
<1>16. ASSUME NEW s \in Subscriber, PollFails(s) PROVE TypeOK'
  <2>1. loop' \in [Subscriber -> Loop]
    BY <1>0, <1>16 DEF PollFails, Loop, Off
  <2> QED BY <1>16, <2>1 DEF PollFails, TypeOK, database, Loop
<1>17. ASSUME NEW s \in Subscriber, FanOut(s) PROVE TypeOK'
  <2>1. PICK i \in loop[s].rows : /\ lastId' = CursorAfter(i) /\ sub' = [x \in Subscriber |-> Delivered(sub[x], i)]
                                  /\ owed' = [x \in Subscriber |-> owed[x] \ {i}]
                                  /\ loop' = [loop EXCEPT ![s].rows = @ \ {i}]
    BY <1>17 DEF FanOut
  <2>2. i \in Ids
    BY <1>0 DEF Loop
  <2>3. lastId' \in 0..MaxId /\ sub' \in [Subscriber -> Sub] /\ owed' \in [Subscriber -> SUBSET Ids]
    BY <1>0, <1>2, <2>1, <2>2 DEF CursorAfter, Ids
  <2>4. loop' \in [Subscriber -> Loop]
    BY <1>0, <2>1 DEF Loop
  <2> QED BY <1>17, <2>3, <2>4 DEF FanOut, TypeOK, database, Loop, Sub
<1>18. ASSUME NEW s \in Subscriber, PollEnds(s) PROVE TypeOK'
  <2>1. loop' \in [Subscriber -> Loop]
    BY <1>0, <1>1, <1>18 DEF PollEnds, Loop, Off
  <2>2. pollTimer' \in Subscriber \cup {None} /\ awaited' \in Subscriber \cup {None} /\ inFlight' \in Subscriber \cup {None}
    BY <1>18 DEF PollEnds, TypeOK
  <2> QED BY <1>18, <2>1, <2>2 DEF PollEnds, TypeOK, database, Loop
<1>19. ASSUME UNCHANGED vars PROVE TypeOK'
  BY <1>19 DEF vars, poller, database, TypeOK
<1> QED
  BY <1>3, <1>4, <1>5, <1>6, <1>7, <1>8, <1>9, <1>10, <1>11, <1>12, <1>13, <1>14, <1>15, <1>16, <1>17, <1>18, <1>19
     DEF Next, Starting, Polling

(* --------------------------- nothing passed over -------------------------- *)
\* A step that reads nothing of the table and owes nothing new: what is owed stays
\* reachable when the table keeps the rows after the cursor and no starter begins to
\* prime a cursor that is primed.
LEMMA AheadKept ==
    ASSUME Ahead, \A s \in Subscriber : owed'[s] \subseteq owed[s],
           cursorPrimed => cursorPrimed' /\ lastId' = lastId /\ (Priming' => Priming),
           \A i \in table : i > lastId => i \in table',
           \A x \in Subscriber :
              /\ loop'[x].pc = "query" => loop'[x].after = lastId \/ (loop[x].pc = "query" /\ loop'[x].after = loop[x].after)
              /\ loop'[x].rows = loop[x].rows \/ loop'[x].rows = {}
    PROVE  Ahead'
<1> SUFFICES ASSUME NEW s \in Subscriber, NEW i \in owed'[s]
             PROVE  /\ cursorPrimed' /\ ~Priming'
                    /\ i \in table' /\ i > lastId'
                    /\ \A x \in Subscriber :
                        /\ loop'[x].pc = "query" => loop'[x].after < i
                        /\ \A j \in loop'[x].rows : j >= i => i \in loop'[x].rows
  BY DEF Ahead
<1>1. /\ cursorPrimed /\ ~Priming /\ i \in table /\ i > lastId
      /\ \A x \in Subscriber :
          /\ loop[x].pc = "query" => loop[x].after < i
          /\ \A j \in loop[x].rows : j >= i => i \in loop[x].rows
  BY DEF Ahead
<1>2. cursorPrimed' /\ ~Priming' /\ i \in table' /\ i > lastId'
  BY <1>1
<1>3. ASSUME NEW x \in Subscriber PROVE /\ loop'[x].pc = "query" => loop'[x].after < i
                                        /\ \A j \in loop'[x].rows : j >= i => i \in loop'[x].rows
  BY <1>1
<1> QED BY <1>2, <1>3

\* Every step keeps what is owed ahead.
LEMMA StepAhead == ASSUME Bounds, TypeOK, Ahead, StartsOnce, [Next]_vars PROVE Ahead'
<1>0. /\ MaxId \in Nat /\ lastId \in Nat /\ table \subseteq Nat /\ Ids \subseteq Nat
      /\ starter \in [Subscriber -> Starter] /\ loop \in [Subscriber -> Loop] /\ owed \in [Subscriber -> SUBSET Ids]
  BY DEF Bounds, TypeOK, Starter, Loop, Ids
<1>1. ASSUME UNCHANGED <<lastId, cursorPrimed, starter, loop, owed>>, table \subseteq table' PROVE Ahead'
  BY <1>1, AheadKept DEF Priming
<1>3. ASSUME Publish PROVE Ahead'
  BY <1>1, <1>3 DEF Publish, poller
<1>4. ASSUME Sweep PROVE Ahead'
  BY <1>4, AheadKept DEF Sweep, poller, Priming
<1>5. ASSUME Close PROVE Ahead'
  <2>1. \A x \in Subscriber : loop'[x] = loop[x] \/ loop'[x] = Off
    BY <1>5 DEF Close
  <2> QED BY <1>5, <2>1, AheadKept DEF Close, Priming, Off, database
<1>6. ASSUME CloseLocal PROVE Ahead'
  BY <1>6, AheadKept DEF CloseLocal, poller, database, Priming
<1>7. ASSUME NEW i \in Ids, InsertCommits(i) PROVE Ahead'
  <2> SUFFICES ASSUME NEW s \in Subscriber, NEW k \in owed'[s]
               PROVE  /\ cursorPrimed /\ ~Priming
                      /\ k \in table' /\ k > lastId
                      /\ \A x \in Subscriber :
                          /\ loop[x].pc = "query" => loop[x].after < k
                          /\ \A j \in loop[x].rows : j >= k => k \in loop[x].rows
    BY <1>7 DEF InsertCommits, poller, Ahead, Priming
  <2>1. table' = table \cup {i}
    BY <1>7 DEF InsertCommits
  <2>2. CASE k \in owed[s]
    BY <2>1, <2>2 DEF Ahead
  <2>3. CASE k \notin owed[s]
    <3>1. k = i /\ cursorPrimed /\ ~Priming /\ \A j \in Read : j < i
      BY <1>0, <1>7, <2>3 DEF InsertCommits
    <3>2. lastId < i /\ \A x \in Subscriber : loop[x].after < i /\ \A j \in loop[x].rows : j < i
      BY <3>1 DEF Read
    <3>3. \A x \in Subscriber : loop[x].rows \subseteq Nat
      BY <1>0 DEF Loop
    <3>4. \A x \in Subscriber : \A j \in loop[x].rows : ~(j >= i)
      BY <1>0, <3>2, <3>3
    <3> QED BY <1>0, <2>1, <3>1, <3>2, <3>4
  <2> QED BY <2>2, <2>3
<1>8. ASSUME NEW i \in Ids, InsertFails(i) PROVE Ahead'
  BY <1>1, <1>8 DEF InsertFails, poller
<1>9. ASSUME NEW s \in Subscriber, Subscribe(s) PROVE Ahead'
  <2>1. cursorPrimed => (Priming' => Priming)
    BY <1>0, <1>9 DEF Subscribe, Priming, Starter
  <2> QED BY <1>9, <2>1, AheadKept DEF Subscribe, database
<1>10. ASSUME NEW s \in Subscriber, Unsubscribe(s) PROVE Ahead'
  <2>1. \A x \in Subscriber : owed'[x] \subseteq owed[x]
    BY <1>0, <1>10 DEF Unsubscribe
  <2> QED BY <1>10, <2>1, AheadKept DEF Unsubscribe, poller, database, Priming
<1>11. ASSUME NEW s \in Subscriber, MaxEvaluated(s) PROVE Ahead'
  <2>1. Priming
    BY <1>11 DEF MaxEvaluated, Priming
  <2> QED BY <1>11, <2>1, AheadKept DEF MaxEvaluated, database
<1>12. ASSUME NEW s \in Subscriber, CursorPrimed(s) PROVE Ahead'
  <2>1. Priming /\ \A x \in Subscriber : owed[x] = {}
    BY <1>0, <1>12 DEF CursorPrimed, Priming, Ahead
  <2>2. \A x \in Subscriber : owed'[x] = {}
    BY <1>12, <2>1 DEF CursorPrimed
  <2> QED BY <2>2 DEF Ahead
<1>13. ASSUME NEW s \in Subscriber, StartLoops(s) PROVE Ahead'
  <2>1. Priming' => Priming
    BY <1>0, <1>13 DEF StartLoops, Priming, Quiet
  <2>2. \A x \in Subscriber : loop'[x].rows = loop[x].rows /\ (loop'[x].pc = "query" => loop[x].pc = "query" /\ loop'[x].after = loop[x].after)
    BY <1>0, <1>13 DEF StartLoops, Loop
  <2> QED BY <1>13, <2>1, <2>2, AheadKept DEF StartLoops, database
<1>14. ASSUME NEW s \in Subscriber, Tick(s) PROVE Ahead'
  <2>1. \A x \in Subscriber : loop'[x] = loop[x] \/ loop'[x] = Off \/ loop'[x] = [pc |-> "query", after |-> lastId, rows |-> {}]
    BY <1>0, <1>14 DEF Tick
  <2> QED BY <1>14, <2>1, AheadKept DEF Tick, Off, database, Priming
<1>15. ASSUME NEW s \in Subscriber, RowsSelected(s) PROVE Ahead'
  <2> SUFFICES ASSUME NEW q \in Subscriber, NEW i \in owed[q], NEW x \in Subscriber
               PROVE  /\ loop'[x].pc = "query" => loop'[x].after < i
                      /\ \A j \in loop'[x].rows : j >= i => i \in loop'[x].rows
    BY <1>15 DEF RowsSelected, Ahead, database, Priming
  <2>1. CASE x # s
    BY <1>0, <1>15, <2>1 DEF RowsSelected, Ahead
  <2>2. CASE x = s
    <3>1. loop[s].pc = "query" /\ loop[s].after < i /\ i \in table /\ loop[s].after \in 0..MaxId
      BY <1>0, <1>15 DEF RowsSelected, Ahead, Loop
    <3>2. loop'[s].pc = "fan" /\ loop'[s].rows = Batch(loop[s].after)
      BY <1>0, <1>15 DEF RowsSelected
    <3>3. ASSUME NEW j \in Batch(loop[s].after), j >= i PROVE i \in Batch(loop[s].after)
      <4>1. i > loop[s].after /\ i <= j
        BY <1>0, <3>1, <3>3, BatchIsOldest
      <4> QED BY <3>1, <4>1, BatchIsOldest
    <3> QED BY <2>2, <3>2, <3>3
  <2> QED BY <2>1, <2>2
<1>16. ASSUME NEW s \in Subscriber, PollFails(s) PROVE Ahead'
  <2>1. \A x \in Subscriber : loop'[x] = loop[x] \/ loop'[x] = [Off EXCEPT !.pc = "fan"]
    BY <1>0, <1>16 DEF PollFails
  <2> QED BY <1>16, <2>1, AheadKept DEF PollFails, Off, database, Priming
<1>17. ASSUME NEW s \in Subscriber, FanOut(s) PROVE Ahead'
  <2>1. PICK h \in loop[s].rows : /\ \A j \in loop[s].rows : h <= j
                                  /\ lastId' = h /\ owed' = [x \in Subscriber |-> owed[x] \ {h}]
                                  /\ loop' = [loop EXCEPT ![s].rows = @ \ {h}]
    BY <1>17 DEF FanOut, CursorAfter
  <2>2. h \in Nat /\ loop[s].rows \subseteq Nat
    BY <1>0 DEF Loop
  <2> SUFFICES ASSUME NEW q \in Subscriber, NEW i \in owed[q], i # h
               PROVE  /\ cursorPrimed /\ ~Priming /\ i \in table /\ i > h
                      /\ \A x \in Subscriber :
                          /\ loop'[x].pc = "query" => loop'[x].after < i
                          /\ \A j \in loop'[x].rows : j >= i => i \in loop'[x].rows
    BY <1>17, <2>1 DEF FanOut, Ahead, database, Priming
  <2>3. /\ cursorPrimed /\ ~Priming /\ i \in table
        /\ \A x \in Subscriber :
            /\ loop[x].pc = "query" => loop[x].after < i
            /\ \A j \in loop[x].rows : j >= i => i \in loop[x].rows
    BY DEF Ahead
  <2>4. i \in Nat
    BY <1>0, <2>3
  <2>5. i > h
    BY <2>1, <2>2, <2>3, <2>4
  <2>6. \A x \in Subscriber : loop'[x].pc = loop[x].pc /\ loop'[x].after = loop[x].after
                              /\ loop'[x].rows = IF x = s THEN loop[s].rows \ {h} ELSE loop[x].rows
    BY <1>0, <2>1 DEF Loop
  <2> QED BY <2>3, <2>5, <2>6
<1>18. ASSUME NEW s \in Subscriber, PollEnds(s) PROVE Ahead'
  <2>1. \A x \in Subscriber : loop'[x] = loop[x] \/ loop'[x] = Off \/ loop'[x] = [Off EXCEPT !.pc = "timer"]
    BY <1>0, <1>18 DEF PollEnds
  <2> QED BY <1>18, <2>1, AheadKept DEF PollEnds, Off, database, Priming
<1>19. ASSUME UNCHANGED vars PROVE Ahead'
  BY <1>1, <1>19 DEF vars, poller, database
<1> QED
  BY <1>3, <1>4, <1>5, <1>6, <1>7, <1>8, <1>9, <1>10, <1>11, <1>12, <1>13, <1>14, <1>15, <1>16, <1>17, <1>18, <1>19
     DEF Next, Starting, Polling

(* ------------------------------ one reader ------------------------------- *)
\* Every step keeps that a subscribe() starts at most one loop.
LEMMA StepStarts == ASSUME Bounds, TypeOK, StartsOnce, [Next]_vars PROVE StartsOnce'
<1>0. /\ starter \in [Subscriber -> Starter] /\ loop \in [Subscriber -> Loop] /\ sub \in [Subscriber -> Sub]
  BY DEF TypeOK, Starter, Loop, Sub
<1>1. ASSUME UNCHANGED <<starter, loop>>, \A s \in Subscriber : sub'[s].state = "new" => sub[s].state = "new" PROVE StartsOnce'
  BY <1>1 DEF StartsOnce
<1>2. ASSUME UNCHANGED sub, NEW s \in Subscriber, \A x \in Subscriber \ {s} : starter'[x] = starter[x] /\ loop'[x] = loop[x],
             sub[s].state # "new", starter'[s].pc # "none" => loop'[s].pc = "off", loop'[s].pc # "fan" => loop'[s].rows = {}
      PROVE  StartsOnce'
  BY <1>2 DEF StartsOnce
<1>3. ASSUME Publish \/ Sweep \/ (\E i \in Ids : InsertCommits(i) \/ InsertFails(i)) \/ UNCHANGED vars PROVE StartsOnce'
  BY <1>1, <1>3 DEF Publish, Sweep, InsertCommits, InsertFails, vars, poller
<1>5. ASSUME Close PROVE StartsOnce'
  <2>1. \A x \in Subscriber : loop'[x] = loop[x] \/ loop'[x] = Off
    BY <1>5 DEF Close
  <2> QED BY <1>5, <2>1 DEF Close, StartsOnce, Off
<1>6. ASSUME CloseLocal PROVE StartsOnce'
  BY <1>0, <1>1, <1>6 DEF CloseLocal, poller, Detached, Fresh
<1>9. ASSUME NEW s \in Subscriber, Subscribe(s) PROVE StartsOnce'
  <2>1. \A x \in Subscriber \ {s} : starter'[x] = starter[x] /\ sub'[x] = sub[x]
    BY <1>0, <1>9 DEF Subscribe
  <2>2. sub'[s].state = "open" /\ loop[s].pc = "off" /\ loop' = loop
    BY <1>0, <1>9 DEF Subscribe, StartsOnce, Sub
  <2> QED BY <2>1, <2>2 DEF StartsOnce
<1>10. ASSUME NEW s \in Subscriber, Unsubscribe(s) PROVE StartsOnce'
  BY <1>0, <1>1, <1>10 DEF Unsubscribe, poller, Detached, Fresh
<1>11. ASSUME NEW s \in Subscriber, MaxEvaluated(s) \/ CursorPrimed(s) \/ StartLoops(s) PROVE StartsOnce'
  <2>1. starter[s].pc # "none" /\ loop[s].pc = "off" /\ loop[s].rows = {} /\ sub[s].state # "new"
    BY <1>11 DEF MaxEvaluated, CursorPrimed, StartLoops, StartsOnce
  <2>2. /\ \A x \in Subscriber \ {s} : starter'[x] = starter[x] /\ loop'[x] = loop[x]
        /\ starter'[s].pc # "none" => loop'[s] = loop[s]
        /\ loop'[s].rows = loop[s].rows
    BY <1>0, <1>11 DEF MaxEvaluated, CursorPrimed, StartLoops, Quiet, Loop
  <2>3. UNCHANGED sub
    BY <1>11 DEF MaxEvaluated, CursorPrimed, StartLoops
  <2> QED BY <1>2, <2>1, <2>2, <2>3
<1>12. ASSUME NEW s \in Subscriber, Polling(s) \/ PollFails(s) PROVE StartsOnce'
  <2>1. loop[s].pc # "off" /\ starter[s].pc = "none" /\ sub[s].state # "new"
    BY <1>12 DEF Polling, Tick, RowsSelected, FanOut, PollEnds, PollFails, StartsOnce
  <2>2. starter' = starter /\ \A x \in Subscriber \ {s} : loop'[x] = loop[x]
    BY <1>0, <1>12 DEF Polling, Tick, RowsSelected, FanOut, PollEnds, PollFails
  <2>3. loop'[s].pc # "fan" => loop'[s].rows = {}
    BY <1>0, <1>12 DEF Polling, Tick, RowsSelected, FanOut, PollEnds, PollFails, Off, Loop
  <2>4. CASE UNCHANGED sub
    BY <1>2, <2>1, <2>2, <2>3, <2>4
  <2>5. CASE FanOut(s)
    <3>1. \A x \in Subscriber : sub'[x].state = sub[x].state
      <4>1. PICK i : sub' = [x \in Subscriber |-> Delivered(sub[x], i)]
        BY <2>5 DEF FanOut
      <4>2. \A b \in Sub : Delivered(b, i).state = b.state
        BY DEF Delivered, Sub
      <4> QED BY <1>0, <4>1, <4>2
    <3> QED BY <2>1, <2>2, <2>3, <3>1 DEF StartsOnce
  <2> QED BY <1>12, <2>4, <2>5 DEF Polling, Tick, RowsSelected, PollEnds, PollFails
<1> QED
  BY <1>3, <1>5, <1>6, <1>9, <1>10, <1>11, <1>12 DEF Next, Starting

\* What OneReader says of one subscriber while a single subscribe() has started the poller.
Behind(s) ==
    /\ ~sub[s].disorder /\ sub[s].last <= lastId
    /\ loop[s].pc = "query" => loop[s].after = lastId
    /\ \A i \in loop[s].rows : i > lastId

Untold == \A s \in Subscriber : sub[s].last = 0 /\ ~sub[s].disorder

\* Every step keeps that a single reader tells its subscribers the ids in order.
LEMMA StepReader == ASSUME Bounds, TypeOK, StartsOnce, OneReader, [Next]_vars PROVE OneReader'
<1>0. /\ MaxId \in Nat /\ lastId \in Nat /\ lastId \in 0..MaxId /\ Ids \subseteq Nat /\ 0 \notin Ids
      /\ starter \in [Subscriber -> Starter] /\ loop \in [Subscriber -> Loop] /\ sub \in [Subscriber -> Sub]
  BY DEF Bounds, TypeOK, Starter, Loop, Sub, Ids
<1>1. OneReader = (closed = "open" => (Loops = {} => Untold) /\ (Alone => \A s \in Subscriber : Behind(s)))
  BY DEF OneReader, Untold, Behind
<1>2. OneReader' = (closed' = "open" => (Loops' = {} => Untold') /\ (Alone' => \A s \in Subscriber : Behind(s)'))
  BY DEF OneReader, Untold, Behind
<1> SUFFICES ASSUME closed' = "open" PROVE (Loops' = {} => Untold') /\ (Alone' => \A s \in Subscriber : Behind(s)')
  BY <1>2
<1>3. closed = "open"
  BY DEF Next, Publish, Sweep, Close, CloseLocal, InsertCommits, InsertFails, Subscribe, Unsubscribe, Starting, MaxEvaluated,
         CursorPrimed, StartLoops, Polling, Tick, RowsSelected, FanOut, PollEnds, PollFails, vars
<1>4. (Loops = {} => Untold) /\ (Alone => \A s \in Subscriber : Behind(s))
  BY <1>1, <1>3
<1>5. ASSUME UNCHANGED <<loop, lastId>>, Started \subseteq Started',
             \A s \in Subscriber : (sub'[s].last = sub[s].last /\ sub'[s].disorder = sub[s].disorder)
                                   \/ (sub'[s].last = 0 /\ ~sub'[s].disorder)
      PROVE  (Loops' = {} => Untold') /\ (Alone' => \A s \in Subscriber : Behind(s)')
  <2>1. Loops' = Loops
    BY <1>5 DEF Loops
  <2>2. Alone' => Alone
    BY <1>5 DEF Alone
  <2>3. ASSUME NEW s \in Subscriber, Behind(s) PROVE Behind(s)'
    BY <1>0, <1>5, <2>3 DEF Behind
  <2>4. Untold => Untold'
    BY <1>5 DEF Untold
  <2> QED BY <1>4, <2>1, <2>2, <2>3, <2>4
<1>6. ASSUME Publish \/ Sweep \/ (\E i \in Ids : InsertCommits(i) \/ InsertFails(i)) \/ UNCHANGED vars
      PROVE  (Loops' = {} => Untold') /\ (Alone' => \A s \in Subscriber : Behind(s)')
  <2>1. UNCHANGED <<loop, lastId, starter, sub>>
    BY <1>6 DEF Publish, Sweep, InsertCommits, InsertFails, vars, poller
  <2> QED BY <1>5, <2>1 DEF Started, Loops
<1>7. ~Close /\ ~CloseLocal
  BY DEF Close, CloseLocal
<1>9. ASSUME NEW s \in Subscriber, Subscribe(s)
      PROVE  (Loops' = {} => Untold') /\ (Alone' => \A x \in Subscriber : Behind(x)')
  <2>1. \A x \in Subscriber : sub'[x].last = sub[x].last /\ sub'[x].disorder = sub[x].disorder
    BY <1>0, <1>9 DEF Subscribe, Sub
  <2>2. Started \subseteq Started'
    BY <1>0, <1>9 DEF Subscribe, Started, Loops, Starter
  <2> QED BY <1>5, <1>9, <2>1, <2>2 DEF Subscribe
<1>10. ASSUME NEW s \in Subscriber, Unsubscribe(s)
       PROVE  (Loops' = {} => Untold') /\ (Alone' => \A x \in Subscriber : Behind(x)')
  <2>1. \A x \in Subscriber : sub'[x] = sub[x] \/ sub'[x] = Detached
    BY <1>0, <1>10 DEF Unsubscribe
  <2>2. Detached.last = 0 /\ ~Detached.disorder
    BY DEF Detached, Fresh
  <2> QED BY <1>5, <1>10, <2>1, <2>2 DEF Unsubscribe, Started, Loops, poller
<1>11. ASSUME NEW s \in Subscriber, MaxEvaluated(s)
       PROVE  (Loops' = {} => Untold') /\ (Alone' => \A x \in Subscriber : Behind(x)')
  <2>1. Started \subseteq Started'
    BY <1>0, <1>11 DEF MaxEvaluated, Started, Loops
  <2> QED BY <1>5, <1>11, <2>1 DEF MaxEvaluated
<1>12. ASSUME NEW s \in Subscriber, CursorPrimed(s)
       PROVE  (Loops' = {} => Untold') /\ (Alone' => \A x \in Subscriber : Behind(x)')
  <2>1. loop' = loop /\ sub' = sub /\ lastId' \in Nat /\ starter[s].pc # "none"
    BY <1>0, <1>12 DEF CursorPrimed, Starter
  <2>2. Started' = Started /\ Loops' = Loops /\ s \in Started
    BY <1>0, <1>12, <2>1 DEF CursorPrimed, Started, Loops, Quiet
  <2>3. ASSUME Alone' PROVE \A x \in Subscriber : loop[x].pc = "off" /\ loop[x].rows = {}
    <3>1. ASSUME NEW x \in Subscriber, loop[x].pc # "off" PROVE FALSE
      <4>1. x \in Started /\ x = s
        BY <2>2, <2>3, <3>1 DEF Alone, Started, Loops
      <4> QED BY <2>1, <3>1, <4>1 DEF StartsOnce
    <3> QED BY <3>1 DEF StartsOnce
  <2>4. ASSUME Alone' PROVE \A x \in Subscriber : Behind(x)'
    <3>1. Untold
      BY <1>4, <2>3, <2>4 DEF Loops
    <3> QED BY <2>1, <2>3, <2>4, <3>1 DEF Behind, Untold
  <2> QED BY <1>4, <2>1, <2>2, <2>4 DEF Untold
<1>13. ASSUME NEW s \in Subscriber, StartLoops(s)
       PROVE  (Loops' = {} => Untold') /\ (Alone' => \A x \in Subscriber : Behind(x)')
  <2>1. /\ lastId' = lastId /\ sub' = sub /\ starter[s].pc = "start" /\ starter' = [starter EXCEPT ![s] = Quiet]
        /\ loop' = [loop EXCEPT ![s].pc = "timer"]
    BY <1>3, <1>13 DEF StartLoops, Running
  <2>2. loop'[s].pc = "timer" /\ \A x \in Subscriber : loop'[x].rows = loop[x].rows /\ (x # s => loop'[x] = loop[x])
    BY <1>0, <2>1 DEF Loop
  <2>3. Loops' # {} /\ Started \subseteq Started'
    BY <1>0, <2>1, <2>2 DEF Loops, Started
  <2>4. Alone' => Alone
    BY <2>3 DEF Alone
  <2>5. ASSUME NEW x \in Subscriber, Behind(x) PROVE Behind(x)'
    BY <2>1, <2>2, <2>5 DEF Behind
  <2> QED BY <1>4, <2>3, <2>4, <2>5
<1>14. ASSUME NEW s \in Subscriber, Polling(s) \/ PollFails(s)
       PROVE  (Loops' = {} => Untold') /\ (Alone' => \A x \in Subscriber : Behind(x)')
  <2>1. /\ starter' = starter /\ loop[s].pc # "off" /\ loop'[s].pc # "off"
        /\ \A x \in Subscriber : x # s => loop'[x] = loop[x]
    BY <1>0, <1>3, <1>14 DEF Polling, Tick, RowsSelected, FanOut, PollEnds, PollFails, Running, Off, Loop
  <2>2. s \in Started /\ Started' = Started /\ Loops' # {}
    BY <2>1 DEF Started, Loops
  <2>3. ASSUME Alone' PROVE Alone /\ \A x \in Subscriber : x # s => loop[x].pc = "off" /\ loop[x].rows = {}
    <3>1. Alone
      BY <2>2, <2>3 DEF Alone
    <3> QED BY <2>2, <3>1 DEF Alone, Started, Loops, StartsOnce
  <2>4. CASE lastId' = lastId /\ sub' = sub
    <3>1. ASSUME Behind(s) PROVE Behind(s)'
      <4>1. CASE Tick(s)
        BY <1>0, <1>3, <2>4, <3>1, <4>1 DEF Tick, Behind, Running
      <4>2. CASE RowsSelected(s)
        <5>1. loop'[s].pc = "fan" /\ loop'[s].rows = Batch(loop[s].after) /\ loop[s].after = lastId /\ loop[s].after \in 0..MaxId
          BY <1>0, <3>1, <4>2 DEF RowsSelected, Behind, Loop
        <5> QED BY <2>4, <3>1, <5>1, BatchIsOldest DEF Behind
      <4>3. CASE PollEnds(s) \/ PollFails(s)
        BY <1>0, <1>3, <2>4, <3>1, <4>3 DEF PollEnds, PollFails, Behind, Running, Off
      <4>4. CASE FanOut(s)
        <5>1. PICK h \in loop[s].rows : lastId' = h
          BY <4>4 DEF FanOut, CursorAfter
        <5>2. h \in Nat /\ h > lastId
          BY <1>0, <3>1 DEF Behind, Loop
        <5> QED BY <1>0, <2>4, <5>1, <5>2
      <4> QED BY <1>14, <4>1, <4>2, <4>3, <4>4 DEF Polling
    <3>2. ASSUME NEW x \in Subscriber, x # s, Behind(x) PROVE Behind(x)'
      BY <2>1, <2>4, <3>2 DEF Behind
    <3> QED BY <1>4, <2>2, <2>3, <3>1, <3>2
  <2>5. CASE FanOut(s)
    <3> SUFFICES ASSUME Alone', NEW x \in Subscriber PROVE Behind(x)'
      BY <2>2
    <3>1. PICK h \in loop[s].rows : /\ \A j \in loop[s].rows : h <= j
                                    /\ lastId' = h /\ sub' = [y \in Subscriber |-> Delivered(sub[y], h)]
                                    /\ loop' = [loop EXCEPT ![s].rows = @ \ {h}]
      BY <2>5 DEF FanOut, CursorAfter
    <3>2. Behind(s) /\ Behind(x)
      BY <1>4, <2>3
    <3>3. h \in Nat /\ h > lastId /\ loop[s].rows \subseteq Nat
      BY <1>0, <3>2 DEF Behind, Loop
    <3>4. sub[x] \in Sub /\ sub[x].last \in Nat /\ sub[x].last <= lastId /\ ~sub[x].disorder
      BY <1>0, <3>2 DEF Sub, Behind
    <3>5. ~sub'[x].disorder /\ sub'[x].last <= h
      <4>1. ~(h <= sub[x].last)
        BY <1>0, <3>3, <3>4
      <4>2. sub'[x] = sub[x] \/ sub'[x] = [sub[x] EXCEPT !.last = h, !.disorder = sub[x].disorder \/ h <= sub[x].last]
        BY <3>1 DEF Delivered
      <4>3. CASE sub'[x] = sub[x]
        BY <1>0, <3>3, <3>4, <4>3
      <4>4. CASE sub'[x] = [sub[x] EXCEPT !.last = h, !.disorder = sub[x].disorder \/ h <= sub[x].last]
        <5>1. sub'[x].last = h /\ sub'[x].disorder = (sub[x].disorder \/ h <= sub[x].last)
          BY <3>4, <4>4 DEF Sub
        <5>2. ~sub'[x].disorder
          BY <3>4, <4>1, <5>1, Zenon
        <5>3. sub'[x].last <= h
          BY <3>3, <5>1
        <5> QED BY <5>2, <5>3
      <4> QED BY <4>2, <4>3, <4>4
    <3>6. loop'[x].pc = "query" => loop'[x].after = h
      <4>1. loop'[x].pc = loop[x].pc
        BY <1>0, <3>1 DEF Loop
      <4> QED BY <2>3, <2>5, <4>1 DEF FanOut
    <3>7. \A i \in loop'[x].rows : i > h
      <4>1. loop'[x].rows \subseteq loop[s].rows \ {h}
        BY <1>0, <2>3, <3>1 DEF Loop
      <4> QED BY <3>1, <3>3, <4>1
    <3> QED BY <3>1, <3>5, <3>6, <3>7 DEF Behind
  <2> QED BY <1>14, <2>4, <2>5 DEF Polling, Tick, RowsSelected, PollEnds, PollFails
<1> QED
  BY <1>6, <1>7, <1>9, <1>10, <1>11, <1>12, <1>13, <1>14 DEF Next, Starting

(* -------------------------------- theorems ------------------------------- *)
\* The invariants hold in the initial state.
LEMMA InitReader == ASSUME Bounds, Init PROVE ReaderInv
<1>1. TypeOK
  BY InitTypes
<1>2. \A s \in Subscriber : /\ starter[s].pc = "none" /\ loop[s].pc = "off" /\ loop[s].rows = {} /\ owed[s] = {}
                            /\ sub[s].last = 0 /\ ~sub[s].disorder
  BY DEF Init, Quiet, Off, Fresh
<1>3. lastId = 0
  BY DEF Init
<1> QED BY <1>1, <1>2, <1>3 DEF ReaderInv, Ahead, StartsOnce, OneReader

\* The inductive invariant of the poller.
THEOREM ReaderInvariant == ASSUME Bounds PROVE Spec => []ReaderInv
<1>1. Init => ReaderInv
  BY InitReader
<1>2. ReaderInv /\ [Next]_vars => ReaderInv'
  BY StepTypes, StepAhead, StepStarts, StepReader DEF ReaderInv
<1> QED BY <1>1, <1>2, PTL DEF Spec

\* No committed row that is owed to a subscriber is passed over, and as long as one
\* subscribe() started the poller, each gets the ids in order.
THEOREM NothingSkipped == ASSUME Bounds PROVE Spec => []BroadcastInv
<1>1. ReaderInv => BroadcastInv
  BY DEF ReaderInv, BroadcastInv, OwedIsAhead, OneLoopInOrder, Ahead, OneReader, Alone
<1> QED BY <1>1, ReaderInvariant, PTL
===============================================================================
