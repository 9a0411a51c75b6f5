-------------------------- MODULE DurableRunnerProofs --------------------------
(***************************************************************************)
(* Proofs of the safety of DurableRunner, for any set of runs, workflows,   *)
(* job slots, faults and crashes.                                           *)
(*                                                                         *)
(* The argument goes through moves.  Whatever a step does, each run row,    *)
(* with its journal and its compensation history, makes one of nine moves   *)
(* (Move); all safety properties of one run are preserved by every move     *)
(* (MoveKeepsRun), and a finished run moves no more.  Each action is then   *)
(* shown once to move every run and to leave the jobs in order (Outcome).   *)
(*                                                                         *)
(* The last two parts follow the tokens.  No run is forgotten because each  *)
(* unfinished run that waits for no signal is carried by a job which moves it*)
(* on or which an operator can retry (OrphanInv).  Nothing is done twice,   *)
(* while no statement failed, because a run then has one active token and   *)
(* its journal was written in the order of its clock (UndividedInv).        *)
(***************************************************************************)
EXTENDS DurableRunner, SequenceTheorems, TLAPS

-----------------------------------------------------------------------------
(* The invariant of one run, as a predicate of its row, log and history *)

Here(r, row, type) == row.cursor <= Len(Workflow[r]) /\ Workflow[r][row.cursor].type = type

RunTyped(row, log, und) ==
    row \in RunRow /\ log \in Seq(JournalRow) /\ und \in Seq(Nat \ {0})

Substate(r, row) ==
    /\ row.sleep # "none" => Here(r, row, "sleep")
    /\ row.awaiting => Here(r, row, "waitForSignal")
    /\ row.iteration > 0 => Here(r, row, "loop")
    /\ row.child # NoRun => Here(r, row, "childWorkflow")

Done(entry) == entry.kind = "node" /\ entry.status = "completed"

Prefix(row, log) ==
    /\ \A p \in DOMAIN log : Done(log[p]) => log[p].node < row.cursor
    /\ \A n \in 1..(row.cursor - 1) : \E p \in DOMAIN log : Done(log[p]) /\ log[p].node = n
    /\ \A p, q \in DOMAIN log :
          p < q /\ Done(log[p]) /\ Done(log[q]) => log[p].node < log[q].node

Iterated(row, log) ==
    /\ \A p \in DOMAIN log : log[p].kind = "iteration" =>
          \/ log[p].node < row.cursor
          \/ log[p].node = row.cursor /\ log[p].iteration < row.iteration
    /\ \A i \in 0..(row.iteration - 1) : \E p \in DOMAIN log :
          log[p].kind = "iteration" /\ log[p].node = row.cursor /\ log[p].iteration = i
    /\ \A p, q \in DOMAIN log :
          /\ p < q /\ log[p].kind = "iteration" /\ log[q].kind = "iteration"
          /\ log[p].node = log[q].node
          => log[p].iteration < log[q].iteration

Compensators(r, row) == {n \in 1..(row.cursor - 1) : HasCompensator(r, n)}

Compensated(r, row, log, und) ==
    /\ row.status = "failed" => {und[k] : k \in DOMAIN und} = Compensators(r, row)
    /\ row.status \in {"compensating", "failed"} =>
          \E p \in DOMAIN log :
              log[p].kind = "node" /\ log[p].status = "failed" /\ log[p].node = row.cursor

RunOK(r, row, log, und) ==
    /\ RunTyped(row, log, und)
    /\ Substate(r, row)
    /\ Prefix(row, log)
    /\ Iterated(row, log)
    /\ Compensated(r, row, log, und)

-----------------------------------------------------------------------------
(* What a step may do to one run *)

\* The child an entry copies has ended the way the entry says.
Copies(entry) == entry.child # NoRun => runs[entry.child].status = entry.status

Clean(row) == row.sleep = "none" /\ ~row.awaiting /\ row.iteration = 0 /\ row.child = NoRun

Starts(row, row1) ==
    /\ row.status \in Missing
    /\ \E s \in {"opening", "void", "pending"} : row1 = [row EXCEPT !.status = s]

Completes(r, row, log, row1, log1) ==
    /\ row.status \in Live
    /\ row1 \in RunRow
    /\ row1.status = "running" /\ row1.cursor = row.cursor + 1 /\ Clean(row1)
    /\ \E e \in JournalRow :
        /\ e.kind = "node" /\ e.status = "completed" /\ e.node = row.cursor /\ Copies(e)
        /\ log1 = Append(log, e)

Fails(r, row, log, row1, log1) ==
    /\ row.status \in Live
    /\ row1 = [row EXCEPT !.status = "compensating"]
    /\ \E e \in JournalRow :
        /\ e.kind = "node" /\ e.status = "failed" /\ e.node = row.cursor /\ Copies(e)
        /\ log1 = Append(log, e)

Iterates(r, row, log, row1, log1) ==
    /\ row.status \in Live
    /\ Here(r, row, "loop")
    /\ row1 = [row EXCEPT !.status = "waiting", !.iteration = row.iteration + 1]
    /\ \E e \in JournalRow :
        /\ e.kind = "iteration" /\ e.node = row.cursor /\ e.iteration = row.iteration
        /\ e.child = NoRun
        /\ log1 = Append(log, e)

Stays(r, row, row1) ==
    /\ row.status \in Live
    /\ row1 \in RunRow
    /\ row1.status \in {row.status, "waiting"}
    /\ row1.cursor = row.cursor /\ row1.iteration = row.iteration
    /\ Substate(r, row1)

Finishes(r, row, row1) ==
    /\ row.status \in Live
    /\ row.cursor > Len(Workflow[r])
    /\ row1 = [NewRun EXCEPT !.status = "completed", !.cursor = row.cursor]

Undoes(row, row1, und1) ==
    row.status = "compensating" /\ row1 = row /\ und1 \in Seq(Nat \ {0})

Undone(r, row, row1, und1) ==
    /\ row.status = "compensating"
    /\ row1 = [row EXCEPT !.status = "failed"]
    /\ und1 \in Seq(Nat \ {0})
    /\ {und1[k] : k \in DOMAIN und1} = Compensators(r, row)

Move(r, row, log, und, row1, log1, und1) ==
    \/ row1 = row /\ log1 = log /\ und1 = und
    \/ Starts(row, row1) /\ log1 = log /\ und1 = und
    \/ Completes(r, row, log, row1, log1) /\ und1 = und
    \/ Fails(r, row, log, row1, log1) /\ und1 = und
    \/ Iterates(r, row, log, row1, log1) /\ und1 = und
    \/ Stays(r, row, row1) /\ log1 = log /\ und1 = und
    \/ Finishes(r, row, row1) /\ log1 = log /\ und1 = und
    \/ Undoes(row, row1, und1) /\ log1 = log
    \/ Undone(r, row, row1, und1) /\ log1 = log

\* Appending an entry adds it at the end and leaves the others alone.
LEMMA AppendFacts ==
    ASSUME NEW log \in Seq(JournalRow), NEW e \in JournalRow, NEW log1, log1 = Append(log, e)
    PROVE  /\ log1 \in Seq(JournalRow)
           /\ Len(log) \in Nat
           /\ DOMAIN log = 1..Len(log)
           /\ DOMAIN log1 = 1..(Len(log) + 1)
           /\ log1[Len(log) + 1] = e
           /\ \A p \in 1..Len(log) : log1[p] = log[p]
           /\ \A p \in 1..Len(log) : log[p].node \in Nat \ {0} /\ log[p].iteration \in Nat
<1>1. /\ log1 \in Seq(JournalRow)
      /\ Len(log) \in Nat
      /\ DOMAIN log = 1..Len(log)
      /\ DOMAIN log1 = 1..(Len(log) + 1)
      /\ log1[Len(log) + 1] = e
      /\ \A p \in 1..Len(log) : log1[p] = log[p]
      /\ \A p \in 1..Len(log) : log[p] \in JournalRow
  OBVIOUS
<1> QED BY <1>1 DEF JournalRow

\* The node the cursor stood on is done: the journal is the longer prefix.
LEMMA CompletesOK ==
    ASSUME NEW r \in Run, NEW row, NEW log, NEW und, NEW row1, NEW log1,
           RunOK(r, row, log, und), Completes(r, row, log, row1, log1)
    PROVE  RunOK(r, row1, log1, und)
<1>1. PICK e \in JournalRow : e.kind = "node" /\ e.status = "completed" /\ e.node = row.cursor
                              /\ Copies(e) /\ log1 = Append(log, e)
  BY DEF Completes
<1>2. /\ row \in RunRow /\ log \in Seq(JournalRow) /\ und \in Seq(Nat \ {0})
      /\ row1 \in RunRow /\ row1.cursor = row.cursor + 1 /\ row1.status = "running" /\ Clean(row1)
      /\ row.cursor \in Nat \ {0}
  BY DEF Completes, RunOK, RunTyped, RunRow
<1>3. /\ log1 \in Seq(JournalRow) /\ Len(log) \in Nat /\ DOMAIN log = 1..Len(log)
      /\ DOMAIN log1 = 1..(Len(log) + 1) /\ log1[Len(log) + 1] = e
      /\ \A p \in 1..Len(log) : log1[p] = log[p]
      /\ \A p \in 1..Len(log) : log[p].node \in Nat \ {0} /\ log[p].iteration \in Nat
  BY <1>1, <1>2, AppendFacts, SMTT(60)
<1>4. RunTyped(row1, log1, und) /\ Substate(r, row1)
  BY <1>2, <1>3 DEF RunTyped, Substate, Clean
<1>5. Prefix(row1, log1)
  <2>1. \A p \in 1..Len(log) : Done(log[p]) => log[p].node < row.cursor /\ log[p].node \in Nat
    BY <1>3 DEF RunOK, Prefix
  <2>2. \A n \in 1..(row.cursor - 1) : \E p \in 1..Len(log) : Done(log[p]) /\ log[p].node = n
    BY <1>3 DEF RunOK, Prefix
  <2>3. \A p, q \in 1..Len(log) :
           p < q /\ Done(log[p]) /\ Done(log[q]) => log[p].node < log[q].node
    BY <1>3 DEF RunOK, Prefix
  <2>4. Done(e) /\ e.node = row.cursor
    BY <1>1 DEF Done
  <2>5. \A p \in DOMAIN log1 : Done(log1[p]) => log1[p].node < row1.cursor
    BY <1>2, <1>3, <2>1, <2>4
  <2>6. \A n \in 1..(row1.cursor - 1) : \E p \in DOMAIN log1 : Done(log1[p]) /\ log1[p].node = n
    <3> SUFFICES ASSUME NEW n \in 1..row.cursor
                 PROVE  \E p \in DOMAIN log1 : Done(log1[p]) /\ log1[p].node = n
      BY <1>2
    <3>1. CASE n = row.cursor
      <4>1. Len(log) + 1 \in DOMAIN log1 /\ Done(log1[Len(log) + 1]) /\ log1[Len(log) + 1].node = n
        BY <1>3, <2>4, <3>1
      <4> QED BY <4>1
    <3>2. CASE n # row.cursor
      <4>1. PICK p \in 1..Len(log) : Done(log[p]) /\ log[p].node = n
        BY <1>2, <2>2, <3>2
      <4>2. p \in DOMAIN log1 /\ Done(log1[p]) /\ log1[p].node = n
        BY <1>3, <4>1
      <4> QED BY <4>2
    <3> QED BY <3>1, <3>2
  <2>7. \A p, q \in DOMAIN log1 :
           p < q /\ Done(log1[p]) /\ Done(log1[q]) => log1[p].node < log1[q].node
    BY <1>2, <1>3, <2>1, <2>3, <2>4
  <2> QED BY <2>5, <2>6, <2>7 DEF Prefix
<1>6. Iterated(row1, log1)
  <2>1. \A p \in 1..Len(log) : log[p].kind = "iteration" => log[p].node <= row.cursor
    <3>1. \A p \in 1..Len(log) : log[p].kind = "iteration" =>
              log[p].node < row.cursor \/ log[p].node = row.cursor
      BY <1>3 DEF RunOK, Iterated
    <3> QED BY <1>2, <1>3, <3>1
  <2>2. \A p, q \in 1..Len(log) :
           /\ p < q /\ log[p].kind = "iteration" /\ log[q].kind = "iteration"
           /\ log[p].node = log[q].node
           => log[p].iteration < log[q].iteration
    BY <1>3 DEF RunOK, Iterated
  <2>3. \A p \in DOMAIN log1 : log1[p].kind = "iteration" => log1[p].node < row1.cursor
    BY <1>1, <1>2, <1>3, <2>1, SMTT(30)
  <2>4. \A p, q \in DOMAIN log1 :
           /\ p < q /\ log1[p].kind = "iteration" /\ log1[q].kind = "iteration"
           /\ log1[p].node = log1[q].node
           => log1[p].iteration < log1[q].iteration
    BY <1>1, <1>3, <2>2
  <2> QED BY <1>2, <2>3, <2>4 DEF Iterated, Clean
<1>7. Compensated(r, row1, log1, und)
  BY <1>2 DEF Compensated
<1> QED BY <1>4, <1>5, <1>6, <1>7 DEF RunOK

\* A failed entry adds to no prefix and is the reason to compensate.
LEMMA FailsOK ==
    ASSUME NEW r \in Run, NEW row, NEW log, NEW und, NEW row1, NEW log1,
           RunOK(r, row, log, und), Fails(r, row, log, row1, log1)
    PROVE  RunOK(r, row1, log1, und)
<1>1. PICK e \in JournalRow : e.kind = "node" /\ e.status = "failed" /\ e.node = row.cursor
                              /\ Copies(e) /\ log1 = Append(log, e)
  BY DEF Fails
<1>2. /\ row \in RunRow /\ log \in Seq(JournalRow) /\ und \in Seq(Nat \ {0})
      /\ row1 = [row EXCEPT !.status = "compensating"]
  BY DEF Fails, RunOK, RunTyped
<1>3. /\ row1 \in RunRow /\ row1.cursor = row.cursor /\ row1.iteration = row.iteration
      /\ row1.sleep = row.sleep /\ row1.awaiting = row.awaiting /\ row1.child = row.child
      /\ row1.status = "compensating"
  BY <1>2 DEF RunRow, Live
<1>4. /\ log1 \in Seq(JournalRow) /\ Len(log) \in Nat /\ DOMAIN log = 1..Len(log)
      /\ DOMAIN log1 = 1..(Len(log) + 1) /\ log1[Len(log) + 1] = e
      /\ \A p \in 1..Len(log) : log1[p] = log[p]
  BY <1>1, <1>2, AppendFacts, SMTT(60)
<1>5. RunTyped(row1, log1, und)
  BY <1>2, <1>3, <1>4 DEF RunTyped
<1>6. Substate(r, row1)
  BY <1>3 DEF RunOK, Substate, Here
<1>7. ~Done(e) /\ e.kind # "iteration"
  BY <1>1 DEF Done
<1>8. Prefix(row1, log1)
  <2>1. Prefix(row, log)
    BY DEF RunOK
  <2>2. \A p \in DOMAIN log1 : Done(log1[p]) => log1[p].node < row1.cursor
    BY <1>3, <1>4, <1>7, <2>1 DEF Prefix
  <2>3. \A n \in 1..(row1.cursor - 1) : \E p \in DOMAIN log1 : Done(log1[p]) /\ log1[p].node = n
    BY <1>3, <1>4, <2>1 DEF Prefix
  <2>4. \A p, q \in DOMAIN log1 :
           p < q /\ Done(log1[p]) /\ Done(log1[q]) => log1[p].node < log1[q].node
    BY <1>4, <1>7, <2>1 DEF Prefix
  <2> QED BY <2>2, <2>3, <2>4 DEF Prefix
<1>9. Iterated(row1, log1)
  <2>1. Iterated(row, log)
    BY DEF RunOK
  <2>2. \A p \in DOMAIN log1 : log1[p].kind = "iteration" =>
           \/ log1[p].node < row1.cursor
           \/ log1[p].node = row1.cursor /\ log1[p].iteration < row1.iteration
    BY <1>3, <1>4, <1>7, <2>1 DEF Iterated
  <2>3. \A i \in 0..(row1.iteration - 1) : \E p \in DOMAIN log1 :
           log1[p].kind = "iteration" /\ log1[p].node = row1.cursor /\ log1[p].iteration = i
    BY <1>3, <1>4, <2>1 DEF Iterated
  <2>4. \A p, q \in DOMAIN log1 :
           /\ p < q /\ log1[p].kind = "iteration" /\ log1[q].kind = "iteration"
           /\ log1[p].node = log1[q].node
           => log1[p].iteration < log1[q].iteration
    BY <1>4, <1>7, <2>1 DEF Iterated
  <2> QED BY <2>2, <2>3, <2>4 DEF Iterated
<1>10. Compensated(r, row1, log1, und)
  <2>1. Len(log) + 1 \in DOMAIN log1 /\ log1[Len(log) + 1] = e
    BY <1>4
  <2> QED BY <1>1, <1>3, <2>1 DEF Compensated
<1> QED BY <1>5, <1>6, <1>8, <1>9, <1>10 DEF RunOK

\* An iteration entry adds the next iteration of the loop at the cursor.
LEMMA IteratesOK ==
    ASSUME NEW r \in Run, NEW row, NEW log, NEW und, NEW row1, NEW log1,
           RunOK(r, row, log, und), Iterates(r, row, log, row1, log1)
    PROVE  RunOK(r, row1, log1, und)
<1>1. PICK e \in JournalRow : e.kind = "iteration" /\ e.node = row.cursor
                              /\ e.iteration = row.iteration /\ log1 = Append(log, e)
  BY DEF Iterates
<1>2. /\ row \in RunRow /\ log \in Seq(JournalRow) /\ und \in Seq(Nat \ {0})
      /\ row1 = [row EXCEPT !.status = "waiting", !.iteration = row.iteration + 1]
      /\ Here(r, row, "loop")
  BY DEF Iterates, RunOK, RunTyped
<1>3. /\ row1 \in RunRow /\ row1.cursor = row.cursor /\ row1.iteration = row.iteration + 1
      /\ row1.sleep = row.sleep /\ row1.awaiting = row.awaiting /\ row1.child = row.child
      /\ row1.status = "waiting" /\ row.iteration \in Nat
  <2>1. row.iteration \in Nat /\ row.iteration + 1 \in Nat
    BY <1>2 DEF RunRow
  <2> DEFINE i == row.iteration + 1
  <2>2. i \in Nat /\ "waiting" \in Live
    BY <2>1 DEF Live
  <2>3. row1 = [row EXCEPT !.status = "waiting", !.iteration = i]
    BY <1>2
  <2> HIDE DEF i
  <2>4. /\ row1 \in RunRow /\ row1.cursor = row.cursor /\ row1.iteration = i
        /\ row1.sleep = row.sleep /\ row1.awaiting = row.awaiting /\ row1.child = row.child
        /\ row1.status = "waiting"
    BY <1>2, <2>2, <2>3 DEF RunRow
  <2> QED BY <2>1, <2>4 DEF i
<1>4. /\ log1 \in Seq(JournalRow) /\ Len(log) \in Nat /\ DOMAIN log = 1..Len(log)
      /\ DOMAIN log1 = 1..(Len(log) + 1) /\ log1[Len(log) + 1] = e
      /\ \A p \in 1..Len(log) : log1[p] = log[p]
      /\ \A p \in 1..Len(log) : log[p].node \in Nat \ {0} /\ log[p].iteration \in Nat
  BY <1>1, <1>2, AppendFacts, SMTT(60)
<1>5. RunTyped(row1, log1, und)
  BY <1>2, <1>3, <1>4 DEF RunTyped
<1>6. Substate(r, row1)
  BY <1>2, <1>3 DEF RunOK, Substate, Here
<1>7. ~Done(e)
  BY <1>1 DEF Done
<1>8. Prefix(row1, log1)
  <2>1. Prefix(row, log)
    BY DEF RunOK
  <2>2. \A p \in DOMAIN log1 : Done(log1[p]) => log1[p].node < row1.cursor
    BY <1>3, <1>4, <1>7, <2>1 DEF Prefix
  <2>3. \A n \in 1..(row1.cursor - 1) : \E p \in DOMAIN log1 : Done(log1[p]) /\ log1[p].node = n
    BY <1>3, <1>4, <2>1 DEF Prefix
  <2>4. \A p, q \in DOMAIN log1 :
           p < q /\ Done(log1[p]) /\ Done(log1[q]) => log1[p].node < log1[q].node
    BY <1>4, <1>7, <2>1 DEF Prefix
  <2> QED BY <2>2, <2>3, <2>4 DEF Prefix
<1>9. Iterated(row1, log1)
  <2>1. /\ \A p \in 1..Len(log) : log[p].kind = "iteration" =>
              \/ log[p].node < row.cursor
              \/ log[p].node = row.cursor /\ log[p].iteration < row.iteration
        /\ \A i \in 0..(row.iteration - 1) : \E p \in 1..Len(log) :
              log[p].kind = "iteration" /\ log[p].node = row.cursor /\ log[p].iteration = i
        /\ \A p, q \in 1..Len(log) :
              /\ p < q /\ log[p].kind = "iteration" /\ log[q].kind = "iteration"
              /\ log[p].node = log[q].node
              => log[p].iteration < log[q].iteration
    BY <1>4 DEF RunOK, Iterated
  <2>2. \A p \in DOMAIN log1 : log1[p].kind = "iteration" =>
           \/ log1[p].node < row1.cursor
           \/ log1[p].node = row1.cursor /\ log1[p].iteration < row1.iteration
    BY <1>1, <1>3, <1>4, <2>1
  <2>3. \A i \in 0..(row1.iteration - 1) : \E p \in DOMAIN log1 :
           log1[p].kind = "iteration" /\ log1[p].node = row1.cursor /\ log1[p].iteration = i
    <3> SUFFICES ASSUME NEW i \in 0..row.iteration
                 PROVE  \E p \in DOMAIN log1 : /\ log1[p].kind = "iteration"
                           /\ log1[p].node = row.cursor /\ log1[p].iteration = i
      BY <1>3
    <3>1. CASE i = row.iteration
      <4>1. Len(log) + 1 \in DOMAIN log1 /\ log1[Len(log) + 1] = e
        BY <1>4
      <4> QED BY <1>1, <3>1, <4>1
    <3>2. CASE i # row.iteration
      <4>1. PICK p \in 1..Len(log) :
               log[p].kind = "iteration" /\ log[p].node = row.cursor /\ log[p].iteration = i
        BY <1>3, <2>1, <3>2
      <4>2. p \in DOMAIN log1 /\ log1[p] = log[p]
        BY <1>4
      <4> QED BY <4>1, <4>2
    <3> QED BY <3>1, <3>2
  <2>4. \A p, q \in DOMAIN log1 :
           /\ p < q /\ log1[p].kind = "iteration" /\ log1[q].kind = "iteration"
           /\ log1[p].node = log1[q].node
           => log1[p].iteration < log1[q].iteration
    <3> SUFFICES ASSUME NEW p \in 1..(Len(log) + 1), NEW q \in 1..(Len(log) + 1), p < q,
                        log1[p].kind = "iteration", log1[q].kind = "iteration",
                        log1[p].node = log1[q].node
                 PROVE  log1[p].iteration < log1[q].iteration
      BY <1>4
    <3>1. p \in 1..Len(log) /\ log1[p] = log[p]
      BY <1>4
    <3>2. CASE q \in 1..Len(log)
      BY <1>4, <2>1, <3>1, <3>2
    <3>3. CASE q = Len(log) + 1
      <4>1. log1[q] = e
        BY <1>4, <3>3
      <4>2. log[p].node = row.cursor /\ row.cursor \in Nat
        BY <1>1, <1>2, <3>1, <4>1 DEF RunRow
      <4>3. log[p].iteration < row.iteration
        BY <2>1, <3>1, <4>2
      <4> QED BY <1>1, <3>1, <4>1, <4>3
    <3> QED BY <1>4, <3>2, <3>3
  <2> QED BY <2>2, <2>3, <2>4 DEF Iterated
<1>10. Compensated(r, row1, log1, und)
  BY <1>3 DEF Compensated
<1> QED BY <1>5, <1>6, <1>8, <1>9, <1>10 DEF RunOK

\* Nothing but cursor, iteration and log matters to the journal's order.
LEMMA SamePlaceOK ==
    ASSUME NEW r \in Run, NEW row, NEW log, NEW und, NEW row1, NEW und1,
           RunOK(r, row, log, und), row1 \in RunRow, und1 \in Seq(Nat \ {0}),
           row1.cursor = row.cursor, row1.iteration = row.iteration,
           Substate(r, row1), Compensated(r, row1, log, und1)
    PROVE  RunOK(r, row1, log, und1)
<1>1. RunTyped(row, log, und) /\ Prefix(row, log) /\ Iterated(row, log)
  BY DEF RunOK
<1>2. RunTyped(row1, log, und1)
  BY <1>1 DEF RunTyped
<1>3. Prefix(row1, log)
  BY <1>1 DEF Prefix
<1>4. Iterated(row1, log)
  BY <1>1 DEF Iterated
<1> QED BY <1>2, <1>3, <1>4 DEF RunOK

\* Every move keeps the invariant of its run.
LEMMA MoveKeepsRun ==
    ASSUME NEW r \in Run, NEW row, NEW log, NEW und, NEW row1, NEW log1, NEW und1,
           RunOK(r, row, log, und), Move(r, row, log, und, row1, log1, und1)
    PROVE  RunOK(r, row1, log1, und1)
<1>1. /\ row \in RunRow /\ log \in Seq(JournalRow) /\ und \in Seq(Nat \ {0})
      /\ Substate(r, row) /\ Compensated(r, row, log, und)
  BY DEF RunOK, RunTyped
<1>2. CASE row1 = row /\ log1 = log /\ und1 = und
  BY <1>2
<1>3. CASE Starts(row, row1) /\ log1 = log /\ und1 = und
  <2>1. PICK s \in {"opening", "void", "pending"} : row1 = [row EXCEPT !.status = s]
    BY <1>3 DEF Starts
  <2>2. /\ row1 \in RunRow /\ row1.cursor = row.cursor /\ row1.iteration = row.iteration
        /\ row1.sleep = row.sleep /\ row1.awaiting = row.awaiting /\ row1.child = row.child
        /\ row1.status = s
    BY <1>1, <2>1 DEF RunRow, Live, Missing
  <2>3. Substate(r, row1)
    BY <1>1, <2>2 DEF Substate, Here
  <2>4. Compensated(r, row1, log, und)
    BY <2>2 DEF Compensated
  <2> QED BY <1>1, <1>3, <2>2, <2>3, <2>4, SamePlaceOK
<1>4. CASE Completes(r, row, log, row1, log1) /\ und1 = und
  BY <1>4, CompletesOK
<1>5. CASE Fails(r, row, log, row1, log1) /\ und1 = und
  BY <1>5, FailsOK
<1>6. CASE Iterates(r, row, log, row1, log1) /\ und1 = und
  BY <1>6, IteratesOK
<1>7. CASE Stays(r, row, row1) /\ log1 = log /\ und1 = und
  <2>1. /\ row.status \in Live /\ row1 \in RunRow /\ row1.status \in {row.status, "waiting"}
        /\ row1.cursor = row.cursor /\ row1.iteration = row.iteration /\ Substate(r, row1)
    BY <1>7 DEF Stays
  <2>2. Compensated(r, row1, log, und)
    BY <1>1, <2>1 DEF Compensated, Live
  <2> QED BY <1>1, <1>7, <2>1, <2>2, SamePlaceOK
<1>8. CASE Finishes(r, row, row1) /\ log1 = log /\ und1 = und
  <2>1. /\ row.cursor > Len(Workflow[r])
        /\ row1 = [NewRun EXCEPT !.status = "completed", !.cursor = row.cursor]
    BY <1>8 DEF Finishes
  <2>2. row.cursor \in Nat \ {0} /\ row.iteration \in Nat /\ Len(Workflow[r]) \in Nat
    <3>1. Workflow[r] \in Seq(Node)
      BY DurableAssumption
    <3> QED BY <1>1, <3>1 DEF RunRow
  <2>3. row.iteration = 0
    BY <1>1, <2>1, <2>2 DEF Substate, Here
  <2>4. /\ row1 \in RunRow /\ row1.status = "completed" /\ row1.cursor = row.cursor
        /\ row1.iteration = 0 /\ row1.sleep = "none" /\ row1.awaiting = FALSE
        /\ row1.child = NoRun
    BY <2>1, <2>2 DEF NewRun, RunRow, Terminal
  <2>5. Substate(r, row1) /\ Compensated(r, row1, log, und)
    BY <2>4 DEF Substate, Compensated
  <2> QED BY <1>1, <1>8, <2>3, <2>4, <2>5, SamePlaceOK
<1>9. CASE Undoes(row, row1, und1) /\ log1 = log
  <2>1. row1 = row /\ und1 \in Seq(Nat \ {0}) /\ row.status = "compensating"
    BY <1>9 DEF Undoes
  <2>2. Compensated(r, row1, log, und1)
    BY <1>1, <2>1 DEF Compensated
  <2> QED BY <1>1, <1>9, <2>1, <2>2, SamePlaceOK
<1>10. CASE Undone(r, row, row1, und1) /\ log1 = log
  <2>1. /\ row.status = "compensating" /\ row1 = [row EXCEPT !.status = "failed"]
        /\ und1 \in Seq(Nat \ {0})
        /\ {und1[k] : k \in DOMAIN und1} = Compensators(r, row)
    BY <1>10 DEF Undone
  <2>2. /\ row1 \in RunRow /\ row1.cursor = row.cursor /\ row1.iteration = row.iteration
        /\ row1.sleep = row.sleep /\ row1.awaiting = row.awaiting /\ row1.child = row.child
        /\ row1.status = "failed"
    BY <1>1, <2>1 DEF RunRow, Terminal
  <2>3. Substate(r, row1)
    BY <1>1, <2>2 DEF Substate, Here
  <2>4. Compensators(r, row1) = Compensators(r, row)
    BY <2>2 DEF Compensators
  <2>5. Compensated(r, row1, log, und1)
    BY <1>1, <2>1, <2>2, <2>4 DEF Compensated
  <2> QED BY <1>1, <1>10, <2>1, <2>2, <2>3, <2>5, SamePlaceOK
<1> QED
  BY <1>2, <1>3, <1>4, <1>5, <1>6, <1>7, <1>8, <1>9, <1>10 DEF Move

\* A finished run makes no move.
LEMMA FinishedStays ==
    ASSUME NEW r \in Run, NEW row, NEW log, NEW und, NEW row1, NEW log1, NEW und1,
           row.status \in Terminal, Move(r, row, log, und, row1, log1, und1)
    PROVE  row1 = row /\ log1 = log /\ und1 = und
<1>1. row.status \notin Live /\ row.status \notin Missing /\ row.status # "compensating"
  BY DEF Terminal, Live, Missing
<1> QED
  BY <1>1 DEF Move, Starts, Completes, Fails, Iterates, Stays, Finishes, Undoes, Undone

-----------------------------------------------------------------------------
(* What a step may do to all runs, and to the jobs *)

Moved ==
    /\ runs' = [r \in Run |-> runs'[r]]
    /\ journal' = [r \in Run |-> journal'[r]]
    /\ undone' = [r \in Run |-> undone'[r]]
    /\ \A r \in Run :
          Move(r, runs[r], journal[r], undone[r], runs'[r], journal'[r], undone'[r])

\* Job tables js in which no job began to start a child.
Calm(js) ==
    /\ js \in [Slots -> Job]
    /\ \A s \in Slots :
          \/ js[s] = jobs[s]
          \/ js[s].state # "spawning" /\ (js[s].state # "free" => js[s].run \in Run)

\* The rows that starting parents lock are left alone.
LocksKept ==
    \A s \in Slots : jobs'[s].state = "spawning" /\ jobs'[s] = jobs[s] =>
        runs'[jobs[s].run] = runs[jobs[s].run]

Counted == faults' \in 0..MaxFaults /\ crashes' \in 0..MaxCrashes

Outcome == Moved /\ Calm(jobs') /\ LocksKept /\ Counted

\* A cursor is at a node of some type, or past the last node.
LEMMA AtIsHere ==
    ASSUME TypeOK, NEW r \in Run
    PROVE  /\ AtEnd(r) <=> ~(runs[r].cursor <= Len(Workflow[r]))
           /\ \A type : At(r, type) <=> Here(r, runs[r], type)
<1>1. Workflow[r] \in Seq(Node) /\ runs[r].cursor \in Nat
  BY DurableAssumption DEF TypeOK, RunRow
<1>2. Len(Workflow[r]) \in Nat
  BY <1>1
<1>3. \A m, n \in Nat : m > n <=> ~(m <= n)
  OBVIOUS
<1>4. AtEnd(r) <=> runs[r].cursor > Len(Workflow[r])
  BY DEF AtEnd
<1>5. AtEnd(r) <=> ~(runs[r].cursor <= Len(Workflow[r]))
  BY <1>1, <1>2, <1>3, <1>4
<1> QED BY <1>5, Zenon DEF At, NodeOf, Here

\* The invariant says of every run what RunOK says of one.
LEMMA InvIsPerRun ==
    ASSUME TypeOK
    PROVE  SubstateAtCursor /\ JournalIsPrefix /\ IterationsJournaled /\ SagaComplete
             <=> \A r \in Run : RunOK(r, runs[r], journal[r], undone[r])
<1>1. \A r \in Run : RunTyped(runs[r], journal[r], undone[r])
  BY DEF TypeOK, RunTyped
<1>4. SubstateAtCursor <=> \A r \in Run : Substate(r, runs[r])
  <2>1. SubstateAtCursor => \A r \in Run : Substate(r, runs[r])
    BY AtIsHere, Zenon DEF SubstateAtCursor, Substate
  <2>2. (\A r \in Run : Substate(r, runs[r])) => SubstateAtCursor
    BY AtIsHere, Zenon DEF SubstateAtCursor, Substate
  <2> QED BY <2>1, <2>2
<1>5. JournalIsPrefix <=> \A r \in Run : Prefix(runs[r], journal[r])
  BY DEF JournalIsPrefix, Prefix, NodeDone, Done
<1>6. IterationsJournaled <=> \A r \in Run : Iterated(runs[r], journal[r])
  BY DEF IterationsJournaled, Iterated, IterationDone
<1>7. SagaComplete <=> \A r \in Run : Compensated(r, runs[r], journal[r], undone[r])
  BY DEF SagaComplete, Compensated, Compensators
<1> QED BY <1>1, <1>4, <1>5, <1>6, <1>7 DEF RunOK

\* If every run moves, every run keeps its invariant.
LEMMA MovedKeepsRuns ==
    ASSUME RunnerInv, Moved
    PROVE  \A r \in Run : RunOK(r, runs'[r], journal'[r], undone'[r])
<1>1. \A r \in Run : RunOK(r, runs[r], journal[r], undone[r])
  BY InvIsPerRun DEF RunnerInv
<1> QED BY <1>1, MoveKeepsRun DEF Moved

\* The outcome a parent copied stays its child's: finished rows do not change,
\* and the entry a move adds copies a finished child.
LEMMA MovedKeepsChildren ==
    ASSUME RunnerInv, Moved
    PROVE  ChildEndsFirst'
<1> SUFFICES ASSUME NEW r \in Run, NEW p \in DOMAIN journal'[r],
                    journal'[r][p].child # NoRun
             PROVE  runs'[journal'[r][p].child].status = journal'[r][p].status
  BY DEF ChildEndsFirst
<1>1. \A c \in Run : runs[c].status \in Terminal => runs'[c] = runs[c]
  BY FinishedStays DEF Moved
<1>2. \A e \in JournalRow : e.child # NoRun /\ Copies(e) => runs'[e.child].status = e.status
  <2> SUFFICES ASSUME NEW e \in JournalRow, e.child # NoRun, Copies(e)
               PROVE  runs'[e.child].status = e.status
    OBVIOUS
  <2>1. e.child \in Run /\ e.status \in Terminal
    BY DEF JournalRow, Terminal
  <2>2. runs[e.child].status = e.status
    BY DEF Copies
  <2> QED BY <1>1, <2>1, <2>2
<1>3. journal[r] \in Seq(JournalRow)
  BY DEF RunnerInv, TypeOK
<1>4. \A q \in DOMAIN journal[r] : journal[r][q].child # NoRun =>
          runs'[journal[r][q].child].status = journal[r][q].status
  <2> SUFFICES ASSUME NEW q \in DOMAIN journal[r], journal[r][q].child # NoRun
               PROVE  runs'[journal[r][q].child].status = journal[r][q].status
    OBVIOUS
  <2>1. journal[r][q] \in JournalRow
    BY <1>3
  <2>2. Copies(journal[r][q])
    BY DEF RunnerInv, ChildEndsFirst, Copies
  <2> QED BY <1>2, <2>1, <2>2
<1>5. CASE journal'[r] = journal[r]
  BY <1>4, <1>5
<1>6. CASE \E e \in JournalRow : (e.child = NoRun \/ Copies(e)) /\ journal'[r] = Append(journal[r], e)
  <2>1. PICK e \in JournalRow :
           (e.child = NoRun \/ Copies(e)) /\ journal'[r] = Append(journal[r], e)
    BY <1>6
  <2>2. /\ Len(journal[r]) \in Nat /\ DOMAIN journal[r] = 1..Len(journal[r])
        /\ DOMAIN journal'[r] = 1..(Len(journal[r]) + 1)
        /\ journal'[r][Len(journal[r]) + 1] = e
        /\ \A q \in 1..Len(journal[r]) : journal'[r][q] = journal[r][q]
    BY <1>3, <2>1, AppendFacts, SMTT(60)
  <2>3. CASE p \in 1..Len(journal[r])
    BY <1>4, <2>2, <2>3
  <2>4. CASE p = Len(journal[r]) + 1
    BY <1>2, <2>1, <2>2, <2>4
  <2> QED BY <2>2, <2>3, <2>4
<1>7. journal'[r] = journal[r] \/
      \E e \in JournalRow : (e.child = NoRun \/ Copies(e)) /\ journal'[r] = Append(journal[r], e)
  <2>1. Move(r, runs[r], journal[r], undone[r], runs'[r], journal'[r], undone'[r])
    BY DEF Moved
  <2> QED BY <2>1 DEF Move, Completes, Fails, Iterates
<1> QED BY <1>5, <1>6, <1>7

\* Jobs that stay calm keep the locks of the parents in order.
LEMMA CalmKeepsLocks ==
    ASSUME RunnerInv, Moved, Calm(jobs'), LocksKept
    PROVE  SpawningHoldsRow'
<1> SUFFICES ASSUME NEW j \in Slots
             PROVE  /\ jobs'[j].state # "free" => jobs'[j].run \in Run
                    /\ jobs'[j].state = "spawning" =>
                         /\ runs'[jobs'[j].run].status \in Live
                         /\ runs'[jobs'[j].run].child = NoRun
                         /\ At(jobs[j].run, "childWorkflow")'
                         /\ jobs'[j].child \in Run
                         /\ \A i \in Slots : jobs'[i].state = "spawning"
                                /\ jobs'[i].run = jobs'[j].run => i = j
  BY DEF SpawningHoldsRow
<1>1. SpawningHoldsRow
  BY DEF RunnerInv
<1>2. \A s \in Slots : jobs'[s].state = "spawning" => jobs'[s] = jobs[s]
  BY DEF Calm
<1>3. jobs'[j].state # "free" => jobs'[j].run \in Run
  BY <1>1 DEF Calm, SpawningHoldsRow
<1>4. ASSUME jobs'[j].state = "spawning"
      PROVE  /\ runs'[jobs'[j].run].status \in Live
             /\ runs'[jobs'[j].run].child = NoRun
             /\ At(jobs[j].run, "childWorkflow")'
             /\ jobs'[j].child \in Run
             /\ \A i \in Slots : jobs'[i].state = "spawning"
                    /\ jobs'[i].run = jobs'[j].run => i = j
  <2>1. jobs'[j] = jobs[j] /\ jobs[j].state = "spawning"
    BY <1>2, <1>4
  <2>2. runs'[jobs[j].run] = runs[jobs[j].run]
    BY <1>4, <2>1 DEF LocksKept
  <2>3. /\ runs[jobs[j].run].status \in Live
        /\ runs[jobs[j].run].child = NoRun
        /\ At(jobs[j].run, "childWorkflow")
        /\ jobs[j].child \in Run
        /\ \A i \in Slots : jobs[i].state = "spawning" /\ jobs[i].run = jobs[j].run => i = j
    BY <1>1, <2>1 DEF SpawningHoldsRow
  <2>4. At(jobs[j].run, "childWorkflow")'
    BY <2>1, <2>2, <2>3 DEF At, AtEnd, NodeOf
  <2> QED BY <1>2, <2>1, <2>2, <2>3, <2>4
<1> QED BY <1>3, <1>4

\* A step with an outcome keeps the invariant.
LEMMA OutcomeKeepsInv ==
    ASSUME RunnerInv, Moved, jobs' \in [Slots -> Job], SpawningHoldsRow', Counted
    PROVE  RunnerInv'
<1>1. \A r \in Run : RunOK(r, runs'[r], journal'[r], undone'[r])
  BY MovedKeepsRuns
<1>2. TypeOK'
  <2>1. \A r \in Run : /\ runs'[r] \in RunRow /\ journal'[r] \in Seq(JournalRow)
                       /\ undone'[r] \in Seq(Nat \ {0})
    BY <1>1 DEF RunOK, RunTyped
  <2>2. runs' \in [Run -> RunRow]
    BY <2>1 DEF Moved
  <2>3. journal' \in [Run -> Seq(JournalRow)]
    BY <2>1 DEF Moved
  <2>4. undone' \in [Run -> Seq(Nat \ {0})]
    BY <2>1 DEF Moved
  <2> QED BY <2>2, <2>3, <2>4 DEF TypeOK, Counted
<1>3. (SubstateAtCursor /\ JournalIsPrefix /\ IterationsJournaled /\ SagaComplete)'
  <2>1. (TypeOK => (SubstateAtCursor /\ JournalIsPrefix /\ IterationsJournaled /\ SagaComplete
             <=> \A r \in Run : RunOK(r, runs[r], journal[r], undone[r])))'
    BY InvIsPerRun, PTL
  <2> QED BY <1>1, <1>2, <2>1
<1>4. ChildEndsFirst'
  BY MovedKeepsChildren
<1> QED BY <1>2, <1>3, <1>4 DEF RunnerInv

-----------------------------------------------------------------------------
(* What the handlers do to the jobs *)

\* A dispatch fills a free slot and changes no job.
LEMMA SentFacts ==
    ASSUME RunnerInv, NEW kind \in {"advance", "compensate"}, NEW r \in Run,
           NEW tokens \in Sent(kind, r)
    PROVE  /\ Calm(tokens)
           /\ \A j \in Slots : jobs[j].state # "free" => tokens[j] = jobs[j]
           /\ \A s \in Slots : tokens[s] # jobs[s] => tokens[s] = Queued(kind, r)
<1>1. PICK s \in Slots : jobs[s].state = "free" /\ tokens = [jobs EXCEPT ![s] = Queued(kind, r)]
  BY DEF Sent
<1>2. jobs \in [Slots -> Job]
  BY DEF RunnerInv, TypeOK
<1>3. /\ Queued(kind, r) \in Job
      /\ Queued(kind, r).state = "queued" /\ Queued(kind, r).run = r
  BY DEF Queued, FreeSlot, Job
<1> DEFINE q == Queued(kind, r)
<1>4. q \in Job /\ q.state = "queued" /\ q.run = r
  BY <1>3
<1> HIDE DEF q
<1>5. tokens = [jobs EXCEPT ![s] = q]
  BY <1>1 DEF q
<1>6. tokens \in [Slots -> Job] /\ tokens[s] = q
  BY <1>2, <1>4, <1>5
<1>7. \A i \in Slots : i # s => tokens[i] = jobs[i]
  BY <1>2, <1>5
<1>8. \A i \in Slots : tokens[i] = jobs[i] \/ tokens[i] = q
  BY <1>6, <1>7
<1>9. Calm(tokens)
  BY <1>4, <1>6, <1>8 DEF Calm
<1>10. \A i \in Slots : jobs[i].state # "free" => tokens[i] = jobs[i]
  BY <1>1, <1>7
<1>11. \A i \in Slots : tokens[i] # jobs[i] => tokens[i] = Queued(kind, r)
  BY <1>8 DEF q
<1> QED BY <1>9, <1>10, <1>11

States == {"free", "held", "queued", "begun", "spawning", "continuing", "settling",
           "dead", "stranded"}

\* A job of calm tables that goes on to another state leaves them calm.
LEMMA GoesOn ==
    ASSUME NEW tokens, Calm(tokens), NEW j \in Slots, tokens[j].run \in Run,
           NEW state \in States \ {"spawning"},
           NEW next, next = [tokens EXCEPT ![j].state = state]
    PROVE  Calm(next)
<1>1. tokens \in [Slots -> Job]
  BY DEF Calm
<1>2. tokens[j] \in Job
  BY <1>1
<1>3. next = [tokens EXCEPT ![j] = [tokens[j] EXCEPT !.state = state]]
  BY <1>1
<1>4. /\ [tokens[j] EXCEPT !.state = state] \in Job
      /\ [tokens[j] EXCEPT !.state = state].state = state
      /\ [tokens[j] EXCEPT !.state = state].run = tokens[j].run
  BY <1>2 DEF Job, States
<1> DEFINE new == [tokens[j] EXCEPT !.state = state]
<1>5. new \in Job /\ new.state = state /\ new.run = tokens[j].run
  BY <1>4
<1> HIDE DEF new
<1>6. next = [tokens EXCEPT ![j] = new]
  BY <1>3 DEF new
<1>7. next \in [Slots -> Job] /\ next[j] = new
  BY <1>1, <1>5, <1>6
<1>8. \A s \in Slots : s # j => next[s] = tokens[s]
  BY <1>1, <1>6
<1>9. state # "spawning"
  OBVIOUS
<1> QED BY <1>5, <1>7, <1>8, <1>9 DEF Calm

\* A job that stops is dead or stranded, and was counted.
LEMMA StopFacts ==
    ASSUME RunnerInv, NEW tokens, Calm(tokens), NEW j \in Slots, tokens[j].run \in Run,
           Stop(j, tokens)
    PROVE  Calm(jobs') /\ jobs'[j].state # "spawning" /\ Counted
<1>1. faults \in 0..MaxFaults /\ crashes \in 0..MaxCrashes /\ MaxFaults \in Nat /\ MaxCrashes \in Nat
  BY DurableAssumption DEF RunnerInv, TypeOK
<1>2. Counted
  BY <1>1 DEF Stop, Counted
<1>3. PICK state \in {"dead", "stranded"} : jobs' = [tokens EXCEPT ![j].state = state]
  BY DEF Stop
<1>4. state \in States \ {"spawning"}
  BY DEF States
<1>5. Calm(jobs') /\ jobs'[j].state = state
  <2>1. Calm(jobs')
    BY <1>3, <1>4, GoesOn
  <2>2. tokens \in [Slots -> Job] /\ tokens[j] \in Job
    BY DEF Calm
  <2>3. jobs'[j] = [tokens[j] EXCEPT !.state = state]
    BY <1>3, <2>2
  <2>4. jobs'[j].state = state
    BY <2>2, <2>3 DEF Job
  <2> QED BY <2>1, <2>4
<1> QED BY <1>2, <1>4, <1>5

\* If one run moves, and no other job is starting a child for it, all do.
LEMMA OneMoves ==
    ASSUME RunnerInv, NEW r \in Run, NEW row, NEW log, NEW und,
           runs' = [runs EXCEPT ![r] = row],
           journal' = [journal EXCEPT ![r] = log],
           undone' = [undone EXCEPT ![r] = und],
           Move(r, runs[r], journal[r], undone[r], row, log, und)
    PROVE  Moved
<1>1. /\ runs \in [Run -> RunRow] /\ journal \in [Run -> Seq(JournalRow)]
      /\ undone \in [Run -> Seq(Nat \ {0})]
  BY DEF RunnerInv, TypeOK
<1>2. /\ runs' = [q \in Run |-> runs'[q]]
      /\ journal' = [q \in Run |-> journal'[q]]
      /\ undone' = [q \in Run |-> undone'[q]]
  BY <1>1
<1>3. runs'[r] = row /\ journal'[r] = log /\ undone'[r] = und
  BY <1>1
<1>4. \A q \in Run \ {r} : runs'[q] = runs[q] /\ journal'[q] = journal[q] /\ undone'[q] = undone[q]
  BY <1>1
<1>5. ASSUME NEW q \in Run
      PROVE  Move(q, runs[q], journal[q], undone[q], runs'[q], journal'[q], undone'[q])
  <2>1. CASE q = r
    BY <1>3, <2>1
  <2>2. CASE q # r
    BY <1>4, <2>2 DEF Move
  <2> QED BY <2>1, <2>2
<1> QED BY <1>2, <1>5 DEF Moved

\* The same for a step that changes only the row.
LEMMA OneRowMoves ==
    ASSUME RunnerInv, NEW r \in Run, NEW row, runs' = [runs EXCEPT ![r] = row],
           UNCHANGED <<journal, undone>>,
           Move(r, runs[r], journal[r], undone[r], row, journal[r], undone[r])
    PROVE  Moved
<1>1. /\ runs \in [Run -> RunRow] /\ journal \in [Run -> Seq(JournalRow)]
      /\ undone \in [Run -> Seq(Nat \ {0})]
  BY DEF RunnerInv, TypeOK
<1>2. /\ runs' = [q \in Run |-> runs'[q]]
      /\ journal' = [q \in Run |-> journal'[q]]
      /\ undone' = [q \in Run |-> undone'[q]]
  BY <1>1
<1>3. runs'[r] = row /\ \A q \in Run \ {r} : runs'[q] = runs[q]
  BY <1>1
<1>4. ASSUME NEW q \in Run
      PROVE  Move(q, runs[q], journal[q], undone[q], runs'[q], journal'[q], undone'[q])
  <2>1. CASE q = r
    BY <1>3, <2>1
  <2>2. CASE q # r
    BY <1>3, <2>2 DEF Move
  <2> QED BY <2>1, <2>2
<1> QED BY <1>2, <1>4 DEF Moved

\* If no run changes, all stay.
LEMMA NoneMoves ==
    ASSUME RunnerInv, UNCHANGED <<runs, journal, undone>>
    PROVE  Moved /\ LocksKept
<1>1. /\ runs \in [Run -> RunRow] /\ journal \in [Run -> Seq(JournalRow)]
      /\ undone \in [Run -> Seq(Nat \ {0})]
  BY DEF RunnerInv, TypeOK
<1>2. /\ runs' = [q \in Run |-> runs'[q]]
      /\ journal' = [q \in Run |-> journal'[q]]
      /\ undone' = [q \in Run |-> undone'[q]]
  BY <1>1
<1>3. \A q \in Run : Move(q, runs[q], journal[q], undone[q], runs'[q], journal'[q], undone'[q])
  BY DEF Move
<1> QED BY <1>2, <1>3 DEF Moved, LocksKept

\* What the invariant says of a job in the tables and of its run.
LEMMA JobFacts ==
    ASSUME RunnerInv, NEW j \in Slots, jobs[j].state # "free"
    PROVE  /\ jobs[j].run \in Run
           /\ jobs[j] \in Job /\ jobs[j].began \in Nat
           /\ runs[jobs[j].run] \in RunRow
           /\ journal[jobs[j].run] \in Seq(JournalRow)
           /\ undone[jobs[j].run] \in Seq(Nat \ {0})
           /\ Substate(jobs[j].run, runs[jobs[j].run])
<1>1. jobs[j].run \in Run
  BY DEF RunnerInv, SpawningHoldsRow
<1>2. jobs[j] \in Job /\ jobs[j].began \in Nat
  BY DEF RunnerInv, TypeOK, Job
<1>3. RunOK(jobs[j].run, runs[jobs[j].run], journal[jobs[j].run], undone[jobs[j].run])
  BY <1>1, InvIsPerRun DEF RunnerInv
<1> QED BY <1>1, <1>2, <1>3 DEF RunOK, RunTyped

\* A step that changes one run whose row no parent goes on locking keeps locks.
LEMMA UnlockedMoves ==
    ASSUME RunnerInv, NEW r \in Run, \A q \in Run \ {r} : runs'[q] = runs[q],
           \A s \in Slots : jobs'[s].state = "spawning" /\ jobs'[s] = jobs[s] => jobs[s].run # r
    PROVE  LocksKept
<1> SUFFICES ASSUME NEW s \in Slots, jobs'[s].state = "spawning", jobs'[s] = jobs[s]
             PROVE  runs'[jobs[s].run] = runs[jobs[s].run]
  BY DEF LocksKept
<1>1. jobs[s].state # "free"
  OBVIOUS
<1>2. jobs[s].run \in Run
  BY <1>1, JobFacts
<1> QED BY <1>2

\* The transaction of a handler moves the run by the row and log it writes, or
\* not at all.
LEMMA TransactionOutcome ==
    ASSUME RunnerInv, NEW j \in Slots, jobs[j].state # "free",
           ~RowLocked(jobs[j].run) \/ jobs[j].state = "spawning",
           NEW row, NEW log, NEW kinds \in SUBSET {"advance", "compensate"},
           NEW next \in {"continuing", "settling"},
           Transaction(j, row, log, kinds, next), UNCHANGED undone,
           Move(jobs[j].run, runs[jobs[j].run], journal[jobs[j].run], undone[jobs[j].run],
                row, log, undone[jobs[j].run])
    PROVE  Outcome
<1> DEFINE r == jobs[j].run
           Tokens == IF kinds = {} THEN {jobs} ELSE UNION {Sent(k, r) : k \in kinds}
<1>1. r \in Run /\ jobs[j] \in Job
  BY JobFacts
<1>2. Calm(jobs)
  BY DEF Calm, RunnerInv, TypeOK
<1>3. \A tokens \in Tokens \cup {jobs} : Calm(tokens) /\ tokens[j] = jobs[j]
  <2>1. \A k \in kinds : \A tokens \in Sent(k, r) : Calm(tokens) /\ tokens[j] = jobs[j]
    BY <1>1, SentFacts
  <2> QED BY <1>2, <2>1
<1>4. /\ \/ /\ runs' = [runs EXCEPT ![r] = row]
            /\ journal' = [journal EXCEPT ![r] = log]
         \/ UNCHANGED <<runs, journal>>
      /\ \E tokens \in Tokens \cup {jobs} :
            \/ jobs' = [tokens EXCEPT ![j].state = next] /\ UNCHANGED <<faults, crashes>>
            \/ Stop(j, tokens)
  BY DEF Transaction
<1> HIDE DEF Tokens
<1>5. Calm(jobs') /\ jobs'[j].state # "spawning" /\ Counted
  <2>1. PICK tokens \in Tokens \cup {jobs} :
            \/ jobs' = [tokens EXCEPT ![j].state = next] /\ UNCHANGED <<faults, crashes>>
            \/ Stop(j, tokens)
    BY <1>4
  <2>2. Calm(tokens) /\ tokens[j] = jobs[j]
    BY <1>3, <2>1
  <2>3. CASE jobs' = [tokens EXCEPT ![j].state = next] /\ UNCHANGED <<faults, crashes>>
    <3>1. next \in States \ {"spawning"}
      BY DEF States
    <3>2. Calm(jobs')
      BY <1>1, <2>2, <2>3, <3>1, GoesOn
    <3>3. tokens \in [Slots -> Job] /\ tokens[j] \in Job
      BY <2>2 DEF Calm
    <3>4. jobs'[j] = [tokens[j] EXCEPT !.state = next]
      BY <2>3, <3>3
    <3>5. jobs'[j].state # "spawning"
      BY <3>3, <3>4 DEF Job
    <3>6. Counted
      BY <2>3 DEF Counted, RunnerInv, TypeOK
    <3> QED BY <3>2, <3>5, <3>6
  <2>4. CASE Stop(j, tokens)
    BY <1>1, <2>2, <2>4, StopFacts
  <2> QED BY <2>1, <2>3, <2>4
<1>6. CASE runs' = [runs EXCEPT ![r] = row] /\ journal' = [journal EXCEPT ![r] = log]
  <2>1. undone' = [undone EXCEPT ![r] = undone[r]]
    BY DEF RunnerInv, TypeOK
  <2>2. Moved
    BY <1>1, <1>6, <2>1, OneMoves, ZenonT(60)
  <2>3. \A q \in Run \ {r} : runs'[q] = runs[q]
    BY <1>6 DEF RunnerInv, TypeOK
  <2>4. ASSUME NEW s \in Slots, jobs'[s].state = "spawning", jobs'[s] = jobs[s]
        PROVE  jobs[s].run # r
    <3>1. s # j /\ jobs[s].state = "spawning"
      BY <1>5, <2>4
    <3>2. CASE ~RowLocked(r)
      BY <3>1, <3>2 DEF RowLocked
    <3>3. CASE jobs[j].state = "spawning"
      BY <3>1, <3>3 DEF RunnerInv, SpawningHoldsRow
    <3> QED BY <3>2, <3>3
  <2>5. LocksKept
    BY <1>1, <2>3, <2>4, UnlockedMoves
  <2> QED BY <1>5, <2>2, <2>5 DEF Outcome
<1>7. CASE UNCHANGED <<runs, journal>>
  BY <1>5, <1>7, NoneMoves DEF Outcome
<1> QED BY <1>4, <1>6, <1>7

-----------------------------------------------------------------------------
(* The four outcomes of a node *)

\* A completed node completes the run's cursor node.
LEMMA NodeCompletedOutcome ==
    ASSUME RunnerInv, NEW j \in Slots, Advancing(j), NEW child \in Run \cup {NoRun},
           child # NoRun => runs[child].status = "completed",
           ~runs[jobs[j].run].awaiting, NodeCompleted(j, child)
    PROVE  Outcome
<1> DEFINE r == jobs[j].run
           row == [runs[r] EXCEPT !.status = "running", !.cursor = @ + 1, !.attempts = 0,
                                  !.sleep = "none", !.iteration = 0, !.child = NoRun]
           entry == NodeRow(j, "completed", "none", child)
<1>1. jobs[j].state # "free" /\ ~RowLocked(r) /\ runs[r].status \in Live
  BY DEF Advancing
<1>2. r \in Run /\ runs[r] \in RunRow /\ jobs[j].began \in Nat
  BY <1>1, JobFacts
<1>3. entry \in JournalRow /\ entry.kind = "node" /\ entry.status = "completed"
      /\ entry.node = runs[r].cursor /\ entry.child = child
  BY <1>2 DEF NodeRow, JournalRow, RunRow
<1>4. /\ row \in RunRow /\ row.status = "running" /\ row.cursor = runs[r].cursor + 1
      /\ row.sleep = "none" /\ row.awaiting = runs[r].awaiting /\ row.iteration = 0
      /\ row.child = NoRun
  <2>1. runs[r].cursor + 1 \in Nat \ {0}
    BY <1>2 DEF RunRow
  <2> QED BY <1>2, <2>1 DEF RunRow, Live
<1>5. Transaction(j, row, Append(journal[r], entry), {}, "continuing") /\ UNCHANGED undone
  BY DEF NodeCompleted, Logged
<1> HIDE DEF row, entry
<1>6. Copies(entry)
  BY <1>3 DEF Copies
<1>7. Completes(r, runs[r], journal[r], row, Append(journal[r], entry))
  BY <1>1, <1>3, <1>4, <1>6 DEF Completes, Clean
<1>8. Move(r, runs[r], journal[r], undone[r], row, Append(journal[r], entry), undone[r])
  BY <1>7 DEF Move
<1> QED BY <1>1, <1>5, <1>8, TransactionOutcome, SMTT(60)

\* A failed node sets its run to compensate.
LEMMA NodeFailedOutcome ==
    ASSUME RunnerInv, NEW j \in Slots, Advancing(j), NEW child \in Run \cup {NoRun},
           child # NoRun => runs[child].status = "failed",
           NEW error \in {"none", "threw", "ceiling", "child"}, NodeFailed(j, error, child)
    PROVE  Outcome
<1> DEFINE r == jobs[j].run
           row == [runs[r] EXCEPT !.status = "compensating"]
           entry == NodeRow(j, "failed", error, child)
<1>1. jobs[j].state # "free" /\ ~RowLocked(r) /\ runs[r].status \in Live
  BY DEF Advancing
<1>2. r \in Run /\ runs[r] \in RunRow /\ jobs[j].began \in Nat
  BY <1>1, JobFacts
<1>3. entry \in JournalRow /\ entry.kind = "node" /\ entry.status = "failed"
      /\ entry.node = runs[r].cursor /\ entry.child = child
  BY <1>2 DEF NodeRow, JournalRow, RunRow
<1>4. Transaction(j, row, Append(journal[r], entry), {"compensate"}, "settling")
      /\ UNCHANGED undone
  BY DEF NodeFailed, Logged
<1> HIDE DEF entry
<1>5. Copies(entry)
  BY <1>3 DEF Copies
<1>6. Fails(r, runs[r], journal[r], row, Append(journal[r], entry))
  BY <1>1, <1>3, <1>5 DEF Fails
<1> HIDE DEF row
<1>7. Move(r, runs[r], journal[r], undone[r], row, Append(journal[r], entry), undone[r])
  BY <1>6 DEF Move
<1> QED BY <1>1, <1>4, <1>7, TransactionOutcome, SMTT(60)

\* A retried node leaves its run where it is.
LEMMA NodeRetriedOutcome ==
    ASSUME RunnerInv, NEW j \in Slots, Advancing(j), NodeRetried(j)
    PROVE  Outcome
<1> DEFINE r == jobs[j].run
           row == [runs[r] EXCEPT !.attempts = @ + 1]
<1>1. jobs[j].state # "free" /\ ~RowLocked(r) /\ runs[r].status \in Live
  BY DEF Advancing
<1>2. r \in Run /\ runs[r] \in RunRow /\ Substate(r, runs[r])
  BY <1>1, JobFacts
<1>3. /\ row \in RunRow /\ row.status = runs[r].status /\ row.cursor = runs[r].cursor
      /\ row.sleep = runs[r].sleep /\ row.awaiting = runs[r].awaiting
      /\ row.iteration = runs[r].iteration /\ row.child = runs[r].child
  BY <1>2 DEF RunRow
<1>4. Transaction(j, row, journal[r], {"advance"}, "settling") /\ UNCHANGED undone
  BY DEF NodeRetried
<1> HIDE DEF row
<1>5. Stays(r, runs[r], row)
  BY <1>1, <1>2, <1>3 DEF Stays, Substate, Here
<1>6. Move(r, runs[r], journal[r], undone[r], row, journal[r], undone[r])
  BY <1>5 DEF Move
<1> QED BY <1>1, <1>4, <1>6, TransactionOutcome, SMTT(60)

\* A run parks at the node it is at.
LEMMA ParkedOutcome ==
    ASSUME RunnerInv, NEW j \in Slots, jobs[j].state # "free",
           ~RowLocked(jobs[j].run) \/ jobs[j].state = "spawning",
           runs[jobs[j].run].status \in Live,
           NEW row \in RunRow, Substate(jobs[j].run, row),
           row.cursor = runs[jobs[j].run].cursor,
           row.iteration = runs[jobs[j].run].iteration,
           NEW kinds \in SUBSET {"advance", "compensate"},
           Transaction(j, [row EXCEPT !.status = "waiting"], journal[jobs[j].run],
                       kinds, "settling"),
           UNCHANGED undone
    PROVE  Outcome
<1> DEFINE r == jobs[j].run
           row1 == [row EXCEPT !.status = "waiting"]
<1>1. /\ row1 \in RunRow /\ row1.status = "waiting" /\ row1.cursor = row.cursor
      /\ row1.sleep = row.sleep /\ row1.awaiting = row.awaiting
      /\ row1.iteration = row.iteration /\ row1.child = row.child
  BY DEF RunRow, Live
<1>2. Transaction(j, row1, journal[r], kinds, "settling")
  OBVIOUS
<1> HIDE DEF row1
<1>3. Stays(r, runs[r], row1)
  BY <1>1 DEF Stays, Substate, Here
<1>4. Move(r, runs[r], journal[r], undone[r], row1, journal[r], undone[r])
  BY <1>3 DEF Move
<1> QED BY <1>2, <1>4, TransactionOutcome, SMTT(60)

-----------------------------------------------------------------------------
(* The outcome of each action *)

\* At a node of one type there is no sub-state of another.
LEMMA AtFacts ==
    ASSUME RunnerInv, NEW r \in Run, NEW type, At(r, type)
    PROVE  /\ Here(r, runs[r], type)
           /\ type # "sleep" => runs[r].sleep = "none"
           /\ type # "waitForSignal" => ~runs[r].awaiting
           /\ type # "loop" => runs[r].iteration = 0
           /\ type # "childWorkflow" => runs[r].child = NoRun
<1>1. Here(r, runs[r], type)
  BY AtIsHere DEF RunnerInv
<1>2. Substate(r, runs[r]) /\ runs[r].iteration \in Nat
  BY InvIsPerRun DEF RunnerInv, RunOK, TypeOK, RunRow
<1> QED BY <1>1, <1>2 DEF Substate, Here

\* A step that changes one job only, to another state.
LEMMA JobGoesOn ==
    ASSUME RunnerInv, NEW j \in Slots, jobs[j].state # "free",
           NEW state \in States \ {"spawning"},
           jobs' = [jobs EXCEPT ![j].state = state],
           UNCHANGED <<runs, journal, undone, faults, crashes>>
    PROVE  Outcome
<1>1. Calm(jobs) /\ jobs[j].run \in Run
  BY JobFacts DEF Calm, RunnerInv, TypeOK
<1>2. Calm(jobs')
  BY <1>1, GoesOn
<1>3. Counted
  BY DEF Counted, RunnerInv, TypeOK
<1> QED BY <1>2, <1>3, NoneMoves DEF Outcome

\* A step that replaces one job by one that is not starting a child.
LEMMA JobReplaced ==
    ASSUME RunnerInv, NEW j \in Slots, NEW new \in Job, new.state # "spawning",
           new.state # "free" => new.run \in Run,
           jobs' = [jobs EXCEPT ![j] = new], UNCHANGED <<runs, journal, undone>>, Counted
    PROVE  Outcome
<1>1. jobs \in [Slots -> Job]
  BY DEF RunnerInv, TypeOK
<1>2. Calm(jobs')
  BY <1>1 DEF Calm
<1> QED BY <1>2, NoneMoves DEF Outcome

\* A step that only stops a job, or counts and moves jobs calmly.
LEMMA CountKept ==
    ASSUME RunnerInv, UNCHANGED <<faults, crashes>>
    PROVE  Counted
BY DEF Counted, RunnerInv, TypeOK

\* The free slot and a queued job are jobs.
LEMMA FreshJobs ==
    /\ FreeSlot \in Job /\ FreeSlot.state = "free"
    /\ \A kind \in {"advance", "compensate"}, r \in Run :
          Queued(kind, r) \in Job /\ Queued(kind, r).state = "queued" /\ Queued(kind, r).run = r
BY DEF FreeSlot, Queued, Job

\* The steps of the worker around the handlers.
LEMMA WorkerOutcome ==
    ASSUME RunnerInv, NEW j \in Slots,
           Begin(j) \/ Continue(j) \/ Settle(j) \/ Requeue(j) \/ RunNotFound(j) \/ UowEnds(j)
             \/ AlreadyFinished(j) \/ CompensateSkips(j) \/ ChildNotStarted(j)
             \/ NodeFunctionThrows(j)
    PROVE  Outcome
<1>1. jobs[j].state # "free"
  BY DEF Begin, Continue, Settle, Requeue, RunNotFound, UowEnds, AlreadyFinished,
         CompensateSkips, ChildNotStarted, NodeFunctionThrows, Advancing
<1>2. /\ jobs[j].run \in Run /\ jobs[j] \in Job /\ jobs \in [Slots -> Job]
      /\ journal[jobs[j].run] \in Seq(JournalRow) /\ jobs[j].kind \in {"advance", "compensate"}
  BY <1>1, JobFacts DEF RunnerInv, TypeOK, Job
<1>3. Calm(jobs)
  BY <1>2 DEF Calm
<1>4. {"queued", "settling", "dead"} \subseteq States \ {"spawning"}
  BY DEF States
<1>5. CASE Begin(j)
  <2> DEFINE n == Len(journal[jobs[j].run])
             new == [jobs[j] EXCEPT !.state = "begun", !.began = n]
  <2>1. n \in Nat
    BY <1>2
  <2>2. jobs' = [jobs EXCEPT ![j] = new]
    BY <1>2, <1>5 DEF Begin
  <2> HIDE DEF n
  <2>3. new \in Job /\ new.state = "begun" /\ new.run = jobs[j].run
    BY <1>2, <2>1 DEF Job
  <2> HIDE DEF new
  <2> QED BY <1>2, <1>5, <2>2, <2>3, JobReplaced, CountKept DEF Begin
<1>6. CASE Continue(j)
  <2>1. PICK tokens \in Sent("advance", jobs[j].run) \cup {jobs} :
           \/ jobs' = [tokens EXCEPT ![j].state = "settling"] /\ UNCHANGED <<faults, crashes>>
           \/ Stop(j, tokens)
    BY <1>6 DEF Continue
  <2>2. Calm(tokens) /\ tokens[j] = jobs[j]
    BY <1>1, <1>2, <1>3, SentFacts
  <2>3. UNCHANGED <<runs, journal, undone>>
    BY <1>6 DEF Continue
  <2>4. Calm(jobs') /\ Counted
    BY <1>2, <1>4, <2>1, <2>2, GoesOn, StopFacts, CountKept
  <2> QED BY <2>3, <2>4, NoneMoves DEF Outcome
<1>7. CASE Settle(j)
  <2>1. CASE jobs' = [jobs EXCEPT ![j] = FreeSlot] /\ UNCHANGED <<faults, crashes>>
    BY <1>7, <2>1, FreshJobs, JobReplaced, CountKept DEF Settle
  <2>2. CASE Stop(j, jobs)
    BY <1>2, <1>3, <1>7, <2>2, StopFacts, NoneMoves DEF Settle, Outcome
  <2> QED BY <1>7, <2>1, <2>2 DEF Settle
<1>8. CASE Requeue(j)
  BY <1>2, <1>8, FreshJobs, JobReplaced, CountKept DEF Requeue
<1>9. CASE RunNotFound(j) \/ ChildNotStarted(j) \/ NodeFunctionThrows(j)
  BY <1>1, <1>4, <1>9, JobGoesOn DEF RunNotFound, ChildNotStarted, NodeFunctionThrows
<1>10. CASE UowEnds(j)
  <2>1. CASE jobs' = [jobs EXCEPT ![j].state = "queued"]
    BY <1>1, <1>4, <1>10, <2>1, JobGoesOn DEF UowEnds
  <2>2. CASE jobs' = [jobs EXCEPT ![j] = FreeSlot]
    BY <1>10, <2>2, FreshJobs, JobReplaced, CountKept DEF UowEnds
  <2> QED BY <1>10, <2>1, <2>2 DEF UowEnds
<1>11. CASE AlreadyFinished(j) \/ CompensateSkips(j)
  BY <1>1, <1>4, <1>11, JobGoesOn DEF AlreadyFinished, CompensateSkips
<1> QED BY <1>5, <1>6, <1>7, <1>8, <1>9, <1>10, <1>11

\* The steps of advance() that end in one of the outcomes of a node.
LEMMA NodeOutcome ==
    ASSUME RunnerInv, NEW j \in Slots,
           StepReturns(j) \/ HandlerThrows(j) \/ SleepEnds(j) \/ LoopEnds(j) \/ LoopFails(j)
             \/ ChildStartThrows(j)
    PROVE  Outcome
<1> DEFINE r == jobs[j].run
<1>1. Advancing(j) /\ jobs[j].state # "free"
  BY DEF StepReturns, HandlerThrows, SleepEnds, LoopEnds, LoopFails, ChildStartThrows, Advancing
<1>2. r \in Run
  BY <1>1, JobFacts
<1>3. NoRun \in Run \cup {NoRun}
  OBVIOUS
<1>4. CASE StepReturns(j) \/ SleepEnds(j) \/ LoopEnds(j)
  <2>1. NodeCompleted(j, NoRun) /\ (At(r, "step") \/ At(r, "sleep") \/ At(r, "loop"))
    BY <1>4 DEF StepReturns, SleepEnds, LoopEnds
  <2>2. ~runs[r].awaiting
    BY <1>2, <2>1, AtFacts
  <2> QED BY <1>1, <1>3, <2>1, <2>2, NodeCompletedOutcome
<1>5. CASE HandlerThrows(j) \/ LoopFails(j) \/ ChildStartThrows(j)
  <2>1. NodeRetried(j) \/ NodeFailed(j, "threw", NoRun) \/ NodeFailed(j, "ceiling", NoRun)
    BY <1>5 DEF HandlerThrows, LoopFails, ChildStartThrows
  <2> QED BY <1>1, <1>3, <2>1, NodeRetriedOutcome, NodeFailedOutcome
<1> QED BY <1>4, <1>5

\* A finished child's outcome is copied, a live one is polled again.
LEMMA ChildPolledOutcome ==
    ASSUME RunnerInv, NEW j \in Slots, ChildPolled(j)
    PROVE  Outcome
<1> DEFINE r == jobs[j].run
           c == runs[r].child
<1>1. /\ Advancing(j) /\ At(r, "childWorkflow") /\ c # NoRun
      /\ \/ runs[c].status = "completed" /\ NodeCompleted(j, c)
         \/ runs[c].status = "failed" /\ NodeFailed(j, "child", c)
         \/ runs[c].status \in Live /\ Parked(j, runs[r], journal[r])
  BY DEF ChildPolled
<1>2. jobs[j].state # "free" /\ ~RowLocked(r) /\ runs[r].status \in Live
  BY <1>1 DEF Advancing
<1>3. r \in Run /\ runs[r] \in RunRow /\ Substate(r, runs[r])
  BY <1>2, JobFacts
<1>4. c \in Run \cup {NoRun}
  BY <1>3 DEF RunRow
<1>5. CASE runs[c].status = "completed" /\ NodeCompleted(j, c)
  <2>1. ~runs[r].awaiting
    BY <1>1, <1>3, AtFacts
  <2> QED BY <1>1, <1>4, <1>5, <2>1, NodeCompletedOutcome
<1>6. CASE runs[c].status = "failed" /\ NodeFailed(j, "child", c)
  BY <1>1, <1>4, <1>6, NodeFailedOutcome
<1>7. CASE Parked(j, runs[r], journal[r])
  BY <1>2, <1>3, <1>7, ParkedOutcome DEF Parked
<1> QED BY <1>1, <1>5, <1>6, <1>7

\* The run parks, asleep, awaiting a signal, or with the child it started.
LEMMA ParksOutcome ==
    ASSUME RunnerInv, NEW j \in Slots, SleepParks(j) \/ AwaitSignal(j) \/ ChildStarted(j)
    PROVE  Outcome
<1> DEFINE r == jobs[j].run
<1>1. jobs[j].state # "free"
  BY DEF SleepParks, AwaitSignal, ChildStarted, Advancing
<1>2. r \in Run /\ jobs[j] \in Job /\ runs[r] \in RunRow /\ Substate(r, runs[r])
  BY <1>1, JobFacts
<1>3. runs[r].status \in Live /\ (~RowLocked(r) \/ jobs[j].state = "spawning")
  BY DEF SleepParks, AwaitSignal, ChildStarted, Advancing, RunnerInv, SpawningHoldsRow
<1>4. CASE SleepParks(j)
  <2> DEFINE row == [runs[r] EXCEPT !.sleep = "asleep"]
  <2>1. /\ row \in RunRow /\ row.cursor = runs[r].cursor /\ row.iteration = runs[r].iteration
        /\ row.awaiting = runs[r].awaiting /\ row.child = runs[r].child
    BY <1>2 DEF RunRow
  <2>2. At(r, "sleep")
    BY <1>4 DEF SleepParks
  <2>3. Here(r, runs[r], "sleep")
    BY <1>2, <2>2, AtFacts
  <2>4. Transaction(j, [row EXCEPT !.status = "waiting"], journal[r], {"advance"}, "settling")
        /\ UNCHANGED undone
    BY <1>4 DEF SleepParks, Parked
  <2> HIDE DEF row
  <2>5. Substate(r, row)
    BY <1>2, <2>1, <2>3 DEF Substate, Here
  <2> QED BY <1>1, <1>3, <2>1, <2>4, <2>5, ParkedOutcome
<1>5. CASE AwaitSignal(j)
  <2> DEFINE row == [runs[r] EXCEPT !.awaiting = TRUE]
  <2>1. /\ row \in RunRow /\ row.cursor = runs[r].cursor /\ row.iteration = runs[r].iteration
        /\ row.sleep = runs[r].sleep /\ row.child = runs[r].child
    BY <1>2 DEF RunRow
  <2>2. At(r, "waitForSignal")
    BY <1>5 DEF AwaitSignal
  <2>3. Here(r, runs[r], "waitForSignal")
    BY <1>2, <2>2, AtFacts
  <2>4. [runs[r] EXCEPT !.status = "waiting", !.awaiting = TRUE] = [row EXCEPT !.status = "waiting"]
    BY <1>2 DEF RunRow
  <2>5. Transaction(j, [row EXCEPT !.status = "waiting"], journal[r], {}, "settling")
        /\ UNCHANGED undone
    BY <1>5, <2>4 DEF AwaitSignal
  <2> HIDE DEF row
  <2>6. Substate(r, row)
    BY <1>2, <2>1, <2>3 DEF Substate, Here
  <2>7. {} \in SUBSET {"advance", "compensate"}
    OBVIOUS
  <2> QED BY <1>1, <1>3, <2>1, <2>5, <2>6, <2>7, ParkedOutcome, SMTT(60)
<1>6. CASE ChildStarted(j)
  <2> DEFINE row == [runs[r] EXCEPT !.child = jobs[j].child]
  <2>1. At(r, "childWorkflow") /\ jobs[j].child \in Run
    BY <1>6 DEF ChildStarted, RunnerInv, SpawningHoldsRow
  <2>2. /\ row \in RunRow /\ row.cursor = runs[r].cursor /\ row.iteration = runs[r].iteration
        /\ row.sleep = runs[r].sleep /\ row.awaiting = runs[r].awaiting
    BY <1>2, <2>1 DEF RunRow
  <2>3. Here(r, runs[r], "childWorkflow")
    BY <1>2, <2>1, AtFacts
  <2>4. Transaction(j, [row EXCEPT !.status = "waiting"], journal[r], {"advance"}, "settling")
        /\ UNCHANGED undone
    BY <1>6 DEF ChildStarted, Parked
  <2> HIDE DEF row
  <2>5. Substate(r, row)
    BY <1>2, <2>2, <2>3 DEF Substate, Here
  <2> QED BY <1>1, <1>3, <2>2, <2>4, <2>5, ParkedOutcome
<1> QED BY <1>4, <1>5, <1>6

\* A loop journals its next iteration.
LEMMA LoopIteratesOutcome ==
    ASSUME RunnerInv, NEW j \in Slots, LoopIterates(j)
    PROVE  Outcome
<1> DEFINE r == jobs[j].run
           i == runs[r].iteration
           row == [runs[r] EXCEPT !.iteration = i + 1]
           row1 == [row EXCEPT !.status = "waiting"]
           entry == [NodeRow(j, "completed", "none", NoRun)
                        EXCEPT !.kind = "iteration", !.iteration = i]
<1>1. jobs[j].state # "free" /\ ~RowLocked(r) /\ runs[r].status \in Live /\ At(r, "loop")
  BY DEF LoopIterates, Advancing
<1>2. r \in Run /\ runs[r] \in RunRow /\ jobs[j].began \in Nat
  BY <1>1, JobFacts
<1>3. Here(r, runs[r], "loop")
  BY <1>1, <1>2, AtFacts
<1>4. /\ entry \in JournalRow /\ entry.kind = "iteration" /\ entry.node = runs[r].cursor
      /\ entry.iteration = i /\ entry.child = NoRun
  BY <1>2 DEF NodeRow, JournalRow, RunRow
<1>5. row1 = [runs[r] EXCEPT !.status = "waiting", !.iteration = i + 1]
  BY <1>2 DEF RunRow
<1>6. Transaction(j, row1, Append(journal[r], entry), {"advance"}, "settling") /\ UNCHANGED undone
  BY DEF LoopIterates, Parked, Logged
<1> HIDE DEF row1, entry
<1>7. Iterates(r, runs[r], journal[r], row1, Append(journal[r], entry))
  BY <1>1, <1>3, <1>4, <1>5 DEF Iterates
<1>8. Move(r, runs[r], journal[r], undone[r], row1, Append(journal[r], entry), undone[r])
  BY <1>7 DEF Move
<1> QED BY <1>1, <1>6, <1>8, TransactionOutcome, SMTT(60)

\* A run past its last node finishes.
LEMMA RunCompletedOutcome ==
    ASSUME RunnerInv, NEW j \in Slots, RunCompleted(j)
    PROVE  Outcome
<1> DEFINE r == jobs[j].run
           row == [NewRun EXCEPT !.status = "completed", !.cursor = runs[r].cursor]
<1>1. jobs[j].state # "free" /\ ~RowLocked(r) /\ runs[r].status \in Live
  BY DEF RunCompleted, Advancing
<1>2. runs[r].cursor > Len(Workflow[r])
  BY DEF RunCompleted, AtEnd
<1>3. Transaction(j, row, journal[r], {}, "settling") /\ UNCHANGED undone
  BY DEF RunCompleted
<1>4. Finishes(r, runs[r], row)
  BY <1>1, <1>2 DEF Finishes
<1> HIDE DEF row
<1>5. Move(r, runs[r], journal[r], undone[r], row, journal[r], undone[r])
  BY <1>4 DEF Move
<1> QED BY <1>1, <1>3, <1>5, TransactionOutcome, SMTT(60)

\* A run that starts is nobody's locked row: parents that start a child are live.
LEMMA StartsOutcome ==
    ASSUME RunnerInv, NEW r \in Run, runs[r].status \in Missing,
           NEW status \in {"opening", "void", "pending"},
           runs' = [runs EXCEPT ![r].status = status],
           UNCHANGED <<journal, undone>>, Calm(jobs'), Counted
    PROVE  Outcome
<1> DEFINE row == [runs[r] EXCEPT !.status = status]
<1>1. runs' = [runs EXCEPT ![r] = row]
  BY DEF RunnerInv, TypeOK
<1>3. Starts(runs[r], row)
  BY DEF Starts
<1> HIDE DEF row
<1>4. Move(r, runs[r], journal[r], undone[r], row, journal[r], undone[r])
  BY <1>3 DEF Move
<1>5. Moved
  BY <1>1, <1>4, OneRowMoves
<1>6. \A q \in Run \ {r} : runs'[q] = runs[q]
  BY <1>1 DEF RunnerInv, TypeOK
<1>7. ASSUME NEW s \in Slots, jobs'[s].state = "spawning", jobs'[s] = jobs[s]
      PROVE  jobs[s].run # r
  BY <1>7 DEF RunnerInv, SpawningHoldsRow, Live, Missing
<1>8. LocksKept
  BY <1>6, <1>7, UnlockedMoves
<1> QED BY <1>5, <1>8 DEF Outcome

\* Starting a run, by a client.
LEMMA StartOutcome ==
    ASSUME RunnerInv, NEW r \in Run,
           StartOpen(r) \/ StartCommit(r) \/ StartRollback(r) \/ StartInUow(r)
    PROVE  Outcome
<1>1. Calm(jobs)
  BY DEF Calm, RunnerInv, TypeOK
<1>2. CASE StartOpen(r)
  <2>1. Calm(jobs')
    BY <1>2, SentFacts DEF StartOpen
  <2> QED BY <1>2, <2>1, StartsOutcome, CountKept DEF StartOpen, Missing
<1>3. CASE StartCommit(r)
  <2>1. Calm(jobs')
    BY <1>1, <1>3 DEF StartCommit, Calm
  <2> QED BY <1>3, <2>1, StartsOutcome, CountKept DEF StartCommit, Missing
<1>4. CASE StartRollback(r)
  <2>1. Calm(jobs')
    BY <1>1, <1>4 DEF StartRollback, Calm
  <2>2. Counted
    BY <1>4, DurableAssumption DEF StartRollback, Counted, RunnerInv, TypeOK
  <2> QED BY <1>4, <2>1, <2>2, StartsOutcome DEF StartRollback, Missing
<1>5. CASE StartInUow(r)
  <2>1. PICK tokens \in Sent("advance", r), s \in Slots :
           tokens[s] # jobs[s] /\ jobs' = [tokens EXCEPT ![s].state = "held"]
    BY <1>5 DEF StartInUow
  <2>2. Calm(tokens) /\ tokens[s].run = r
    BY <2>1, SentFacts, FreshJobs
  <2>3. "held" \in States \ {"spawning"}
    BY DEF States
  <2>4. Calm(jobs')
    BY <2>1, <2>2, <2>3, GoesOn
  <2> QED BY <1>5, <2>4, StartsOutcome, CountKept DEF StartInUow, Missing
<1> QED BY <1>2, <1>3, <1>4, <1>5

\* A delay elapses: its run is at a sleep, so no parent is starting a child there.
LEMMA SleepElapsesOutcome ==
    ASSUME RunnerInv, NEW r \in Run, SleepElapses(r)
    PROVE  Outcome
<1> DEFINE row == [runs[r] EXCEPT !.sleep = "elapsed"]
<1>1. runs' = [runs EXCEPT ![r] = row] /\ UNCHANGED <<journal, jobs, undone, faults, crashes>>
  BY DEF SleepElapses, RunnerInv, TypeOK
<1>3. runs[r].sleep = "asleep" /\ runs[r].status \in Live
  BY DEF SleepElapses, Live
<1>4. runs[r] \in RunRow /\ Substate(r, runs[r])
  BY InvIsPerRun DEF RunnerInv, RunOK, TypeOK
<1>5. /\ row \in RunRow /\ row.status = runs[r].status /\ row.cursor = runs[r].cursor
      /\ row.iteration = runs[r].iteration /\ row.awaiting = runs[r].awaiting
      /\ row.child = runs[r].child
  BY <1>4 DEF RunRow
<1> HIDE DEF row
<1>6. Stays(r, runs[r], row)
  BY <1>3, <1>4, <1>5 DEF Stays, Substate, Here
<1>7. Move(r, runs[r], journal[r], undone[r], row, journal[r], undone[r])
  BY <1>6 DEF Move
<1>8. Moved
  BY <1>1, <1>7, OneRowMoves
<1>9. \A q \in Run \ {r} : runs'[q] = runs[q]
  BY <1>1 DEF RunnerInv, TypeOK
<1>10. ASSUME NEW s \in Slots, jobs'[s].state = "spawning", jobs'[s] = jobs[s]
       PROVE  jobs[s].run # r
  <2>1. jobs[s].run \in Run /\ At(jobs[s].run, "childWorkflow")
    BY <1>10 DEF RunnerInv, SpawningHoldsRow
  <2>2. runs[jobs[s].run].sleep = "none"
    BY <2>1, AtFacts
  <2> QED BY <1>3, <2>2
<1>11. LocksKept
  BY <1>9, <1>10, UnlockedMoves
<1>12. Calm(jobs') /\ Counted
  BY <1>1 DEF Calm, Counted, RunnerInv, TypeOK
<1> QED BY <1>8, <1>11, <1>12 DEF Outcome

\* A signal completes the node that waits for it.
LEMMA SignalOutcome ==
    ASSUME RunnerInv, NEW r \in Run, Signal(r)
    PROVE  Outcome
<1> DEFINE row == [runs[r] EXCEPT !.status = "running", !.awaiting = FALSE, !.cursor = @ + 1]
           entry == [kind |-> "node", node |-> runs[r].cursor, iteration |-> 0,
                     status |-> "completed", error |-> "none", child |-> NoRun,
                     at |-> Len(journal[r])]
<1>1. /\ runs[r] \in RunRow /\ journal[r] \in Seq(JournalRow) /\ Substate(r, runs[r])
      /\ runs \in [Run -> RunRow] /\ journal \in [Run -> Seq(JournalRow)]
      /\ undone \in [Run -> Seq(Nat \ {0})]
  BY InvIsPerRun DEF RunnerInv, RunOK, TypeOK
<1>2. runs[r].status \in Live /\ runs[r].awaiting /\ ~RowLocked(r) /\ UNCHANGED undone
  BY DEF Signal, Live
<1>3. Calm(jobs')
  BY SentFacts DEF Signal
<1>4. Counted
  BY DurableAssumption DEF Signal, Counted, RunnerInv, TypeOK
<1>5. CASE UNCHANGED <<runs, journal>>
  BY <1>2, <1>3, <1>4, <1>5, NoneMoves DEF Outcome
<1>6. CASE /\ runs' = [runs EXCEPT ![r].status = "running", ![r].awaiting = FALSE,
                                   ![r].cursor = @ + 1]
           /\ journal' = [journal EXCEPT ![r] = Append(@,
                 [kind |-> "node", node |-> runs[r].cursor, iteration |-> 0,
                  status |-> "completed", error |-> "none", child |-> NoRun, at |-> Len(@)])]
  <2>1. runs' = [runs EXCEPT ![r] = row]
    BY <1>1, <1>6
  <2>2. journal' = [journal EXCEPT ![r] = Append(journal[r], entry)]
    BY <1>1, <1>6
  <2>3. undone' = [undone EXCEPT ![r] = undone[r]]
    BY <1>1, <1>2
  <2>4. runs[r].sleep = "none" /\ runs[r].iteration = 0 /\ runs[r].child = NoRun
    <3>1. Here(r, runs[r], "waitForSignal") /\ runs[r].iteration \in Nat
      BY <1>1, <1>2 DEF Substate, RunRow
    <3> QED BY <1>1, <3>1 DEF Substate, Here
  <2>5. runs[r].cursor + 1 \in Nat \ {0}
    BY <1>1 DEF RunRow
  <2>6. /\ row \in RunRow /\ row.status = "running" /\ row.cursor = runs[r].cursor + 1
        /\ row.sleep = "none" /\ row.awaiting = FALSE /\ row.iteration = 0 /\ row.child = NoRun
    BY <1>1, <2>4, <2>5 DEF RunRow, Live
  <2>7. Len(journal[r]) \in Nat
    BY <1>1
  <2>8. entry \in JournalRow /\ entry.kind = "node" /\ entry.status = "completed"
        /\ entry.node = runs[r].cursor /\ entry.child = NoRun
    BY <1>1, <2>7 DEF JournalRow, RunRow
  <2> HIDE DEF row, entry
  <2>9. Completes(r, runs[r], journal[r], row, Append(journal[r], entry))
    BY <1>2, <2>6, <2>8 DEF Completes, Clean, Copies
  <2>10. Move(r, runs[r], journal[r], undone[r], row, Append(journal[r], entry), undone[r])
    BY <2>9 DEF Move
  <2>11. Moved
    BY <2>1, <2>2, <2>3, <2>10, OneMoves, ZenonT(60)
  <2>12. \A q \in Run \ {r} : runs'[q] = runs[q]
    BY <1>1, <2>1
  <2>13. LocksKept
    BY <1>2, <2>12, UnlockedMoves DEF RowLocked
  <2> QED BY <1>3, <1>4, <2>11, <2>13 DEF Outcome
<1> QED BY <1>5, <1>6 DEF Signal

\* A walk visits the completed steps that have a compensator.
LEMMA WalkFacts ==
    ASSUME RunnerInv, NEW r \in Run, NEW walk \in Walks(r),
           NEW nodes, nodes = [k \in DOMAIN walk |-> journal[r][walk[k]].node]
    PROVE  /\ nodes \in Seq(Nat \ {0})
           /\ {nodes[k] : k \in DOMAIN nodes} = Compensators(r, runs[r])
           /\ Len(walk) \in Nat /\ Len(walk) = Len(nodes)
<1>1. /\ journal[r] \in Seq(JournalRow) /\ runs[r].cursor \in Nat
      /\ Prefix(runs[r], journal[r])
  BY InvIsPerRun DEF RunnerInv, RunOK, TypeOK, RunRow
<1>2. PICK n \in 0..Len(journal[r]) : walk \in [1..n -> Compensable(r)]
  BY DEF Walks
<1>3. \A p \in Compensable(r) : \E k \in DOMAIN walk : walk[k] = p
  BY DEF Walks
<1>4. n \in Nat
  BY <1>1, <1>2
<1>5. \A p \in DOMAIN journal[r] : journal[r][p] \in JournalRow /\ journal[r][p].node \in Nat \ {0}
  <2>1. \A p \in DOMAIN journal[r] : journal[r][p] \in JournalRow
    BY <1>1
  <2> QED BY <2>1 DEF JournalRow
<1>6. \A k \in 1..n : walk[k] \in Compensable(r)
  BY <1>2
<1>7. \A p \in Compensable(r) :
          /\ p \in DOMAIN journal[r] /\ Done(journal[r][p])
          /\ HasCompensator(r, journal[r][p].node)
  BY DEF Compensable, Done
<1>8. /\ nodes = [k \in 1..n |-> journal[r][walk[k]].node]
      /\ DOMAIN walk = 1..n
  BY <1>2
<1>9. nodes \in Seq(Nat \ {0}) /\ Len(nodes) = n /\ DOMAIN nodes = 1..n
  <2>1. \A k \in 1..n : journal[r][walk[k]].node \in Nat \ {0}
    BY <1>5, <1>6, <1>7
  <2> QED BY <1>4, <1>8, <2>1
<1>10. Len(walk) = n
  <2>1. walk \in Seq(Compensable(r)) /\ Len(walk) = n
    BY <1>2, <1>4
  <2> QED BY <2>1
<1>11. ASSUME NEW k \in 1..n
       PROVE  nodes[k] \in Compensators(r, runs[r])
  <2>1. /\ nodes[k] = journal[r][walk[k]].node /\ walk[k] \in DOMAIN journal[r]
        /\ Done(journal[r][walk[k]]) /\ HasCompensator(r, nodes[k]) /\ nodes[k] \in Nat \ {0}
    BY <1>5, <1>6, <1>7, <1>8
  <2>2. nodes[k] < runs[r].cursor
    BY <1>1, <2>1 DEF Prefix
  <2>3. nodes[k] \in 1..(runs[r].cursor - 1)
    BY <1>1, <2>1, <2>2
  <2> QED BY <2>1, <2>3 DEF Compensators
<1>12. ASSUME NEW m \in Compensators(r, runs[r])
       PROVE  \E k \in 1..n : nodes[k] = m
  <2>1. m \in 1..(runs[r].cursor - 1) /\ HasCompensator(r, m)
    BY DEF Compensators
  <2>2. PICK p \in DOMAIN journal[r] : Done(journal[r][p]) /\ journal[r][p].node = m
    BY <1>1, <2>1 DEF Prefix
  <2>3. p \in Compensable(r)
    BY <2>1, <2>2 DEF Compensable, Done
  <2>4. PICK k \in 1..n : walk[k] = p
    BY <1>3, <1>8, <2>3
  <2> QED BY <1>8, <2>2, <2>4
<1>13. {nodes[k] : k \in DOMAIN nodes} = Compensators(r, runs[r])
  <2>1. {nodes[k] : k \in 1..n} \subseteq Compensators(r, runs[r])
    BY <1>11
  <2>2. Compensators(r, runs[r]) \subseteq {nodes[k] : k \in 1..n}
    BY <1>12
  <2>3. {nodes[k] : k \in DOMAIN nodes} = {nodes[k] : k \in 1..n}
    BY <1>9
  <2> QED BY <2>1, <2>2, <2>3
<1> QED BY <1>4, <1>9, <1>10, <1>13

\* Compensation undoes every completed step and fails the run, or undoes some
\* and changes nothing.
LEMMA CompensateOutcome ==
    ASSUME RunnerInv, NEW j \in Slots, Compensate(j)
    PROVE  Outcome
<1> DEFINE r == jobs[j].run
<1>1. /\ jobs[j].state # "free" /\ runs[r].status = "compensating" /\ ~RowLocked(r)
      /\ UNCHANGED journal
  BY DEF Compensate
<1>2. /\ r \in Run /\ jobs[j] \in Job
      /\ runs \in [Run -> RunRow] /\ journal \in [Run -> Seq(JournalRow)]
      /\ undone \in [Run -> Seq(Nat \ {0})]
  BY <1>1, JobFacts DEF RunnerInv, TypeOK
<1>3. PICK walk \in Walks(r) :
        LET nodes == [k \in DOMAIN walk |-> journal[r][walk[k]].node] IN
        \/ /\ runs' = [runs EXCEPT ![r].status = "failed"]
           /\ undone' = [undone EXCEPT ![r] = nodes]
           /\ \/ jobs' = [jobs EXCEPT ![j].state = "settling"] /\ UNCHANGED <<faults, crashes>>
              \/ Stop(j, jobs)
        \/ /\ Stop(j, jobs)
           /\ \E k \in 0..Len(walk) : undone' = [undone EXCEPT ![r] = SubSeq(nodes, 1, k)]
           /\ UNCHANGED runs
  BY DEF Compensate
<1> DEFINE nodes == [k \in DOMAIN walk |-> journal[r][walk[k]].node]
<1>4. /\ nodes \in Seq(Nat \ {0})
      /\ {nodes[k] : k \in DOMAIN nodes} = Compensators(r, runs[r])
      /\ Len(walk) \in Nat /\ Len(walk) = Len(nodes)
  BY <1>2, WalkFacts, ZenonT(60)
<1>5. /\ \/ /\ runs' = [runs EXCEPT ![r].status = "failed"]
            /\ undone' = [undone EXCEPT ![r] = nodes]
         \/ /\ UNCHANGED runs
            /\ \E k \in 0..Len(walk) : undone' = [undone EXCEPT ![r] = SubSeq(nodes, 1, k)]
      /\ \/ jobs' = [jobs EXCEPT ![j].state = "settling"] /\ UNCHANGED <<faults, crashes>>
         \/ Stop(j, jobs)
  BY <1>3
<1> HIDE DEF nodes
<1>6. Calm(jobs') /\ Counted
  <2>1. Calm(jobs) /\ "settling" \in States \ {"spawning"}
    BY DEF Calm, RunnerInv, TypeOK, States
  <2> QED BY <1>2, <1>5, <2>1, GoesOn, StopFacts, CountKept
<1>7. ASSUME NEW row, NEW und, runs' = [runs EXCEPT ![r] = row],
             undone' = [undone EXCEPT ![r] = und],
             Undone(r, runs[r], row, und) \/ Undoes(runs[r], row, und)
      PROVE  Outcome
  <2>1. Move(r, runs[r], journal[r], undone[r], row, journal[r], und)
    BY <1>7 DEF Move
  <2>2. PICK log : log = journal[r]
    OBVIOUS
  <2>3. journal' = [journal EXCEPT ![r] = log]
    BY <1>1, <1>2, <2>2
  <2>4. Move(r, runs[r], journal[r], undone[r], row, log, und)
    BY <2>1, <2>2
  <2>5. Moved
    BY <1>2, <1>7, <2>3, <2>4, OneMoves, ZenonT(60)
  <2>6. \A q \in Run \ {r} : runs'[q] = runs[q]
    BY <1>2, <1>7
  <2>7. LocksKept
    BY <1>1, <1>2, <2>6, UnlockedMoves DEF RowLocked
  <2> QED BY <1>6, <2>5, <2>7 DEF Outcome
<1>8. CASE runs' = [runs EXCEPT ![r].status = "failed"] /\ undone' = [undone EXCEPT ![r] = nodes]
  <2> DEFINE row == [runs[r] EXCEPT !.status = "failed"]
  <2>1. runs' = [runs EXCEPT ![r] = row]
    BY <1>2, <1>8
  <2>2. Undone(r, runs[r], row, nodes)
    BY <1>1, <1>4 DEF Undone
  <2> HIDE DEF row
  <2> QED BY <1>7, <1>8, <2>1, <2>2
<1>9. CASE /\ UNCHANGED runs
           /\ \E k \in 0..Len(walk) : undone' = [undone EXCEPT ![r] = SubSeq(nodes, 1, k)]
  <2>1. PICK k \in 0..Len(walk) : undone' = [undone EXCEPT ![r] = SubSeq(nodes, 1, k)]
    BY <1>9
  <2>2. SubSeq(nodes, 1, k) \in Seq(Nat \ {0})
    <3>1. k \in Nat /\ k <= Len(nodes)
      BY <1>4
    <3>2. \A i \in 1..k : nodes[i] \in Nat \ {0}
      BY <1>4, <3>1
    <3>3. SubSeq(nodes, 1, k) = [i \in 1..k |-> nodes[i]]
      BY <1>4, <3>1
    <3> QED BY <3>1, <3>2, <3>3
  <2>3. runs' = [runs EXCEPT ![r] = runs[r]]
    BY <1>2, <1>9
  <2>4. Undoes(runs[r], runs[r], SubSeq(nodes, 1, k))
    BY <1>1, <2>2 DEF Undoes
  <2> QED BY <1>7, <2>1, <2>3, <2>4
<1> QED BY <1>5, <1>8, <1>9

\* A parent starts a child: the child's run starts, and the parent holds its
\* own row, which no other parent holds.
LEMMA ChildOpensInv ==
    ASSUME RunnerInv, NEW j \in Slots, ChildOpens(j)
    PROVE  Moved /\ jobs' \in [Slots -> Job] /\ SpawningHoldsRow' /\ Counted
<1> DEFINE r == jobs[j].run
<1>1. /\ jobs[j].state = "begun" /\ runs[r].status \in Live /\ ~RowLocked(r)
      /\ At(r, "childWorkflow") /\ runs[r].child = NoRun
      /\ UNCHANGED <<journal, undone, faults, crashes>>
  BY DEF ChildOpens, Advancing
<1>2. PICK c \in NodeOf(r).children :
        /\ runs[c].status = "absent"
        /\ runs' = [runs EXCEPT ![c].status = "opening"]
        /\ \E tokens \in Sent("advance", c) :
              jobs' = [tokens EXCEPT ![j].state = "spawning", ![j].child = c]
  BY DEF ChildOpens
<1>3. r \in Run /\ jobs[j] \in Job /\ runs[r] \in RunRow
  BY <1>1, JobFacts
<1>4. c \in Run
  <2>1. Here(r, runs[r], "childWorkflow")
    BY <1>1, <1>3, AtFacts
  <2>2. Workflow[r] \in Seq(Node) /\ runs[r].cursor \in Nat \ {0}
    BY <1>3, DurableAssumption DEF RunRow
  <2>3. Workflow[r][runs[r].cursor] \in Node
    <3>1. Len(Workflow[r]) \in Nat /\ \A n \in 1..Len(Workflow[r]) : Workflow[r][n] \in Node
      BY <2>2
    <3>2. runs[r].cursor \in 1..Len(Workflow[r])
      BY <2>1, <2>2, <3>1 DEF Here
    <3> QED BY <3>1, <3>2
  <2>4. NodeOf(r).children \subseteq Run
    BY <2>3 DEF NodeOf, Node
  <2> QED BY <1>2, <2>4
<1>5. Moved
  <2> DEFINE row == [runs[c] EXCEPT !.status = "opening"]
  <2>1. runs' = [runs EXCEPT ![c] = row]
    BY <1>2, <1>4 DEF RunnerInv, TypeOK
  <2>2. Starts(runs[c], row)
    BY <1>2 DEF Starts, Missing
  <2> HIDE DEF row
  <2>3. Move(c, runs[c], journal[c], undone[c], row, journal[c], undone[c])
    BY <2>2 DEF Move
  <2> QED BY <1>1, <1>4, <2>1, <2>3, OneRowMoves
<1>6. PICK tokens \in Sent("advance", c) :
        jobs' = [tokens EXCEPT ![j].state = "spawning", ![j].child = c]
  BY <1>2
<1>7. Calm(tokens) /\ tokens[j] = jobs[j]
  BY <1>1, <1>4, <1>6, SentFacts
<1> DEFINE new == [jobs[j] EXCEPT !.state = "spawning", !.child = c]
<1>8. tokens \in [Slots -> Job]
  BY <1>7 DEF Calm
<1>9. jobs' = [tokens EXCEPT ![j] = new]
  BY <1>6, <1>7, <1>8
<1>10. new \in Job /\ new.state = "spawning" /\ new.child = c /\ new.run = r
  BY <1>3, <1>4 DEF Job
<1> HIDE DEF new
<1>11. /\ jobs' \in [Slots -> Job] /\ jobs'[j] = new
       /\ \A s \in Slots : s # j => jobs'[s] = tokens[s]
  BY <1>8, <1>9, <1>10
<1>12. runs[c].status \notin Live
  BY <1>2 DEF Live
<1>13. \A q \in Run : runs[q].status \in Live =>
          runs'[q] = runs[q] /\ (At(q, "childWorkflow") => At(q, "childWorkflow")')
  <2> SUFFICES ASSUME NEW q \in Run, runs[q].status \in Live
               PROVE  runs'[q] = runs[q] /\ (At(q, "childWorkflow") => At(q, "childWorkflow")')
    OBVIOUS
  <2>1. runs'[q] = runs[q]
    BY <1>2, <1>12 DEF RunnerInv, TypeOK
  <2> QED BY <2>1 DEF At, AtEnd, NodeOf
<1>14. \A s \in Slots \ {j} : jobs'[s].state = "spawning" =>
          /\ jobs'[s] = jobs[s] /\ jobs[s].run \in Run /\ jobs[s].run # r
          /\ runs[jobs[s].run].status \in Live /\ runs[jobs[s].run].child = NoRun
          /\ At(jobs[s].run, "childWorkflow") /\ jobs[s].child \in Run
          /\ \A i \in Slots : jobs[i].state = "spawning" /\ jobs[i].run = jobs[s].run => i = s
  <2> SUFFICES ASSUME NEW s \in Slots \ {j}, jobs'[s].state = "spawning"
               PROVE  /\ jobs'[s] = jobs[s] /\ jobs[s].run \in Run /\ jobs[s].run # r
                      /\ runs[jobs[s].run].status \in Live /\ runs[jobs[s].run].child = NoRun
                      /\ At(jobs[s].run, "childWorkflow") /\ jobs[s].child \in Run
                      /\ \A i \in Slots : jobs[i].state = "spawning"
                             /\ jobs[i].run = jobs[s].run => i = s
    OBVIOUS
  <2>1. jobs'[s] = jobs[s] /\ jobs[s].state = "spawning"
    BY <1>7, <1>11 DEF Calm
  <2>2. jobs[s].run # r
    BY <1>1, <2>1 DEF RowLocked
  <2> QED BY <2>1, <2>2 DEF RunnerInv, SpawningHoldsRow
<1>15. \A s \in Slots : jobs'[s].state # "free" => jobs'[s].run \in Run
  <2>1. \A s \in Slots : tokens[s].state # "free" => tokens[s].run \in Run
    BY <1>7 DEF Calm, RunnerInv, SpawningHoldsRow
  <2> QED BY <1>3, <1>10, <1>11, <2>1
<1>16. SpawningHoldsRow'
  <2> SUFFICES ASSUME NEW s \in Slots
               PROVE  /\ jobs'[s].state # "free" => jobs'[s].run \in Run
                      /\ jobs'[s].state = "spawning" =>
                           /\ runs'[jobs'[s].run].status \in Live
                           /\ runs'[jobs'[s].run].child = NoRun
                           /\ At(jobs[s].run, "childWorkflow")'
                           /\ jobs'[s].child \in Run
                           /\ \A i \in Slots : jobs'[i].state = "spawning"
                                  /\ jobs'[i].run = jobs'[s].run => i = s
    BY DEF SpawningHoldsRow
  <2>1. CASE s = j
    <3>1. jobs'[s].run = r /\ jobs'[s].child = c
      BY <1>10, <1>11, <2>1
    <3>3. runs'[r] = runs[r] /\ At(jobs[s].run, "childWorkflow")'
      <4>1. runs'[r] = runs[r]
        BY <1>1, <1>3, <1>13
      <4> QED BY <1>1, <3>1, <4>1 DEF At, AtEnd, NodeOf
    <3>4. \A i \in Slots : jobs'[i].state = "spawning" /\ jobs'[i].run = r => i = j
      BY <1>14
    <3> QED BY <1>1, <1>4, <1>15, <2>1, <3>1, <3>3, <3>4
  <2>2. CASE s # j
    <3> SUFFICES ASSUME jobs'[s].state = "spawning"
                 PROVE  /\ runs'[jobs'[s].run].status \in Live
                        /\ runs'[jobs'[s].run].child = NoRun
                        /\ At(jobs[s].run, "childWorkflow")'
                        /\ jobs'[s].child \in Run
                        /\ \A i \in Slots : jobs'[i].state = "spawning"
                               /\ jobs'[i].run = jobs'[s].run => i = s
      BY <1>15
    <3>1. /\ jobs'[s] = jobs[s] /\ jobs[s].run \in Run /\ jobs[s].run # r
          /\ runs[jobs[s].run].status \in Live /\ runs[jobs[s].run].child = NoRun
          /\ At(jobs[s].run, "childWorkflow") /\ jobs[s].child \in Run
          /\ \A i \in Slots : jobs[i].state = "spawning" /\ jobs[i].run = jobs[s].run => i = s
      BY <1>14, <2>2
    <3>2. runs'[jobs[s].run] = runs[jobs[s].run]
      BY <1>13, <3>1
    <3>3. At(jobs[s].run, "childWorkflow")'
      BY <3>1, <3>2 DEF At, AtEnd, NodeOf
    <3>4. \A i \in Slots : jobs'[i].state = "spawning" /\ jobs'[i].run = jobs[s].run => i = s
      <4> SUFFICES ASSUME NEW i \in Slots, jobs'[i].state = "spawning", jobs'[i].run = jobs[s].run
                   PROVE  i = s
        OBVIOUS
      <4>1. i # j
        BY <1>10, <1>11, <3>1
      <4>2. jobs'[i] = jobs[i]
        BY <1>14, <4>1
      <4> QED BY <3>1, <4>2
    <3> QED BY <3>1, <3>2, <3>3, <3>4
  <2> QED BY <2>1, <2>2
<1>17. Counted
  BY <1>1, CountKept
<1> QED BY <1>5, <1>11, <1>16, <1>17

-----------------------------------------------------------------------------
(* The theorems *)

\* Before any run is started the invariant holds.
LEMMA InitInv ==
    Init => RunnerInv
<1> SUFFICES ASSUME Init PROVE RunnerInv
  OBVIOUS
<1>1. /\ NewRun \in RunRow /\ NewRun.status = "absent" /\ NewRun.cursor = 1
      /\ NewRun.sleep = "none" /\ NewRun.awaiting = FALSE /\ NewRun.iteration = 0
      /\ NewRun.child = NoRun
  BY DEF NewRun, RunRow, Missing
<1>2. \A r \in Run : runs[r] = NewRun /\ journal[r] = <<>> /\ undone[r] = <<>>
  BY DEF Init
<1>3. <<>> \in Seq(JournalRow) /\ <<>> \in Seq(Nat \ {0}) /\ DOMAIN <<>> = {}
  OBVIOUS
<1> HIDE DEF NewRun
<1>4. \A j \in Slots : jobs[j] = FreeSlot
  BY DEF Init
<1>5. TypeOK
  BY <1>1, <1>3, FreshJobs, DurableAssumption DEF Init, TypeOK
<1>6. SpawningHoldsRow
  BY <1>4, FreshJobs DEF SpawningHoldsRow
<1>7. SubstateAtCursor
  <2> SUFFICES ASSUME NEW r \in Run
               PROVE  /\ runs[r].sleep # "none" => At(r, "sleep")
                      /\ runs[r].awaiting => At(r, "waitForSignal")
                      /\ runs[r].iteration > 0 => At(r, "loop")
                      /\ runs[r].child # NoRun => At(r, "childWorkflow")
    BY DEF SubstateAtCursor
  <2>1. runs[r] = NewRun
    BY <1>2
  <2>2. ~NewRun.awaiting /\ ~(NewRun.iteration > 0)
    BY <1>1
  <2> QED BY <1>1, <2>1, <2>2
<1>8. JournalIsPrefix
  <2>1. \A r \in Run : DOMAIN journal[r] = {} /\ runs[r].cursor = 1
    BY <1>1, <1>2, <1>3
  <2>2. 1..(1 - 1) = {}
    OBVIOUS
  <2> QED BY <2>1, <2>2 DEF JournalIsPrefix
<1>9. IterationsJournaled
  <2>1. \A r \in Run : DOMAIN journal[r] = {} /\ runs[r].iteration = 0
    BY <1>1, <1>2, <1>3
  <2>2. 0..(0 - 1) = {}
    OBVIOUS
  <2> QED BY <2>1, <2>2 DEF IterationsJournaled
<1>10. SagaComplete
  <2>1. \A r \in Run : runs[r].status = "absent"
    BY <1>1, <1>2
  <2> QED BY <2>1 DEF SagaComplete
<1>11. ChildEndsFirst
  BY <1>2, <1>3 DEF ChildEndsFirst
<1> QED BY <1>5, <1>6, <1>7, <1>8, <1>9, <1>10, <1>11 DEF RunnerInv

\* Every step but the one that starts a child has an outcome.
LEMMA StepOutcome ==
    ASSUME RunnerInv, Next
    PROVE  Outcome \/ \E j \in Slots : ChildOpens(j)
<1>1. ASSUME NEW r \in Run,
             StartOpen(r) \/ StartCommit(r) \/ StartRollback(r) \/ StartInUow(r)
               \/ SleepElapses(r) \/ Signal(r)
      PROVE  Outcome
  BY <1>1, StartOutcome, SleepElapsesOutcome, SignalOutcome
<1>2. ASSUME NEW j \in Slots, Advance(j)
      PROVE  Outcome \/ ChildOpens(j)
  <2>1. CASE AlreadyFinished(j) \/ NodeFunctionThrows(j) \/ ChildNotStarted(j)
    BY <2>1, WorkerOutcome
  <2>2. CASE RunCompleted(j)
    BY <2>2, RunCompletedOutcome
  <2>3. CASE StepReturns(j) \/ HandlerThrows(j) \/ SleepEnds(j) \/ LoopEnds(j) \/ LoopFails(j)
               \/ ChildStartThrows(j)
    BY <2>3, NodeOutcome
  <2>4. CASE SleepParks(j) \/ AwaitSignal(j) \/ ChildStarted(j)
    BY <2>4, ParksOutcome
  <2>5. CASE LoopIterates(j)
    BY <2>5, LoopIteratesOutcome
  <2>6. CASE ChildPolled(j)
    BY <2>6, ChildPolledOutcome
  <2> QED BY <1>2, <2>1, <2>2, <2>3, <2>4, <2>5, <2>6 DEF Advance
<1>3. ASSUME NEW j \in Slots, Process(j) \/ Requeue(j) \/ UowEnds(j)
      PROVE  Outcome \/ ChildOpens(j)
  <2>1. CASE Begin(j) \/ RunNotFound(j) \/ CompensateSkips(j) \/ Continue(j) \/ Settle(j)
               \/ Requeue(j) \/ UowEnds(j)
    BY <2>1, WorkerOutcome
  <2>2. CASE Advance(j)
    BY <1>2, <2>2
  <2>3. CASE Compensate(j)
    BY <2>3, CompensateOutcome
  <2> QED BY <1>3, <2>1, <2>2, <2>3 DEF Process
<1> QED BY <1>1, <1>3 DEF Next

\* A stuttering step moves no run and no job.
LEMMA StutterOutcome ==
    ASSUME RunnerInv, UNCHANGED vars
    PROVE  Outcome
<1>1. UNCHANGED <<runs, journal, undone>> /\ UNCHANGED jobs /\ UNCHANGED <<faults, crashes>>
  BY DEF vars
<1>2. Calm(jobs')
  BY <1>1 DEF Calm, RunnerInv, TypeOK
<1> QED BY <1>1, <1>2, NoneMoves, CountKept DEF Outcome

\* Every step moves every run by one of the nine moves.
LEMMA StepMoves ==
    ASSUME RunnerInv, [Next]_vars
    PROVE  Moved
BY StepOutcome, StutterOutcome, ChildOpensInv DEF Outcome

\* Every step keeps the invariant.
LEMMA StepInv ==
    ASSUME RunnerInv, [Next]_vars
    PROVE  RunnerInv'
<1>1. CASE Outcome
  BY <1>1, CalmKeepsLocks, OutcomeKeepsInv DEF Outcome, Calm
<1>2. CASE \E j \in Slots : ChildOpens(j)
  BY <1>2, ChildOpensInv, OutcomeKeepsInv
<1> QED BY <1>1, <1>2, StepOutcome, StutterOutcome

\* The inductive invariant of the workflow engine holds for every set of runs,
\* every workflow and any number of jobs, faults and crashes.
THEOREM RunnerInvariant == Spec => []RunnerInv
<1>1. RunnerInv /\ [Next]_vars => RunnerInv'
  BY StepInv
<1> QED BY InitInv, <1>1, PTL DEF Spec

\* Rows, journal and jobs keep their types.
THEOREM Typed == Spec => []TypeOK
<1>1. RunnerInv => TypeOK
  BY DEF RunnerInv
<1> QED BY RunnerInvariant, <1>1, PTL

\* advance() is idempotent: the nodes journaled as completed are exactly those
\* before the cursor, once each and in order.
THEOREM JournalPrefix == Spec => []JournalIsPrefix
<1>1. RunnerInv => JournalIsPrefix
  BY DEF RunnerInv
<1> QED BY RunnerInvariant, <1>1, PTL

\* A loop runs no iteration twice and resumes at the first that is missing.
THEOREM Iterations == Spec => []IterationsJournaled
<1>1. RunnerInv => IterationsJournaled
  BY DEF RunnerInv
<1> QED BY RunnerInvariant, <1>1, PTL

\* A failed run has undone every completed step that has a compensator.
THEOREM Saga == Spec => []SagaComplete
<1>1. RunnerInv => SagaComplete
  BY DEF RunnerInv
<1> QED BY RunnerInvariant, <1>1, PTL

\* A parent copies the outcome of a child that has ended that way.
THEOREM ChildFirst == Spec => []ChildEndsFirst
<1>1. RunnerInv => ChildEndsFirst
  BY DEF RunnerInv
<1> QED BY RunnerInvariant, <1>1, PTL

\* Nothing touches a finished run: not its row, its journal or its compensations.
THEOREM FinishedRuns == Spec => FinishedIsFinal
<1> DEFINE Final == \A r \in Run : runs[r].status \in Terminal =>
                       runs'[r] = runs[r] /\ journal'[r] = journal[r] /\ undone'[r] = undone[r]
<1>1. RunnerInv /\ [Next]_vars => [Final]_vars
  <2> SUFFICES ASSUME RunnerInv, [Next]_vars
               PROVE  Final
    OBVIOUS
  <2>1. Moved
    BY StepMoves
  <2> QED BY <2>1, FinishedStays DEF Moved
<1>2. [][Final]_vars => FinishedIsFinal
  BY DEF FinishedIsFinal
<1> QED BY RunnerInvariant, <1>1, <1>2, PTL DEF Spec

-----------------------------------------------------------------------------
(* No run is forgotten *)

Fine(r) == runs[r].status \in Live \cup {"opening"} => runs[r].awaiting \/ Carried(r)

\* A dispatch puts one new token into a free slot.
LEMMA SentSlot ==
    ASSUME RunnerInv, NEW kind \in {"advance", "compensate"}, NEW r \in Run,
           NEW tokens \in Sent(kind, r)
    PROVE  \E s \in Slots :
              /\ jobs[s].state = "free" /\ tokens[s] \in Job
              /\ tokens[s].state = "queued" /\ tokens[s].run = r /\ tokens[s].kind = kind
              /\ tokens[s].child = NoRun
              /\ \A i \in Slots : i # s => tokens[i] = jobs[i]
<1>1. PICK s \in Slots : jobs[s].state = "free" /\ tokens = [jobs EXCEPT ![s] = Queued(kind, r)]
  BY DEF Sent
<1>2. jobs \in [Slots -> Job]
  BY DEF RunnerInv, TypeOK
<1>3. /\ Queued(kind, r) \in Job /\ Queued(kind, r).state = "queued"
      /\ Queued(kind, r).run = r /\ Queued(kind, r).kind = kind /\ Queued(kind, r).child = NoRun
  BY DEF Queued, FreeSlot, Job
<1> DEFINE new == Queued(kind, r)
<1>4. /\ new \in Job /\ new.state = "queued" /\ new.run = r /\ new.kind = kind
      /\ new.child = NoRun
  BY <1>3
<1> HIDE DEF new
<1>5. tokens = [jobs EXCEPT ![s] = new]
  BY <1>1 DEF new
<1>6. tokens[s] = new /\ \A i \in Slots : i # s => tokens[i] = jobs[i]
  BY <1>2, <1>5
<1> QED BY <1>1, <1>4, <1>6

\* A job that goes on keeps its run, kind, child and BEGIN time.
LEMMA JobMoves ==
    ASSUME NEW tokens \in [Slots -> Job], NEW j \in Slots, NEW state \in States,
           NEW next, next = [tokens EXCEPT ![j].state = state]
    PROVE  /\ next[j].state = state /\ next[j].run = tokens[j].run
           /\ next[j].kind = tokens[j].kind /\ next[j].child = tokens[j].child
           /\ next[j].began = tokens[j].began
           /\ \A i \in Slots : i # j => next[i] = tokens[i]
<1>1. next[j] = [tokens[j] EXCEPT !.state = state] /\ tokens[j] \in Job
  OBVIOUS
<1>2. \A i \in Slots : i # j => next[i] = tokens[i]
  OBVIOUS
<1>3. /\ next[j].state = state /\ next[j].run = tokens[j].run
      /\ next[j].kind = tokens[j].kind /\ next[j].child = tokens[j].child
      /\ next[j].began = tokens[j].began
  BY <1>1 DEF Job, States
<1> QED BY <1>2, <1>3

\* The tokens of a run are all still there.
TokensKept(r) ==
    \A s \in Slots : jobs[s].run = r /\ jobs[s].state \in Carrying =>
        /\ jobs'[s].run = r /\ jobs'[s].state \in Carrying
        /\ jobs'[s].kind = jobs[s].kind

\* A run whose tokens are kept and that does not leave compensation is carried on.
LEMMA KeptCarries ==
    ASSUME NEW r \in Run, Fine(r), TokensKept(r),
           runs'[r].status \in Live \cup {"opening"} => runs[r].status \in Live \cup {"opening"},
           runs[r].status = "compensating" => runs'[r].status = "compensating"
                                              \/ runs'[r].status \notin Live \cup {"opening"},
           runs[r].awaiting => runs'[r].awaiting
    PROVE  Fine(r)'
<1> SUFFICES ASSUME runs'[r].status \in Live \cup {"opening"}, ~runs'[r].awaiting
             PROVE  Carried(r)'
  BY DEF Fine
<1>1. Carried(r)
  BY DEF Fine
<1>2. PICK s \in Slots : /\ jobs[s].run = r /\ jobs[s].state \in Carrying
                         /\ jobs[s].kind = "advance" \/ runs[r].status = "compensating"
  BY <1>1 DEF Carried
<1>3. /\ jobs'[s].run = r /\ jobs'[s].state \in Carrying
      /\ jobs'[s].kind = "advance" \/ runs'[r].status = "compensating"
  BY <1>2 DEF TokensKept
<1> QED BY <1>3 DEF Carried

\* An advance token carries any run, a compensate token one that compensates.
LEMMA TokenCarries ==
    ASSUME NEW r \in Run, NEW s \in Slots, jobs'[s].run = r, jobs'[s].state \in Carrying,
           jobs'[s].kind = "advance" \/ runs'[r].status = "compensating"
    PROVE  Fine(r)'
BY DEF Fine, Carried

\* One job changes, and it still carries its run, or its run does not need it.
LEMMA OneJobChanges ==
    ASSUME OrphanInv, NEW j \in Slots, UNCHANGED runs,
           \A i \in Slots : i # j => jobs'[i] = jobs[i],
           jobs'[j].state # "held",
           \/ jobs[j].state \notin Carrying
           \/ /\ jobs'[j].state \in Carrying
              /\ jobs'[j].run = jobs[j].run /\ jobs'[j].kind = jobs[j].kind
           \/ runs[jobs[j].run].status \notin Live \cup {"opening"}
           \/ jobs[j].kind # "advance" /\ runs[jobs[j].run].status # "compensating"
    PROVE  OrphanInv'
<1>1. ASSUME NEW r \in Run PROVE Fine(r)'
  <2>1. CASE TokensKept(r)
    BY <2>1, KeptCarries DEF OrphanInv, Fine
  <2>2. CASE ~TokensKept(r)
    <3>1. jobs[j].run = r
      BY <2>2 DEF TokensKept
    <3>2. CASE runs[r].status \notin Live \cup {"opening"}
      BY <3>2 DEF Fine
    <3>3. CASE jobs[j].kind # "advance" /\ runs[r].status # "compensating"
      <4> SUFFICES ASSUME runs[r].status \in Live \cup {"opening"}, ~runs[r].awaiting
                   PROVE  Carried(r)'
        BY DEF Fine
      <4>1. PICK s \in Slots : /\ jobs[s].run = r /\ jobs[s].state \in Carrying
                               /\ jobs[s].kind = "advance"
        BY <3>3 DEF OrphanInv, Carried
      <4>2. jobs'[s] = jobs[s]
        BY <3>3, <4>1
      <4> QED BY <4>1, <4>2 DEF Carried
    <3> QED BY <2>2, <3>1, <3>2, <3>3 DEF TokensKept
  <2> QED BY <2>1, <2>2
<1>2. \A s \in Slots : jobs'[s].state # "held"
  BY DEF OrphanInv
<1> QED BY <1>1, <1>2 DEF OrphanInv, Fine

\* Where a job may be after its handler: gone on, dead or stranded.
Halts == {"dead", "stranded"}

\* What a transaction of job j for run r leaves: tokens are the job tables after
\* its dispatch, and j goes on to state.
Left(j, r, row, log, kinds, next, tokens, state) ==
    /\ jobs' = [tokens EXCEPT ![j].state = state]
    /\ \/ tokens = jobs
       \/ \E k \in kinds : tokens \in Sent(k, r)
    /\ \/ /\ runs' = [runs EXCEPT ![r] = row]
          /\ journal' = [journal EXCEPT ![r] = log]
          /\ kinds # {} => \E k \in kinds : tokens \in Sent(k, r)
       \/ UNCHANGED <<runs, journal>> /\ state \in Halts
    /\ \/ state = next /\ UNCHANGED <<faults, crashes>>
       \/ faults < MaxFaults /\ faults' = faults + 1
       \/ crashes < MaxCrashes /\ crashes' = crashes + 1

\* The job tables after a transaction: at most one new token, and the job of
\* the handler in its next state, or stopped.
LEMMA AfterTransaction ==
    ASSUME RunnerInv, NEW j \in Slots, jobs[j].state # "free", NEW r, r = jobs[j].run,
           NEW row, NEW log, NEW kinds \in SUBSET {"advance", "compensate"},
           NEW next \in {"continuing", "settling"}, Transaction(j, row, log, kinds, next)
    PROVE  \E tokens \in [Slots -> Job], state \in {next} \cup Halts :
              Left(j, r, row, log, kinds, next, tokens, state)
<1> DEFINE Tokens == IF kinds = {} THEN {jobs} ELSE UNION {Sent(k, r) : k \in kinds}
<1>1. r \in Run /\ jobs \in [Slots -> Job]
  BY JobFacts DEF RunnerInv, TypeOK
<1>2. \A k \in kinds : \A tokens \in Sent(k, r) : tokens \in [Slots -> Job]
  BY <1>1, SentFacts DEF Calm
<1>3. \A tokens \in Tokens : /\ tokens \in [Slots -> Job]
                             /\ tokens = jobs \/ \E k \in kinds : tokens \in Sent(k, r)
                             /\ kinds # {} => \E k \in kinds : tokens \in Sent(k, r)
  BY <1>1, <1>2
<1>4. \/ \E tokens \in Tokens :
            /\ runs' = [runs EXCEPT ![r] = row] /\ journal' = [journal EXCEPT ![r] = log]
            /\ jobs' = [tokens EXCEPT ![j].state = next] /\ UNCHANGED <<faults, crashes>>
      \/ \E tokens \in Tokens :
            /\ runs' = [runs EXCEPT ![r] = row] /\ journal' = [journal EXCEPT ![r] = log]
            /\ Stop(j, tokens)
      \/ \E tokens \in Tokens \cup {jobs} : UNCHANGED <<runs, journal>> /\ Stop(j, tokens)
  BY DEF Transaction
<1> HIDE DEF Tokens
<1>5. ASSUME NEW tokens, Stop(j, tokens)
      PROVE  \E state \in Halts :
                /\ jobs' = [tokens EXCEPT ![j].state = state]
                /\ \/ faults < MaxFaults /\ faults' = faults + 1
                   \/ crashes < MaxCrashes /\ crashes' = crashes + 1
  BY <1>5 DEF Stop, Halts
<1>6. CASE \E tokens \in Tokens :
            /\ runs' = [runs EXCEPT ![r] = row] /\ journal' = [journal EXCEPT ![r] = log]
            /\ jobs' = [tokens EXCEPT ![j].state = next] /\ UNCHANGED <<faults, crashes>>
  BY <1>3, <1>6, Zenon DEF Left
<1>7. CASE \E tokens \in Tokens :
            /\ runs' = [runs EXCEPT ![r] = row] /\ journal' = [journal EXCEPT ![r] = log]
            /\ Stop(j, tokens)
  <2>1. PICK tokens \in Tokens :
            /\ runs' = [runs EXCEPT ![r] = row] /\ journal' = [journal EXCEPT ![r] = log]
            /\ Stop(j, tokens)
    BY <1>7
  <2>2. PICK state \in Halts : /\ jobs' = [tokens EXCEPT ![j].state = state]
                               /\ \/ faults < MaxFaults /\ faults' = faults + 1
                                  \/ crashes < MaxCrashes /\ crashes' = crashes + 1
    BY <1>5, <2>1
  <2> QED BY <1>3, <2>1, <2>2, Zenon DEF Left
<1>8. CASE \E tokens \in Tokens \cup {jobs} : UNCHANGED <<runs, journal>> /\ Stop(j, tokens)
  <2>1. PICK tokens \in Tokens \cup {jobs} : UNCHANGED <<runs, journal>> /\ Stop(j, tokens)
    BY <1>8
  <2>2. PICK state \in Halts : /\ jobs' = [tokens EXCEPT ![j].state = state]
                               /\ \/ faults < MaxFaults /\ faults' = faults + 1
                                  \/ crashes < MaxCrashes /\ crashes' = crashes + 1
    BY <1>5, <2>1
  <2>3. tokens \in [Slots -> Job] /\ (tokens = jobs \/ \E k \in kinds : tokens \in Sent(k, r))
    BY <1>1, <1>3, <2>1
  <2> QED BY <2>1, <2>2, <2>3, Zenon DEF Left
<1> QED BY <1>4, <1>6, <1>7, <1>8

\* A handler's transaction carries its run on if the row it writes needs no
\* token, the job goes on itself, or it dispatches a token of the right kind.
LEMMA TransactionCarries ==
    ASSUME RunnerInv, OrphanInv, NEW j \in Slots, jobs[j].state \in {"begun", "spawning"},
           NEW row, NEW log, NEW kinds \in SUBSET {"advance", "compensate"},
           NEW next \in {"continuing", "settling"}, Transaction(j, row, log, kinds, next),
           \/ next = "continuing" /\ jobs[j].kind = "advance"
           \/ kinds = {"advance"}
           \/ kinds = {"compensate"} /\ row.status = "compensating"
           \/ row.status \notin Live \cup {"opening"}
           \/ row.awaiting
    PROVE  OrphanInv'
<1>0. PICK r : r = jobs[j].run
  OBVIOUS
<1>1. r \in Run /\ jobs \in [Slots -> Job] /\ runs \in [Run -> RunRow]
  BY <1>0, JobFacts DEF RunnerInv, TypeOK
<1>2. PICK tokens \in [Slots -> Job], state \in {next} \cup Halts :
         Left(j, r, row, log, kinds, next, tokens, state)
  <2>1. jobs[j].state # "free"
    OBVIOUS
  <2> QED BY <1>0, <2>1, AfterTransaction
<1>3. state \in States
  BY DEF States, Halts
<1>4. /\ jobs'[j].state = state /\ jobs'[j].run = tokens[j].run
      /\ jobs'[j].kind = tokens[j].kind
      /\ \A i \in Slots : i # j => jobs'[i] = tokens[i]
  BY <1>2, <1>3, JobMoves DEF Left
<1>5. ASSUME NEW k \in kinds, tokens \in Sent(k, r)
      PROVE  \E s \in Slots \ {j} : /\ jobs[s].state = "free"
                                    /\ tokens[s].state = "queued" /\ tokens[s].run = r
                                    /\ tokens[s].kind = k
                                    /\ \A i \in Slots : i # s => tokens[i] = jobs[i]
  <2>1. PICK s \in Slots : /\ jobs[s].state = "free"
                           /\ tokens[s].state = "queued" /\ tokens[s].run = r
                           /\ tokens[s].kind = k
                           /\ \A i \in Slots : i # s => tokens[i] = jobs[i]
    BY <1>1, <1>5, SentSlot
  <2> QED BY <2>1
<1>6. \A i \in Slots : jobs[i].state # "free" => tokens[i] = jobs[i]
  BY <1>2, <1>5 DEF Left
<1>7. \A i \in Slots : tokens[i].state # "held"
  BY <1>2, <1>5 DEF OrphanInv, Left
<1>8. \A i \in Slots : jobs'[i].state # "held"
  BY <1>4, <1>7 DEF Halts
<1>9. \A i \in Slots : jobs[i].state \in Carrying /\ i # j => jobs'[i] = jobs[i]
  BY <1>4, <1>6 DEF Carrying
<1>10. jobs'[j].run = r /\ jobs'[j].kind = jobs[j].kind
  BY <1>0, <1>4, <1>6
<1>11. ASSUME NEW q \in Run \ {r} PROVE Fine(q)'
  <2>1. TokensKept(q)
    BY <1>0, <1>9, <1>11 DEF TokensKept
  <2>2. runs'[q] = runs[q]
    BY <1>1, <1>2 DEF Left
  <2> QED BY <2>1, <2>2, KeptCarries DEF OrphanInv, Fine
<1>12. Fine(r)'
  <2>1. CASE UNCHANGED <<runs, journal>> /\ state \in Halts
    <3>1. TokensKept(r)
      BY <1>4, <1>9, <1>10, <2>1 DEF TokensKept, Halts, Carrying
    <3>2. runs' = runs
      BY <2>1
    <3>3. Fine(r)
      BY <1>1 DEF OrphanInv, Fine
    <3> QED BY <1>1, <3>1, <3>2, <3>3, KeptCarries
  <2>2. CASE /\ runs' = [runs EXCEPT ![r] = row]
             /\ kinds # {} => \E k \in kinds : tokens \in Sent(k, r)
    <3>1. runs'[r] = row
      BY <1>1, <2>2
    <3>2. CASE next = "continuing" /\ jobs[j].kind = "advance"
      <4>1. jobs'[j].state \in Carrying
        BY <1>4, <3>2 DEF Carrying, Halts
      <4> QED BY <1>1, <1>10, <3>2, <4>1, TokenCarries
    <3>3. ASSUME NEW k \in kinds, k = "advance" \/ row.status = "compensating",
                 tokens \in Sent(k, r)
          PROVE  Fine(r)'
      <4>1. PICK s \in Slots \ {j} : /\ tokens[s].state = "queued" /\ tokens[s].run = r
                                     /\ tokens[s].kind = k
        BY <1>5, <3>3
      <4>2. jobs'[s].state = "queued" /\ jobs'[s].run = r /\ jobs'[s].kind = k
        BY <1>4, <4>1
      <4>3. jobs'[s].kind = "advance" \/ runs'[r].status = "compensating"
        BY <3>1, <3>3, <4>2
      <4> QED BY <1>1, <4>2, <4>3, TokenCarries DEF Carrying
    <3>4. CASE kinds = {"advance"}
      BY <2>2, <3>3, <3>4
    <3>5. CASE kinds = {"compensate"} /\ row.status = "compensating"
      BY <2>2, <3>3, <3>5
    <3>6. CASE row.status \notin Live \cup {"opening"}
      BY <3>1, <3>6 DEF Fine
    <3>7. CASE row.awaiting
      BY <3>1, <3>7, Zenon DEF Fine
    <3> QED BY <3>2, <3>4, <3>5, <3>6, <3>7
  <2> QED BY <1>2, <2>1, <2>2 DEF Left
<1>13. \A q \in Run : Fine(q)'
  BY <1>11, <1>12
<1> QED BY <1>8, <1>13 DEF OrphanInv, Fine

\* Starting a run, and signals.
LEMMA ClientCarries ==
    ASSUME RunnerInv, OrphanInv, InUow = {}, NEW r \in Run,
           StartOpen(r) \/ StartCommit(r) \/ StartRollback(r) \/ StartInUow(r)
              \/ SleepElapses(r) \/ Signal(r)
    PROVE  OrphanInv'
<1>1. jobs \in [Slots -> Job] /\ runs \in [Run -> RunRow]
  BY DEF RunnerInv, TypeOK
<1>2. CASE StartCommit(r) \/ StartRollback(r) \/ SleepElapses(r)
  <2>1. /\ UNCHANGED jobs
        /\ \A q \in Run \ {r} : runs'[q] = runs[q]
        /\ runs'[r].awaiting = runs[r].awaiting
        /\ \/ runs[r].status = "opening" /\ runs'[r].status \in {"pending", "void"}
           \/ runs'[r].status = runs[r].status
    BY <1>1, <1>2 DEF StartCommit, StartRollback, SleepElapses, RunRow
  <2>2. \A q \in Run : TokensKept(q)
    BY <2>1 DEF TokensKept
  <2>3. ASSUME NEW q \in Run PROVE Fine(q)'
    <3>1. CASE q = r
      BY <2>1, <2>2, <3>1, KeptCarries DEF OrphanInv, Fine, Live
    <3>2. CASE q # r
      BY <2>1, <2>2, <3>2, KeptCarries DEF OrphanInv, Fine
    <3> QED BY <3>1, <3>2
  <2> QED BY <2>1, <2>3 DEF OrphanInv, Fine
<1>3. CASE StartOpen(r) \/ Signal(r)
  <2>1. jobs' \in Sent("advance", r) /\ \A q \in Run \ {r} : runs'[q] = runs[q]
    BY <1>1, <1>3 DEF StartOpen, Signal
  <2>2. PICK s \in Slots : /\ jobs[s].state = "free"
                           /\ jobs'[s].state = "queued" /\ jobs'[s].run = r
                           /\ jobs'[s].kind = "advance"
                           /\ \A i \in Slots : i # s => jobs'[i] = jobs[i]
    BY <2>1, SentSlot
  <2>3. Fine(r)'
    BY <2>2, TokenCarries DEF Carrying
  <2>4. ASSUME NEW q \in Run \ {r} PROVE Fine(q)'
    <3>1. TokensKept(q)
      BY <2>2 DEF TokensKept, Carrying
    <3> QED BY <2>1, <3>1, KeptCarries DEF OrphanInv, Fine
  <2>5. \A i \in Slots : jobs'[i].state # "held"
    BY <2>2 DEF OrphanInv
  <2> QED BY <2>3, <2>4, <2>5 DEF OrphanInv, Fine
<1>4. CASE StartInUow(r)
  BY <1>4 DEF StartInUow
<1> QED BY <1>2, <1>3, <1>4

\* The worker's own steps around a handler.
LEMMA WorkerCarries ==
    ASSUME RunnerInv, OrphanInv, NEW j \in Slots,
           \/ Begin(j) \/ RunNotFound(j) \/ AlreadyFinished(j) \/ NodeFunctionThrows(j)
           \/ ChildNotStarted(j) \/ CompensateSkips(j) \/ Settle(j) \/ Requeue(j) \/ UowEnds(j)
    PROVE  OrphanInv'
<1>1. jobs \in [Slots -> Job] /\ jobs[j] \in Job
  BY DEF RunnerInv, TypeOK
<1>2. ASSUME NEW state \in States, jobs' = [jobs EXCEPT ![j].state = state]
      PROVE  /\ jobs'[j].state = state /\ jobs'[j].run = jobs[j].run
             /\ jobs'[j].kind = jobs[j].kind
             /\ \A i \in Slots : i # j => jobs'[i] = jobs[i]
  BY <1>1, <1>2, JobMoves
<1>3. ASSUME NEW state \in {"dead", "stranded"}, jobs' = [jobs EXCEPT ![j].state = state],
             UNCHANGED runs
      PROVE  OrphanInv'
  <2>1. state \in States /\ state \in Carrying
    BY DEF States, Carrying
  <2> QED BY <1>2, <1>3, <2>1, OneJobChanges
<1>4. CASE Begin(j)
  <2>1. /\ jobs'[j].state = "begun" /\ jobs'[j].run = jobs[j].run
        /\ jobs'[j].kind = jobs[j].kind
        /\ \A i \in Slots : i # j => jobs'[i] = jobs[i]
    BY <1>1, <1>4 DEF Begin, Job
  <2> QED BY <1>4, <2>1, OneJobChanges DEF Begin, Carrying
<1>5. CASE RunNotFound(j) \/ NodeFunctionThrows(j) \/ ChildNotStarted(j)
  BY <1>3, <1>5 DEF RunNotFound, NodeFunctionThrows, ChildNotStarted
<1>6. CASE AlreadyFinished(j)
  <2>1. "settling" \in States
    BY DEF States
  <2> QED BY <1>2, <1>6, <2>1, OneJobChanges DEF AlreadyFinished, Live, Terminal
<1>7. CASE CompensateSkips(j)
  <2>1. "settling" \in States
    BY DEF States
  <2>2. jobs[j].kind # "advance" /\ runs[jobs[j].run].status # "compensating"
    BY <1>7 DEF CompensateSkips, Live, Terminal
  <2> QED BY <1>2, <1>7, <2>1, <2>2, OneJobChanges DEF CompensateSkips
<1>8. CASE Settle(j)
  <2>1. jobs[j].state \notin Carrying /\ UNCHANGED runs
    BY <1>8 DEF Settle, Carrying
  <2>2. CASE jobs' = [jobs EXCEPT ![j] = FreeSlot]
    <3>1. jobs'[j].state # "held" /\ \A i \in Slots : i # j => jobs'[i] = jobs[i]
      BY <1>1, <2>2, FreshJobs
    <3> QED BY <2>1, <3>1, OneJobChanges
  <2>3. CASE Stop(j, jobs)
    BY <1>3, <2>1, <2>3 DEF Stop
  <2> QED BY <1>8, <2>2, <2>3 DEF Settle
<1>9. CASE Requeue(j)
  <2> DEFINE new == Queued(jobs[j].kind, jobs[j].run)
  <2>1. jobs[j].run \in Run /\ jobs[j].kind \in {"advance", "compensate"}
    BY <1>1, <1>9, JobFacts DEF Requeue, Job
  <2>2. new.state = "queued" /\ new.run = jobs[j].run /\ new.kind = jobs[j].kind
    BY DEF Queued, FreeSlot
  <2>3. jobs' = [jobs EXCEPT ![j] = new] /\ UNCHANGED runs
    BY <1>9 DEF Requeue
  <2> HIDE DEF new
  <2>4. jobs'[j] = new /\ \A i \in Slots : i # j => jobs'[i] = jobs[i]
    BY <1>1, <2>3
  <2> QED BY <2>2, <2>3, <2>4, OneJobChanges DEF Carrying
<1>10. CASE UowEnds(j)
  BY <1>10 DEF UowEnds, OrphanInv
<1> QED BY <1>4, <1>5, <1>6, <1>7, <1>8, <1>9, <1>10

\* A handler that goes on dispatches the token of the next node.
LEMMA ContinueCarries ==
    ASSUME RunnerInv, OrphanInv, NEW j \in Slots, Continue(j)
    PROVE  OrphanInv'
<1>1. PICK r \in Run : r = jobs[j].run
  BY JobFacts DEF Continue
<1>2. jobs \in [Slots -> Job] /\ jobs[j].state = "continuing" /\ UNCHANGED runs
  BY DEF Continue, RunnerInv, TypeOK
<1>3. CASE Stop(j, jobs)
  <2>1. PICK state \in {"dead", "stranded"} : jobs' = [jobs EXCEPT ![j].state = state]
    BY <1>3 DEF Stop
  <2>2. state \in States /\ state \in Carrying
    BY DEF States, Carrying
  <2>3. /\ jobs'[j].state = state /\ jobs'[j].run = jobs[j].run
        /\ jobs'[j].kind = jobs[j].kind
        /\ \A i \in Slots : i # j => jobs'[i] = jobs[i]
    BY <1>2, <2>1, <2>2, JobMoves
  <2> QED BY <1>2, <2>2, <2>3, OneJobChanges
<1>4. CASE \E tokens \in Sent("advance", r), state \in {"dead", "stranded", "settling"} :
              jobs' = [tokens EXCEPT ![j].state = state]
  <2>1. PICK tokens \in Sent("advance", r), state \in {"dead", "stranded", "settling"} :
              jobs' = [tokens EXCEPT ![j].state = state]
    BY <1>4
  <2>2. PICK s \in Slots : /\ jobs[s].state = "free"
                           /\ tokens[s].state = "queued" /\ tokens[s].run = r
                           /\ tokens[s].kind = "advance"
                           /\ \A i \in Slots : i # s => tokens[i] = jobs[i]
    BY SentSlot
  <2>3. tokens \in [Slots -> Job] /\ state \in States /\ s # j
    BY <1>2, <2>2, SentFacts DEF Calm, States
  <2>4. /\ jobs'[j].state = state
        /\ \A i \in Slots : i # j => jobs'[i] = tokens[i]
    BY <2>1, <2>3, JobMoves
  <2>5. Fine(r)'
    <3>1. jobs'[s].state \in Carrying /\ jobs'[s].run = r /\ jobs'[s].kind = "advance"
      BY <2>2, <2>3, <2>4 DEF Carrying
    <3> QED BY <3>1, TokenCarries
  <2>6. ASSUME NEW q \in Run \ {r} PROVE Fine(q)'
    <3>1. TokensKept(q)
      BY <1>1, <2>2, <2>4 DEF TokensKept, Carrying
    <3> QED BY <1>2, <3>1, KeptCarries DEF OrphanInv, Fine
  <2>7. \A i \in Slots : jobs'[i].state # "held"
    BY <2>2, <2>4 DEF OrphanInv
  <2>8. \A q \in Run : Fine(q)'
    BY <2>5, <2>6
  <2> QED BY <2>7, <2>8 DEF OrphanInv, Fine
<1> QED BY <1>1, <1>3, <1>4 DEF Continue, Stop

\* The compensate handler ends its run, or stops with its token kept.
LEMMA CompensateCarries ==
    ASSUME RunnerInv, OrphanInv, NEW j \in Slots, Compensate(j)
    PROVE  OrphanInv'
<1>1. PICK r \in Run : r = jobs[j].run
  BY JobFacts DEF Compensate
<1>2. jobs \in [Slots -> Job] /\ runs \in [Run -> RunRow]
  BY DEF RunnerInv, TypeOK
<1>3. \/ UNCHANGED runs /\ \E state \in {"dead", "stranded"} : jobs' = [jobs EXCEPT ![j].state = state]
      \/ /\ runs' = [runs EXCEPT ![r].status = "failed"]
         /\ \E state \in {"dead", "stranded", "settling"} : jobs' = [jobs EXCEPT ![j].state = state]
  BY <1>1 DEF Compensate, Stop
<1>4. PICK state \in {"dead", "stranded", "settling"} : jobs' = [jobs EXCEPT ![j].state = state]
  BY <1>3
<1>5. state \in States
  BY DEF States
<1>6. /\ jobs'[j].state = state /\ jobs'[j].run = jobs[j].run
      /\ jobs'[j].kind = jobs[j].kind
      /\ \A i \in Slots : i # j => jobs'[i] = jobs[i]
  BY <1>2, <1>4, <1>5, JobMoves
<1>7. CASE UNCHANGED runs /\ \E s \in {"dead", "stranded"} : jobs' = [jobs EXCEPT ![j].state = s]
  <2>1. PICK s \in {"dead", "stranded"} : jobs' = [jobs EXCEPT ![j].state = s]
    BY <1>7
  <2>2. s \in States /\ s \in Carrying
    BY DEF States, Carrying
  <2>3. /\ jobs'[j].state = s /\ jobs'[j].run = jobs[j].run
        /\ jobs'[j].kind = jobs[j].kind
        /\ \A i \in Slots : i # j => jobs'[i] = jobs[i]
    BY <1>2, <2>1, <2>2, JobMoves
  <2> QED BY <1>7, <2>2, <2>3, OneJobChanges
<1>8. CASE runs' = [runs EXCEPT ![r].status = "failed"]
  <2>1. runs'[r].status = "failed" /\ \A q \in Run \ {r} : runs'[q] = runs[q]
    BY <1>2, <1>8 DEF RunRow
  <2>2. Fine(r)'
    BY <2>1 DEF Fine, Live
  <2>3. ASSUME NEW q \in Run \ {r} PROVE Fine(q)'
    <3>1. TokensKept(q)
      BY <1>1, <1>6 DEF TokensKept
    <3> QED BY <2>1, <3>1, KeptCarries DEF OrphanInv, Fine
  <2>4. \A i \in Slots : jobs'[i].state # "held"
    BY <1>6 DEF OrphanInv
  <2>5. \A q \in Run : Fine(q)'
    BY <2>2, <2>3
  <2> QED BY <2>4, <2>5 DEF OrphanInv, Fine
<1> QED BY <1>3, <1>7, <1>8

\* The outcomes of a node: each dispatches, goes on, or parks for a signal.
LEMMA NodeCarries ==
    ASSUME RunnerInv, OrphanInv, NEW j \in Slots, jobs[j].state \in {"begun", "spawning"}
    PROVE  /\ jobs[j].kind = "advance" =>
                 \A child : NodeCompleted(j, child) => OrphanInv'
           /\ NodeRetried(j) => OrphanInv'
           /\ \A error, child : NodeFailed(j, error, child) => OrphanInv'
           /\ \A row, log : Parked(j, row, log) => OrphanInv'
<1> DEFINE r == jobs[j].run
<1>1. r \in Run /\ runs[r] \in RunRow
  BY JobFacts
<1>2. ASSUME jobs[j].kind = "advance", NEW child, NodeCompleted(j, child) PROVE OrphanInv'
  BY <1>2, TransactionCarries DEF NodeCompleted
<1>3. ASSUME NodeRetried(j) PROVE OrphanInv'
  BY <1>3, TransactionCarries DEF NodeRetried
<1>4. ASSUME NEW error, NEW child, NodeFailed(j, error, child) PROVE OrphanInv'
  <2> DEFINE row == [runs[r] EXCEPT !.status = "compensating"]
  <2>1. row.status = "compensating"
    BY <1>1 DEF RunRow
  <2>2. Transaction(j, row, Logged(j, NodeRow(j, "failed", error, child)), {"compensate"},
                    "settling")
    BY <1>4 DEF NodeFailed
  <2> HIDE DEF row
  <2> QED BY <2>1, <2>2, TransactionCarries
<1>5. ASSUME NEW row, NEW log, Parked(j, row, log) PROVE OrphanInv'
  BY <1>5, TransactionCarries DEF Parked
<1> QED BY <1>2, <1>3, <1>4, <1>5

\* Every step of advance() carries its run on.
LEMMA AdvanceCarries ==
    ASSUME RunnerInv, OrphanInv, NEW j \in Slots, Advance(j), ~ChildOpens(j)
    PROVE  OrphanInv'
<1> DEFINE r == jobs[j].run
<1>1. CASE AlreadyFinished(j) \/ NodeFunctionThrows(j) \/ ChildNotStarted(j)
  BY <1>1, WorkerCarries
<1>2. CASE RunCompleted(j)
  <2> DEFINE row == [NewRun EXCEPT !.status = "completed", !.cursor = runs[r].cursor]
  <2>1. row.status \notin Live \cup {"opening"}
    BY DEF NewRun, Live
  <2>2. jobs[j].state = "begun" /\ Transaction(j, row, journal[r], {}, "settling")
    BY <1>2 DEF RunCompleted, Advancing
  <2> HIDE DEF row
  <2> QED BY <2>1, <2>2, TransactionCarries
<1>3. CASE AwaitSignal(j)
  <2> DEFINE row == [runs[r] EXCEPT !.status = "waiting", !.awaiting = TRUE]
  <2>1. jobs[j].state = "begun" /\ Transaction(j, row, journal[r], {}, "settling")
    BY <1>3 DEF AwaitSignal, Advancing
  <2>2. r \in Run /\ runs[r] \in RunRow
    BY <2>1, JobFacts
  <2>3. row.awaiting
    BY <2>2 DEF RunRow
  <2> HIDE DEF row
  <2> QED BY <2>1, <2>3, TransactionCarries
<1>4. CASE StepReturns(j) \/ SleepEnds(j) \/ LoopEnds(j) \/ ChildPolled(j) \/ HandlerThrows(j)
             \/ LoopFails(j) \/ ChildStartThrows(j) \/ SleepParks(j) \/ LoopIterates(j)
  <2>1. jobs[j].state = "begun" /\ jobs[j].kind = "advance"
    BY <1>4 DEF StepReturns, SleepEnds, LoopEnds, ChildPolled, HandlerThrows, LoopFails,
                ChildStartThrows, SleepParks, LoopIterates, Advancing
  <2>2. \/ \E child : NodeCompleted(j, child)
        \/ NodeRetried(j)
        \/ \E error, child : NodeFailed(j, error, child)
        \/ \E row, log : Parked(j, row, log)
    <3>1. CASE StepReturns(j) \/ SleepEnds(j) \/ LoopEnds(j)
      BY <3>1, Zenon DEF StepReturns, SleepEnds, LoopEnds
    <3>2. CASE ChildPolled(j)
      BY <3>2, Zenon DEF ChildPolled
    <3>3. CASE HandlerThrows(j) \/ LoopFails(j) \/ ChildStartThrows(j)
      BY <3>3, Zenon DEF HandlerThrows, LoopFails, ChildStartThrows
    <3>4. CASE SleepParks(j) \/ LoopIterates(j)
      BY <3>4, Zenon DEF SleepParks, LoopIterates
    <3> QED BY <1>4, <3>1, <3>2, <3>3, <3>4
  <2> QED BY <2>1, <2>2, NodeCarries, Zenon
<1>5. CASE ChildStarted(j)
  <2>1. jobs[j].state = "spawning" /\ \E row, log : Parked(j, row, log)
    BY <1>5, Zenon DEF ChildStarted
  <2> QED BY <2>1, NodeCarries, Zenon
<1> QED BY <1>1, <1>2, <1>3, <1>4, <1>5 DEF Advance

\* The children of a node are runs.
LEMMA ChildIsRun ==
    ASSUME RunnerInv, NEW r \in Run, At(r, "childWorkflow"), NEW c \in NodeOf(r).children
    PROVE  /\ c \in Run /\ runs[r].cursor \in DOMAIN Workflow[r]
           /\ c \in Workflow[r][runs[r].cursor].children
<1>1. Here(r, runs[r], "childWorkflow")
  BY AtFacts
<1>2. Workflow[r] \in Seq(Node) /\ runs[r].cursor \in Nat \ {0}
  BY DurableAssumption DEF RunnerInv, TypeOK, RunRow
<1>3. Len(Workflow[r]) \in Nat /\ DOMAIN Workflow[r] = 1..Len(Workflow[r])
      /\ \A n \in 1..Len(Workflow[r]) : Workflow[r][n] \in Node
  BY <1>2
<1>4. runs[r].cursor \in 1..Len(Workflow[r])
  BY <1>1, <1>2, <1>3 DEF Here
<1>5. NodeOf(r).children \subseteq Run
  BY <1>3, <1>4 DEF NodeOf, Node
<1> QED BY <1>3, <1>4, <1>5 DEF NodeOf

\* A child that is started has its token before its row; its parent keeps its own.
LEMMA ChildOpensCarries ==
    ASSUME RunnerInv, OrphanInv, NEW j \in Slots, ChildOpens(j)
    PROVE  OrphanInv'
<1>1. /\ jobs \in [Slots -> Job] /\ runs \in [Run -> RunRow]
      /\ jobs[j].state = "begun" /\ jobs[j].kind = "advance"
  BY DEF RunnerInv, TypeOK, ChildOpens, Advancing
<1>2. PICK c, tokens :
        /\ c \in NodeOf(jobs[j].run).children
        /\ runs[c].status = "absent"
        /\ runs' = [runs EXCEPT ![c].status = "opening"]
        /\ tokens \in Sent("advance", c)
        /\ jobs' = [tokens EXCEPT ![j].state = "spawning", ![j].child = c]
  BY DEF ChildOpens
<1>3. PICK r \in Run : r = jobs[j].run /\ At(r, "childWorkflow")
  BY <1>1, JobFacts DEF ChildOpens
<1>4. c \in Run
  BY <1>1, <1>2, <1>3, ChildIsRun
<1>5. PICK s \in Slots : /\ jobs[s].state = "free" /\ tokens[s].kind = "advance"
                         /\ tokens[s].state = "queued" /\ tokens[s].run = c
                         /\ \A i \in Slots : i # s => tokens[i] = jobs[i]
  BY <1>2, <1>4, SentSlot
<1>6. tokens \in [Slots -> Job] /\ s # j
  BY <1>1, <1>2, <1>4, <1>5, SentFacts DEF Calm
<1>7. /\ jobs'[j].state = "spawning" /\ jobs'[j].run = r /\ jobs'[j].kind = "advance"
      /\ \A i \in Slots : i # j => jobs'[i] = tokens[i]
  BY <1>1, <1>2, <1>3, <1>5, <1>6 DEF Job
<1>8. Fine(c)'
  <2>1. jobs'[s].state \in Carrying /\ jobs'[s].run = c /\ jobs'[s].kind = "advance"
    BY <1>5, <1>6, <1>7 DEF Carrying
  <2> QED BY <1>4, <2>1, TokenCarries
<1>9. ASSUME NEW q \in Run \ {c} PROVE Fine(q)'
  <2>1. TokensKept(q)
    BY <1>1, <1>3, <1>5, <1>7 DEF TokensKept, Carrying
  <2>2. runs'[q] = runs[q]
    BY <1>1, <1>2
  <2> QED BY <2>1, <2>2, KeptCarries DEF OrphanInv, Fine
<1>10. \A i \in Slots : jobs'[i].state # "held"
  BY <1>5, <1>7 DEF OrphanInv
<1>11. \A q \in Run : Fine(q)'
  BY <1>8, <1>9
<1> QED BY <1>10, <1>11 DEF OrphanInv, Fine

\* Every step keeps a token for every run that needs one.
LEMMA StepCarries ==
    ASSUME RunnerInv, OrphanInv, InUow = {}, [Next]_vars
    PROVE  OrphanInv'
<1>1. CASE UNCHANGED vars
  <2>1. UNCHANGED <<runs, jobs>>
    BY <1>1 DEF vars
  <2> QED BY <2>1 DEF OrphanInv, Carried
<1>2. ASSUME NEW j \in Slots, Process(j) \/ Requeue(j) \/ UowEnds(j)
      PROVE  OrphanInv'
  <2>1. CASE Advance(j)
    BY <2>1, AdvanceCarries, ChildOpensCarries
  <2>2. CASE Compensate(j) \/ Continue(j)
    BY <2>2, CompensateCarries, ContinueCarries
  <2>3. CASE Begin(j) \/ RunNotFound(j) \/ CompensateSkips(j) \/ Settle(j) \/ Requeue(j)
               \/ UowEnds(j)
    BY <2>3, WorkerCarries
  <2> QED BY <1>2, <2>1, <2>2, <2>3 DEF Process
<1> QED BY <1>1, <1>2, ClientCarries DEF Next

\* Where no run is started inside a UnitOfWork, no live run is ever without a
\* token that an operator or a worker will find, unless it waits for a signal.
THEOREM NothingOrphaned == ASSUME InUow = {} PROVE Spec => []NoSilentOrphan
<1>1. Init => OrphanInv
  <2>1. \A r \in Run : NewRun.status = "absent"
    BY DEF NewRun
  <2> QED BY <2>1, FreshJobs DEF Init, OrphanInv, Live
<1>2. RunnerInv /\ OrphanInv /\ [Next]_vars => OrphanInv'
  BY StepCarries
<1>3. OrphanInv => NoSilentOrphan
  <2>1. Carrying \subseteq Working \cup Stuck
    BY DEF Carrying, Working, Stuck
  <2> QED BY <2>1 DEF OrphanInv, Carried, NoSilentOrphan, HasToken
<1> QED BY RunnerInvariant, <1>1, <1>2, <1>3, PTL DEF Spec

-----------------------------------------------------------------------------
(* Nothing is done twice *)

\* The children of any node are runs, and no two nodes share one.
LEMMA Children ==
    ASSUME NEW r \in Run, NEW n \in DOMAIN Workflow[r], NEW c \in Workflow[r][n].children
    PROVE  /\ c \in Run /\ c # NoRun /\ c \notin Roots /\ n \in Nat
           /\ \A q \in Run : \A m \in DOMAIN Workflow[q] :
                 c \in Workflow[q][m].children => q = r /\ m = n
<1>1. Workflow[r] \in Seq(Node)
  BY DurableAssumption
<1>2. Workflow[r][n] \in Node /\ n \in Nat
  BY <1>1
<1>3. c \in Run
  BY <1>2 DEF Node
<1>4. c \notin Roots
  BY FreshChildren
<1>5. ASSUME NEW q \in Run, NEW m \in DOMAIN Workflow[q], c \in Workflow[q][m].children
      PROVE  q = r /\ m = n
  <2>1. <<r, n>> = <<q, m>>
    BY <1>5, FreshChildren
  <2> QED BY <2>1
<1> QED BY <1>2, <1>3, <1>4, <1>5, DurableAssumption

\* A step of one run r that is undoubled at r leaves no run with two tokens, two
\* children at a node, or a journal out of step.
LEMMA LocalRest ==
    ASSUME RunnerInv, TypeOK', Moved, Unhurt, Undoubled, NEW r \in Run,
           \A q \in Run \ {r} : runs'[q] = runs[q] /\ journal'[q] = journal[q],
           \A i \in Slots : Acting(i)' /\ jobs'[i].run # r => jobs'[i] = jobs[i],
           \A i, k \in Slots : Acting(i)' /\ Acting(k)' /\ jobs'[i].run = r /\ jobs'[k].run = r
                                  => i = k,
           \A i \in Slots : Acting(i)' /\ jobs'[i].run = r =>
              /\ runs'[r].status # "absent" /\ ~runs'[r].awaiting
              /\ jobs'[i].state \in {"begun", "spawning"} => jobs'[i].began = Len(journal'[r]),
           runs'[r].status # "void",
           runs'[r].awaiting => runs'[r].status = "waiting",
           \A p \in DOMAIN journal'[r] : journal'[r][p].at = p - 1,
           runs'[r].status # "absent" => runs[r].status # "absent" \/ r \in Roots,
           \A i \in Slots : jobs[i].state = "spawning" /\ jobs[i].run # r => jobs'[i] = jobs[i],
           \/ runs'[r].cursor > runs[r].cursor
           \/ /\ runs'[r].cursor = runs[r].cursor
              /\ runs'[r].child = runs[r].child \/ runs[r].child = NoRun
              /\ \A i \in Slots : jobs[i].state = "spawning" /\ jobs[i].run = r =>
                    jobs'[i] = jobs[i] \/ runs'[r].child = jobs[i].child
    PROVE  LoneToken' /\ JournalClock' /\ ChildKnown' /\ OneChild'
<1>1. \A i \in Slots : Acting(i) => jobs[i].run \in Run
  BY DEF RunnerInv, SpawningHoldsRow, Acting, Active
<1>2. \A i \in Slots : Acting(i)' /\ jobs'[i].run # r => Acting(i)
  BY DEF Acting
<1>3. LoneToken'
  <2>1. ASSUME NEW i \in Slots, NEW k \in Slots, Acting(i)', Acting(k)', jobs'[i].run = jobs'[k].run
        PROVE  i = k
    <3>1. CASE jobs'[i].run = r
      BY <2>1, <3>1
    <3>2. CASE jobs'[i].run # r
      BY <1>2, <2>1, <3>2 DEF Undoubled, LoneToken
    <3> QED BY <3>1, <3>2
  <2>2. ASSUME NEW i \in Slots, Acting(i)'
        PROVE  runs'[jobs'[i].run].status # "absent" /\ ~runs'[jobs'[i].run].awaiting
    <3>1. CASE jobs'[i].run = r
      BY <2>2, <3>1
    <3>2. CASE jobs'[i].run # r
      <4>1. Acting(i) /\ jobs'[i] = jobs[i] /\ jobs[i].run \in Run \ {r}
        BY <1>1, <1>2, <2>2, <3>2
      <4>2. runs'[jobs[i].run] = runs[jobs[i].run]
        BY <4>1
      <4>3. runs[jobs[i].run].status # "absent" /\ ~runs[jobs[i].run].awaiting
        BY <4>1 DEF Undoubled, LoneToken
      <4> QED BY <4>1, <4>2, <4>3
    <3> QED BY <3>1, <3>2
  <2>3. ASSUME NEW q \in Run
        PROVE  runs'[q].status # "void" /\ (runs'[q].awaiting => runs'[q].status = "waiting")
    <3>1. CASE q = r
      BY <3>1
    <3>2. CASE q # r
      <4>1. runs'[q] = runs[q]
        BY <3>2
      <4>2. runs[q].status # "void" /\ (runs[q].awaiting => runs[q].status = "waiting")
        BY DEF Undoubled, LoneToken
      <4> QED BY <4>1, <4>2
    <3> QED BY <3>1, <3>2
  <2> QED BY <2>1, <2>2, <2>3 DEF LoneToken
<1>4. JournalClock'
  <2>1. ASSUME NEW q \in Run, NEW p \in DOMAIN journal'[q]
        PROVE  journal'[q][p].at = p - 1
    BY <2>1 DEF Undoubled, JournalClock
  <2>2. ASSUME NEW i \in Slots, jobs'[i].state \in {"begun", "spawning"}
        PROVE  jobs'[i].began = Len(journal'[jobs'[i].run])
    <3>1. Acting(i)'
      BY <2>2 DEF Acting, Active
    <3>2. CASE jobs'[i].run = r
      BY <2>2, <3>1, <3>2
    <3>3. CASE jobs'[i].run # r
      <4>1. jobs'[i] = jobs[i] /\ jobs[i].run \in Run \ {r}
        BY <1>1, <1>2, <3>1, <3>3
      <4> QED BY <2>2, <4>1 DEF Undoubled, JournalClock
    <3> QED BY <3>2, <3>3
  <2> QED BY <2>1, <2>2 DEF JournalClock
<1>6. ASSUME NEW q \in Run, NEW n \in DOMAIN Workflow[q], NEW c \in Workflow[q][n].children,
             runs'[c].status # "absent"
      PROVE  runs[c].status # "absent"
  <2>1. c \in Run /\ c \notin Roots
    BY Children
  <2> QED BY <1>6, <2>1
<1>7. ChildKnown'
  <2> SUFFICES ASSUME NEW q \in Run, NEW n \in DOMAIN Workflow[q],
                      NEW c \in Workflow[q][n].children, runs'[c].status # "absent"
               PROVE  \/ n < runs'[q].cursor
                      \/ n = runs'[q].cursor /\ runs'[q].child = c
                      \/ n = runs'[q].cursor /\ \E j \in Slots :
                            jobs'[j].state = "spawning" /\ jobs'[j].run = q /\ jobs'[j].child = c
    BY DEF ChildKnown
  <2>1. c \in Run /\ c # NoRun /\ n \in Nat
    BY Children
  <2>2. \/ n < runs[q].cursor
        \/ n = runs[q].cursor /\ runs[q].child = c
        \/ n = runs[q].cursor /\ \E j \in Slots :
              jobs[j].state = "spawning" /\ jobs[j].run = q /\ jobs[j].child = c
    BY <1>6 DEF Undoubled, ChildKnown
  <2>3. runs[q].cursor \in Nat /\ runs'[q].cursor \in Nat
    BY DEF RunnerInv, TypeOK, RunRow
  <2>4. CASE q # r
    <3>1. runs'[q] = runs[q]
      BY <2>4
    <3>2. \A j \in Slots : jobs[j].state = "spawning" /\ jobs[j].run = q => jobs'[j] = jobs[j]
      BY <2>4
    <3> QED BY <2>2, <3>1, <3>2
  <2>5. CASE q = r /\ runs'[r].cursor > runs[r].cursor
    BY <2>1, <2>2, <2>3, <2>5
  <2>6. CASE /\ q = r /\ runs'[r].cursor = runs[r].cursor
             /\ runs'[r].child = runs[r].child \/ runs[r].child = NoRun
             /\ \A i \in Slots : jobs[i].state = "spawning" /\ jobs[i].run = r =>
                   jobs'[i] = jobs[i] \/ runs'[r].child = jobs[i].child
    BY <2>1, <2>2, <2>3, <2>6
  <2> QED BY <2>4, <2>5, <2>6
<1>8. OneChild'
  BY <1>6 DEF Undoubled, OneChild
<1> QED BY <1>3, <1>4, <1>7, <1>8

\* A step that compensates nothing leaves what was undone in order.
LEMMA UndoneKept ==
    ASSUME Moved, Undoubled, UNCHANGED undone
    PROVE  UndoneInOrder'
<1>1. \A q \in Run : runs[q].status = "failed" => runs'[q] = runs[q]
  BY FinishedStays DEF Moved, Terminal
<1>2. \A q \in Run : undone[q] # <<>> => runs[q].status = "failed"
  BY DEF Undoubled, UndoneInOrder
<1>3. \A q \in Run : \A k, l \in DOMAIN undone[q] : k < l => undone[q][k] > undone[q][l]
  BY DEF Undoubled, UndoneInOrder
<1>4. \A q \in Run : undone'[q] # <<>> => runs'[q].status = "failed"
  BY <1>1, <1>2
<1> QED BY <1>3, <1>4 DEF UndoneInOrder

\* ... and, if it compensates nothing, nothing doubled at all.
LEMMA LocalKeeps ==
    ASSUME RunnerInv, TypeOK', Moved, Unhurt, Undoubled, NEW r \in Run,
           \A q \in Run \ {r} : runs'[q] = runs[q] /\ journal'[q] = journal[q],
           UNCHANGED undone,
           \A i \in Slots : Acting(i)' /\ jobs'[i].run # r => jobs'[i] = jobs[i],
           \A i, k \in Slots : Acting(i)' /\ Acting(k)' /\ jobs'[i].run = r /\ jobs'[k].run = r
                                  => i = k,
           \A i \in Slots : Acting(i)' /\ jobs'[i].run = r =>
              /\ runs'[r].status # "absent" /\ ~runs'[r].awaiting
              /\ jobs'[i].state \in {"begun", "spawning"} => jobs'[i].began = Len(journal'[r]),
           runs'[r].status # "void",
           runs'[r].awaiting => runs'[r].status = "waiting",
           \A p \in DOMAIN journal'[r] : journal'[r][p].at = p - 1,
           runs'[r].status # "absent" => runs[r].status # "absent" \/ r \in Roots,
           \A i \in Slots : jobs[i].state = "spawning" /\ jobs[i].run # r => jobs'[i] = jobs[i],
           \/ runs'[r].cursor > runs[r].cursor
           \/ /\ runs'[r].cursor = runs[r].cursor
              /\ runs'[r].child = runs[r].child \/ runs[r].child = NoRun
              /\ \A i \in Slots : jobs[i].state = "spawning" /\ jobs[i].run = r =>
                    jobs'[i] = jobs[i] \/ runs'[r].child = jobs[i].child
    PROVE  Undoubled'
<1>1. LoneToken' /\ JournalClock' /\ ChildKnown' /\ OneChild'
  BY LocalRest
<1> QED BY <1>1, UndoneKept DEF Undoubled

\* A transaction that committed, and whose job goes on to next.
Went(j, r, row, log, kinds, next, tokens) ==
    /\ Unhurt
    /\ jobs' = [tokens EXCEPT ![j].state = next]
    /\ runs' = [runs EXCEPT ![r] = row]
    /\ journal' = [journal EXCEPT ![r] = log]
    /\ tokens = jobs \/ \E k \in kinds : tokens \in Sent(k, r)
    /\ kinds # {} => \E k \in kinds : tokens \in Sent(k, r)

\* Without a failure a transaction commits and its job goes on.
LEMMA UnhurtTransaction ==
    ASSUME RunnerInv, Unhurt', NEW j \in Slots, NEW r \in Run, NEW row, NEW log,
           NEW kinds, NEW next \in {"continuing", "settling"}, NEW tokens, NEW state,
           Left(j, r, row, log, kinds, next, tokens, state)
    PROVE  Went(j, r, row, log, kinds, next, tokens)
<1>1. faults \in Nat /\ crashes \in Nat /\ faults' = 0 /\ crashes' = 0
  BY DurableAssumption DEF RunnerInv, TypeOK, Unhurt
<1>2. state = next /\ UNCHANGED <<faults, crashes>>
  BY <1>1 DEF Left
<1>3. Unhurt
  BY <1>1, <1>2 DEF Unhurt
<1>4. state \notin Halts
  BY <1>2 DEF Halts
<1> QED BY <1>2, <1>3, <1>4 DEF Left, Went

\* A journal that grows by an entry of its own clock stays in step with it.
LEMMA ClockTicks ==
    ASSUME NEW log \in Seq(JournalRow), NEW e \in JournalRow, e.at = Len(log),
           \A p \in DOMAIN log : log[p].at = p - 1,
           NEW log1, log1 = Append(log, e)
    PROVE  \A p \in DOMAIN log1 : log1[p].at = p - 1
BY AppendFacts

\* The transaction of a run's lone token leaves nothing doubled.
LEMMA TransactionWhole ==
    ASSUME RunnerInv, TypeOK', Moved, Unhurt', Undoubled, NEW j \in Slots,
           NEW r \in Run, r = jobs[j].run, jobs[j].state \in {"begun", "spawning"},
           NEW row, NEW log, NEW kinds \in SUBSET {"advance", "compensate"},
           NEW next \in {"continuing", "settling"}, Transaction(j, row, log, kinds, next),
           UNCHANGED undone,
           kinds = {} \/ next = "settling",
           row.status \notin {"absent", "void"},
           row.awaiting => row.status = "waiting" /\ kinds = {} /\ next = "settling",
           \/ log = journal[r]
           \/ \E e \in JournalRow : e.at = jobs[j].began /\ log = Append(journal[r], e),
           \/ row.cursor > runs[r].cursor
           \/ /\ row.cursor = runs[r].cursor
              /\ row.child = runs[r].child \/ runs[r].child = NoRun
              /\ jobs[j].state = "spawning" => row.child = jobs[j].child
    PROVE  Undoubled'
<1>1. /\ jobs \in [Slots -> Job] /\ runs \in [Run -> RunRow]
      /\ journal \in [Run -> Seq(JournalRow)]
  BY DEF RunnerInv, TypeOK
<1>2. PICK tokens \in [Slots -> Job], state \in {next} \cup Halts :
         Left(j, r, row, log, kinds, next, tokens, state)
  <2>1. jobs[j].state # "free"
    OBVIOUS
  <2> QED BY <2>1, AfterTransaction
<1>21. Went(j, r, row, log, kinds, next, tokens)
  BY <1>2, UnhurtTransaction
<1>3. /\ Unhurt
      /\ jobs' = [tokens EXCEPT ![j].state = next]
      /\ runs' = [runs EXCEPT ![r] = row]
      /\ journal' = [journal EXCEPT ![r] = log]
      /\ tokens = jobs \/ \E k \in kinds : tokens \in Sent(k, r)
      /\ kinds # {} => \E k \in kinds : tokens \in Sent(k, r)
  BY <1>21 DEF Went
<1>4. next \in States
  BY DEF States
<1>5. /\ jobs'[j].state = next /\ jobs'[j].run = tokens[j].run
      /\ \A i \in Slots : i # j => jobs'[i] = tokens[i]
  BY <1>3, <1>4, JobMoves
<1>6. ASSUME NEW k \in kinds, tokens \in Sent(k, r)
      PROVE  \E s \in Slots \ {j} : /\ jobs[s].state = "free"
                                    /\ tokens[s].state = "queued" /\ tokens[s].run = r
                                    /\ \A i \in Slots : i # s => tokens[i] = jobs[i]
  <2>1. PICK s \in Slots : /\ jobs[s].state = "free"
                           /\ tokens[s].state = "queued" /\ tokens[s].run = r
                           /\ \A i \in Slots : i # s => tokens[i] = jobs[i]
    BY <1>6, SentSlot
  <2> QED BY <2>1
<1>7. \A i \in Slots : jobs[i].state # "free" => tokens[i] = jobs[i]
  BY <1>3, <1>6
<1>8. jobs'[j].run = r
  BY <1>5, <1>7
<1>9. Acting(j) /\ \A i \in Slots : Acting(i) /\ jobs[i].run = r => i = j
  BY DEF Acting, Active, Undoubled, LoneToken
<1>10. runs[r].status # "absent" /\ runs'[r] = row /\ journal'[r] = log
  BY <1>1, <1>3, <1>9 DEF Undoubled, LoneToken
<1>11. \A i \in Slots : i # j => tokens[i] = jobs[i] \/ (tokens[i].state = "queued" /\ tokens[i].run = r)
  BY <1>3, <1>6
<1>12. \A q \in Run \ {r} : runs'[q] = runs[q] /\ journal'[q] = journal[q]
  BY <1>1, <1>3
<1>13. \A i \in Slots : Acting(i)' /\ jobs'[i].run # r => jobs'[i] = jobs[i]
  BY <1>5, <1>8, <1>11 DEF Acting
<1>14. \A i, k \in Slots : Acting(i)' /\ Acting(k)' /\ jobs'[i].run = r /\ jobs'[k].run = r
                              => i = k
  <2>1. CASE kinds = {}
    <3>1. \A i \in Slots : Acting(i)' /\ jobs'[i].run = r => i = j
      BY <1>3, <1>5, <1>9, <2>1 DEF Acting
    <3> QED BY <3>1
  <2>2. CASE kinds # {}
    <3>1. ~Acting(j)'
      BY <1>5, <2>2 DEF Acting, Active
    <3>2. PICK s \in Slots \ {j} : \A i \in Slots : i # s => tokens[i] = jobs[i]
      BY <1>3, <1>6, <2>2
    <3>3. \A i \in Slots : Acting(i)' /\ jobs'[i].run = r => i = s
      BY <1>5, <1>9, <3>1, <3>2 DEF Acting
    <3> QED BY <3>3
  <2> QED BY <2>1, <2>2
<1>15. ASSUME NEW i \in Slots, Acting(i)', jobs'[i].run = r
       PROVE  /\ runs'[r].status # "absent" /\ ~runs'[r].awaiting
              /\ jobs'[i].state \in {"begun", "spawning"} => jobs'[i].began = Len(journal'[r])
  <2>1. jobs'[i].state \notin {"begun", "spawning"}
    <3>1. CASE i = j
      BY <1>5, <3>1
    <3>2. CASE i # j
      <4>1. jobs'[i] = tokens[i]
        BY <1>5, <3>2
      <4>2. tokens[i] # jobs[i]
        BY <1>9, <1>15, <3>2, <4>1 DEF Acting
      <4> QED BY <1>11, <3>2, <4>1, <4>2
    <3> QED BY <3>1, <3>2
  <2>2. ~(kinds = {} /\ next = "settling")
    <3> SUFFICES ASSUME kinds = {}, next = "settling" PROVE FALSE
      OBVIOUS
    <3>1. tokens = jobs /\ i # j
      BY <1>3, <1>5, <1>15 DEF Acting, Active
    <3> QED BY <1>5, <1>9, <1>15, <3>1 DEF Acting
  <2>3. ~row.awaiting
    BY <2>2
  <2>4. ~runs'[r].awaiting
    BY <1>10, <2>3, Zenon
  <2> QED BY <1>10, <2>1, <2>4
<1>16. runs'[r].status # "void" /\ (runs'[r].awaiting => runs'[r].status = "waiting")
  <2>1. row.awaiting => row.status = "waiting"
    OBVIOUS
  <2>2. runs'[r].awaiting => runs'[r].status = "waiting"
    BY <1>10, <2>1, Zenon
  <2> QED BY <1>10, <2>2
<1>17. \A p \in DOMAIN journal'[r] : journal'[r][p].at = p - 1
  <2>1. \A p \in DOMAIN journal[r] : journal[r][p].at = p - 1
    BY DEF Undoubled, JournalClock
  <2>2. jobs[j].began = Len(journal[r])
    BY DEF Undoubled, JournalClock
  <2>3. CASE log = journal[r]
    BY <1>10, <2>1, <2>3
  <2>4. CASE \E e \in JournalRow : e.at = jobs[j].began /\ log = Append(journal[r], e)
    <3>1. PICK e \in JournalRow : e.at = Len(journal[r]) /\ log = Append(journal[r], e)
      BY <2>2, <2>4
    <3>2. \A p \in DOMAIN log : log[p].at = p - 1
      BY <1>1, <2>1, <3>1, ClockTicks
    <3> QED BY <1>10, <3>2
  <2> QED BY <2>3, <2>4
<1>18. \A i \in Slots : jobs[i].state = "spawning" /\ i # j =>
           jobs[i].run # r /\ jobs'[i] = jobs[i]
  <2>1. \A i \in Slots : jobs[i].state = "spawning" => Acting(i)
    BY DEF Acting, Active
  <2> QED BY <1>5, <1>7, <1>9, <2>1
<1>19. \/ runs'[r].cursor > runs[r].cursor
       \/ /\ runs'[r].cursor = runs[r].cursor
          /\ runs'[r].child = runs[r].child \/ runs[r].child = NoRun
          /\ \A i \in Slots : jobs[i].state = "spawning" /\ jobs[i].run = r =>
                jobs'[i] = jobs[i] \/ runs'[r].child = jobs[i].child
  BY <1>10, <1>18
<1>20. \A i \in Slots : jobs[i].state = "spawning" /\ jobs[i].run # r => jobs'[i] = jobs[i]
  BY <1>18
<1> QED BY <1>3, <1>10, <1>12, <1>13, <1>14, <1>15, <1>16, <1>17, <1>19, <1>20, LocalKeeps

\* What the lone token of a run knows of it.
LEMMA LoneFacts ==
    ASSUME RunnerInv, Undoubled, NEW j \in Slots, Acting(j)
    PROVE  \E r \in Run : /\ r = jobs[j].run /\ runs[r] \in RunRow
                         /\ runs[r].status \notin {"absent", "void"} /\ ~runs[r].awaiting
                         /\ runs[r].cursor \in Nat \ {0} /\ jobs[j].began \in Nat
                         /\ journal[r] \in Seq(JournalRow)
<1>1. jobs[j].state # "free"
  BY DEF Acting, Active
<1>2. /\ jobs[j].run \in Run /\ runs[jobs[j].run] \in RunRow /\ jobs[j].began \in Nat
      /\ journal[jobs[j].run] \in Seq(JournalRow)
  BY <1>1, JobFacts
<1>3. runs[jobs[j].run].cursor \in Nat \ {0}
  BY <1>2 DEF RunRow
<1>4. runs[jobs[j].run].status \notin {"absent", "void"} /\ ~runs[jobs[j].run].awaiting
  BY <1>2 DEF Undoubled, LoneToken
<1> QED BY <1>2, <1>3, <1>4

\* A handler that parks its run where it is leaves nothing doubled.
LEMMA ParkedWhole ==
    ASSUME RunnerInv, TypeOK', Moved, Unhurt', Undoubled, NEW j \in Slots,
           NEW r \in Run, r = jobs[j].run, jobs[j].state \in {"begun", "spawning"},
           NEW row \in RunRow, ~row.awaiting, row.cursor = runs[r].cursor,
           row.child = runs[r].child \/ runs[r].child = NoRun,
           jobs[j].state = "spawning" => row.child = jobs[j].child,
           NEW log,
           \/ log = journal[r]
           \/ \E e \in JournalRow : e.at = jobs[j].began /\ log = Append(journal[r], e),
           Parked(j, row, log)
    PROVE  Undoubled'
<1> DEFINE row1 == [row EXCEPT !.status = "waiting"]
<1>1. /\ row1.status = "waiting" /\ row1.cursor = row.cursor /\ row1.child = row.child
  BY DEF RunRow
<1>2. ~row1.awaiting
  BY DEF RunRow
<1>3. Transaction(j, row1, log, {"advance"}, "settling") /\ UNCHANGED undone
  BY DEF Parked
<1> HIDE DEF row1
<1>4. row1.awaiting => row1.status = "waiting" /\ {"advance"} = {} /\ "settling" = "settling"
  BY <1>2, Zenon
<1> DEFINE kinds == {"advance"}
<1>5. kinds \in SUBSET {"advance", "compensate"} /\ Transaction(j, row1, log, kinds, "settling")
  BY <1>3
<1>6. row1.awaiting => row1.status = "waiting" /\ kinds = {}
  BY <1>4
<1> HIDE DEF kinds
<1> QED BY <1>1, <1>3, <1>5, <1>6, TransactionWhole

\* A node that completes, is retried or fails leaves nothing doubled.
LEMMA NodeWhole ==
    ASSUME RunnerInv, TypeOK', Moved, Unhurt', Undoubled, NEW j \in Slots,
           jobs[j].state = "begun"
    PROVE  /\ \A child \in Run \cup {NoRun} : NodeCompleted(j, child) => Undoubled'
           /\ NodeRetried(j) => Undoubled'
           /\ \A error \in {"none", "threw", "ceiling", "child"}, child \in Run \cup {NoRun} :
                 NodeFailed(j, error, child) => Undoubled'
<1>1. Acting(j)
  BY DEF Acting, Active
<1>2. PICK r \in Run : /\ r = jobs[j].run /\ runs[r] \in RunRow
                       /\ runs[r].status \notin {"absent", "void"} /\ ~runs[r].awaiting
                       /\ runs[r].cursor \in Nat \ {0} /\ jobs[j].began \in Nat
                       /\ journal[r] \in Seq(JournalRow)
  BY <1>1, LoneFacts
<1>3. ASSUME NEW status \in {"completed", "failed"}, NEW error \in {"none", "threw", "ceiling", "child"},
             NEW child \in Run \cup {NoRun}
      PROVE  NodeRow(j, status, error, child) \in JournalRow
             /\ NodeRow(j, status, error, child).at = jobs[j].began
  BY <1>2 DEF NodeRow, JournalRow
<1>4. ASSUME NEW child \in Run \cup {NoRun}, NodeCompleted(j, child) PROVE Undoubled'
  <2> DEFINE row == [runs[r] EXCEPT !.status = "running", !.cursor = @ + 1, !.attempts = 0,
                                    !.sleep = "none", !.iteration = 0, !.child = NoRun]
             entry == NodeRow(j, "completed", "none", child)
             none == {}
  <2>1. row.status = "running" /\ row.cursor > runs[r].cursor
    BY <1>2 DEF RunRow
  <2>2. ~row.awaiting
    BY <1>2 DEF RunRow
  <2>3. entry \in JournalRow /\ entry.at = jobs[j].began
    BY <1>3
  <2>4. Transaction(j, row, Append(journal[r], entry), none, "continuing") /\ UNCHANGED undone
    BY <1>2, <1>4 DEF NodeCompleted, Logged
  <2>5. none \in SUBSET {"advance", "compensate"} /\ none = {}
    OBVIOUS
  <2> HIDE DEF row, entry, none
  <2>6. row.awaiting => row.status = "waiting" /\ none = {} /\ "continuing" = "settling"
    BY <2>2, Zenon
  <2> QED BY <1>2, <2>1, <2>3, <2>4, <2>5, <2>6, TransactionWhole
<1>5. ASSUME NodeRetried(j) PROVE Undoubled'
  <2> DEFINE row == [runs[r] EXCEPT !.attempts = @ + 1]
             kinds == {"advance"}
  <2>1. /\ row.status = runs[r].status /\ row.cursor = runs[r].cursor
        /\ row.child = runs[r].child
    BY <1>2 DEF RunRow
  <2>2. ~row.awaiting
    BY <1>2 DEF RunRow
  <2>3. Transaction(j, row, journal[r], kinds, "settling") /\ UNCHANGED undone
    BY <1>2, <1>5 DEF NodeRetried
  <2>4. kinds \in SUBSET {"advance", "compensate"}
    OBVIOUS
  <2> HIDE DEF row, kinds
  <2>5. row.awaiting => row.status = "waiting" /\ kinds = {} /\ "settling" = "settling"
    BY <2>2, Zenon
  <2> QED BY <1>2, <2>1, <2>3, <2>4, <2>5, TransactionWhole
<1>6. ASSUME NEW error \in {"none", "threw", "ceiling", "child"}, NEW child \in Run \cup {NoRun},
             NodeFailed(j, error, child)
      PROVE  Undoubled'
  <2> DEFINE row == [runs[r] EXCEPT !.status = "compensating"]
             entry == NodeRow(j, "failed", error, child)
             kinds == {"compensate"}
  <2>1. /\ row.status = "compensating" /\ row.cursor = runs[r].cursor
        /\ row.child = runs[r].child
    BY <1>2 DEF RunRow
  <2>2. ~row.awaiting
    BY <1>2 DEF RunRow
  <2>3. Transaction(j, row, Append(journal[r], entry), kinds, "settling") /\ UNCHANGED undone
    BY <1>2, <1>6 DEF NodeFailed, Logged
  <2>4. kinds \in SUBSET {"advance", "compensate"}
    OBVIOUS
  <2>5. entry \in JournalRow /\ entry.at = jobs[j].began
    BY <1>3
  <2> HIDE DEF row, kinds, entry
  <2>6. row.awaiting => row.status = "waiting" /\ kinds = {} /\ "settling" = "settling"
    BY <2>2, Zenon
  <2> QED BY <1>2, <2>1, <2>3, <2>4, <2>5, <2>6, TransactionWhole
<1> QED BY <1>4, <1>5, <1>6

\* A step that changes one job, and it starts no child, leaves nothing doubled.
LEMMA OneJobWhole ==
    ASSUME RunnerInv, TypeOK', Moved, Unhurt, Undoubled, NEW j \in Slots,
           jobs[j].state \notin {"free", "spawning"},
           UNCHANGED <<runs, journal, undone>>,
           \A i \in Slots : i # j => jobs'[i] = jobs[i],
           Acting(j)' => Acting(j) /\ jobs'[j].run = jobs[j].run,
           jobs'[j].state \in {"begun", "spawning"} =>
              jobs'[j].began = Len(journal[jobs[j].run])
    PROVE  Undoubled'
<1>1. PICK r \in Run : r = jobs[j].run /\ runs[r] \in RunRow
  BY JobFacts
<1>2. \A i \in Slots : Acting(i)' => Acting(i) /\ jobs'[i].run = jobs[i].run
  BY DEF Acting
<1>3. \A i \in Slots : Acting(i)' /\ jobs'[i].run # r => jobs'[i] = jobs[i]
  BY <1>1
<1>4. \A i, k \in Slots : Acting(i)' /\ Acting(k)' /\ jobs'[i].run = r /\ jobs'[k].run = r => i = k
  BY <1>2 DEF Undoubled, LoneToken
<1>5. ASSUME NEW i \in Slots, Acting(i)', jobs'[i].run = r
      PROVE  /\ runs'[r].status # "absent" /\ ~runs'[r].awaiting
             /\ jobs'[i].state \in {"begun", "spawning"} => jobs'[i].began = Len(journal'[r])
  <2>1. Acting(i) /\ jobs[i].run = r
    BY <1>2, <1>5
  <2>2. runs[r].status # "absent" /\ ~runs[r].awaiting
    BY <2>1 DEF Undoubled, LoneToken
  <2>3. CASE i = j
    BY <1>1, <2>2, <2>3
  <2>4. CASE i # j
    <3>1. jobs'[i] = jobs[i]
      BY <2>4
    <3>2. jobs[i].state \in {"begun", "spawning"} => jobs[i].began = Len(journal[r])
      BY <2>1 DEF Undoubled, JournalClock
    <3> QED BY <2>2, <3>1, <3>2
  <2> QED BY <2>3, <2>4
<1>6. runs[r].status # "void" /\ (runs[r].awaiting => runs[r].status = "waiting")
  BY DEF Undoubled, LoneToken
<1>7. \A p \in DOMAIN journal[r] : journal[r][p].at = p - 1
  BY DEF Undoubled, JournalClock
<1>8. \A i \in Slots : jobs[i].state = "spawning" => jobs'[i] = jobs[i]
  OBVIOUS
<1>9. runs' = runs /\ journal' = journal /\ UNCHANGED undone
  OBVIOUS
<1>10. runs'[r].status # "void" /\ (runs'[r].awaiting => runs'[r].status = "waiting")
  BY <1>6, <1>9
<1>11. \A p \in DOMAIN journal'[r] : journal'[r][p].at = p - 1
  BY <1>7, <1>9
<1> QED BY <1>3, <1>4, <1>5, <1>8, <1>9, <1>10, <1>11, LocalKeeps

\* The worker's own steps leave nothing doubled.
LEMMA WorkerWhole ==
    ASSUME RunnerInv, TypeOK', Moved, Unhurt', Undoubled, NEW j \in Slots,
           \/ Begin(j) \/ RunNotFound(j) \/ AlreadyFinished(j) \/ NodeFunctionThrows(j)
           \/ ChildNotStarted(j) \/ CompensateSkips(j) \/ Settle(j) \/ Requeue(j) \/ UowEnds(j)
    PROVE  Undoubled'
<1>1. jobs \in [Slots -> Job] /\ jobs[j] \in Job
  BY DEF RunnerInv, TypeOK
<1>2. faults \in Nat /\ crashes \in Nat /\ faults' = 0 /\ crashes' = 0
  BY DurableAssumption DEF RunnerInv, TypeOK, Unhurt
<1>3. /\ UNCHANGED <<runs, journal, undone, faults, crashes>>
      /\ jobs[j].state # "free"
      /\ jobs[j].state = "spawning" => ChildNotStarted(j)
  BY <1>2 DEF Begin, RunNotFound, AlreadyFinished, NodeFunctionThrows, Advancing, ChildNotStarted,
              CompensateSkips, Settle, Stop, Requeue, UowEnds
<1>4. Unhurt
  BY <1>3 DEF Unhurt
<1>5. jobs[j].run \in Run
  BY <1>3, JobFacts
<1>6. ~ChildNotStarted(j)
  <2>1. ChildNotStarted(j) => jobs[j].child \in Run
    BY DEF ChildNotStarted, RunnerInv, SpawningHoldsRow
  <2> QED BY <2>1 DEF ChildNotStarted, Undoubled, LoneToken
<1>7. ASSUME NEW new \in Job, jobs' = [jobs EXCEPT ![j] = new],
             new.state \in Active => Acting(j) /\ new.run = jobs[j].run,
             new.state # "spawning",
             new.state = "begun" => new.began = Len(journal[jobs[j].run])
      PROVE  Undoubled'
  <2>1. jobs'[j] = new /\ \A i \in Slots : i # j => jobs'[i] = jobs[i]
    BY <1>1, <1>7
  <2> QED BY <1>3, <1>4, <1>6, <1>7, <2>1, OneJobWhole DEF Acting
<1>8. ASSUME NEW state \in States \ {"begun", "spawning"},
             jobs' = [jobs EXCEPT ![j].state = state], state \in Active => Acting(j)
      PROVE  Undoubled'
  <2>1. /\ jobs'[j].state = state /\ jobs'[j].run = jobs[j].run
        /\ \A i \in Slots : i # j => jobs'[i] = jobs[i]
    BY <1>1, <1>8, JobMoves
  <2> QED BY <1>3, <1>4, <1>6, <1>8, <2>1, OneJobWhole DEF Acting
<1>9. CASE Begin(j)
  <2> DEFINE new == [jobs[j] EXCEPT !.state = "begun", !.began = Len(journal[jobs[j].run])]
  <2>1. Len(journal[jobs[j].run]) \in Nat
    BY <1>5 DEF RunnerInv, TypeOK
  <2>2. /\ new \in Job /\ new.state = "begun" /\ new.run = jobs[j].run
        /\ new.began = Len(journal[jobs[j].run])
    BY <1>1, <2>1 DEF Job
  <2>3. jobs' = [jobs EXCEPT ![j] = new] /\ Acting(j)
    BY <1>1, <1>9 DEF Begin, Acting, Active
  <2> HIDE DEF new
  <2> QED BY <1>7, <2>2, <2>3
<1>10. CASE RunNotFound(j) \/ NodeFunctionThrows(j)
  <2>1. Acting(j) /\ jobs' = [jobs EXCEPT ![j].state = "dead"]
    BY <1>10 DEF RunNotFound, NodeFunctionThrows, Advancing, Acting, Active
  <2>2. "dead" \in States \ {"begun", "spawning"} /\ ("dead" \in Active => Acting(j))
    BY <2>1 DEF States
  <2> QED BY <1>8, <2>1, <2>2
<1>11. CASE AlreadyFinished(j) \/ CompensateSkips(j)
  <2>1. jobs' = [jobs EXCEPT ![j].state = "settling"]
    BY <1>11 DEF AlreadyFinished, CompensateSkips
  <2>2. "settling" \in States /\ "settling" \notin Active
    BY DEF States, Active
  <2> QED BY <1>8, <2>1, <2>2
<1>12. CASE Settle(j)
  <2>1. jobs' = [jobs EXCEPT ![j] = FreeSlot]
    BY <1>2, <1>3, <1>12 DEF Settle, Stop
  <2>2. FreeSlot \in Job /\ FreeSlot.state = "free" /\ "free" \notin Active
    BY FreshJobs DEF Active
  <2> QED BY <1>7, <2>1, <2>2
<1>13. CASE Requeue(j)
  <2> DEFINE new == Queued(jobs[j].kind, jobs[j].run)
  <2>1. new \in Job /\ new.state = "queued" /\ new.run = jobs[j].run
    <3>1. jobs[j].kind \in {"advance", "compensate"}
      BY <1>1 DEF Job
    <3> QED BY <1>5, <3>1, FreshJobs
  <2>2. jobs' = [jobs EXCEPT ![j] = new] /\ Acting(j)
    BY <1>13 DEF Requeue, Acting, Active
  <2> HIDE DEF new
  <2> QED BY <1>7, <2>1, <2>2
<1>14. CASE UowEnds(j)
  <2>1. CASE jobs' = [jobs EXCEPT ![j].state = "queued"]
    <3>1. /\ "queued" \in States \ {"begun", "spawning"}
          /\ "queued" \in Active => Acting(j)
      BY <1>14 DEF States, UowEnds, Acting, Active
    <3> QED BY <1>8, <2>1, <3>1
  <2>2. CASE jobs' = [jobs EXCEPT ![j] = FreeSlot]
    <3>1. FreeSlot \in Job /\ FreeSlot.state = "free" /\ "free" \notin Active
      BY FreshJobs DEF Active
    <3> QED BY <1>7, <2>2, <3>1
  <2> QED BY <1>14, <2>1, <2>2 DEF UowEnds
<1> QED BY <1>6, <1>9, <1>10, <1>11, <1>12, <1>13, <1>14

\* Every step of advance() but the start of a child leaves nothing doubled.
LEMMA AdvanceWhole ==
    ASSUME RunnerInv, TypeOK', Moved, Unhurt', Undoubled, NEW j \in Slots,
           Advance(j), ~ChildOpens(j)
    PROVE  Undoubled'
<1>1. CASE AlreadyFinished(j) \/ NodeFunctionThrows(j) \/ ChildNotStarted(j)
  BY <1>1, WorkerWhole
<1>2. SUFFICES ASSUME ~(AlreadyFinished(j) \/ NodeFunctionThrows(j) \/ ChildNotStarted(j))
               PROVE  Undoubled'
  BY <1>1
<1>3. jobs[j].state \in {"begun", "spawning"} /\ (jobs[j].state = "begun" \/ ChildStarted(j))
  BY <1>2 DEF Advance, RunCompleted, StepReturns, HandlerThrows, SleepParks, SleepEnds, AwaitSignal,
              LoopIterates, LoopEnds, LoopFails, ChildStarted, ChildStartThrows, ChildPolled, Advancing
<1>4. Acting(j)
  BY <1>3 DEF Acting, Active
<1>5. PICK r \in Run : /\ r = jobs[j].run /\ runs[r] \in RunRow
                       /\ runs[r].status \notin {"absent", "void"} /\ ~runs[r].awaiting
                       /\ runs[r].cursor \in Nat \ {0} /\ jobs[j].began \in Nat
                       /\ journal[r] \in Seq(JournalRow)
  BY <1>4, LoneFacts
<1>6. CASE ChildStarted(j)
  <2> DEFINE row == [runs[r] EXCEPT !.child = jobs[j].child]
  <2>1. jobs[j].state = "spawning" /\ jobs[j].child \in Run /\ runs[r].child = NoRun
    BY <1>5, <1>6 DEF ChildStarted, RunnerInv, SpawningHoldsRow
  <2>2. row \in RunRow /\ row.cursor = runs[r].cursor /\ row.child = jobs[j].child
    BY <1>5, <2>1 DEF RunRow
  <2>3. ~row.awaiting
    BY <1>5 DEF RunRow
  <2>4. Parked(j, row, journal[r])
    BY <1>5, <1>6 DEF ChildStarted
  <2> HIDE DEF row
  <2> QED BY <1>5, <2>1, <2>2, <2>3, <2>4, ParkedWhole
<1>7. SUFFICES ASSUME jobs[j].state = "begun" PROVE Undoubled'
  BY <1>3, <1>6
<1>8. CASE StepReturns(j) \/ SleepEnds(j) \/ LoopEnds(j)
  BY <1>7, <1>8, NodeWhole DEF StepReturns, SleepEnds, LoopEnds
<1>9. CASE HandlerThrows(j) \/ LoopFails(j) \/ ChildStartThrows(j)
  BY <1>7, <1>9, NodeWhole DEF HandlerThrows, LoopFails, ChildStartThrows
<1>10. CASE ChildPolled(j)
  <2>1. runs[r].child \in Run \cup {NoRun}
    BY <1>5 DEF RunRow
  <2>2. \/ NodeCompleted(j, runs[r].child) \/ NodeFailed(j, "child", runs[r].child)
        \/ Parked(j, runs[r], journal[r])
    BY <1>5, <1>10 DEF ChildPolled
  <2>3. CASE Parked(j, runs[r], journal[r])
    BY <1>5, <1>7, <2>3, ParkedWhole
  <2> QED BY <1>7, <2>1, <2>2, <2>3, NodeWhole
<1>11. CASE SleepParks(j)
  <2> DEFINE row == [runs[r] EXCEPT !.sleep = "asleep"]
  <2>1. row \in RunRow /\ row.cursor = runs[r].cursor /\ row.child = runs[r].child
    BY <1>5 DEF RunRow
  <2>2. ~row.awaiting
    BY <1>5 DEF RunRow
  <2>3. Parked(j, row, journal[r])
    BY <1>5, <1>11 DEF SleepParks
  <2> HIDE DEF row
  <2> QED BY <1>5, <1>7, <2>1, <2>2, <2>3, ParkedWhole
<1>12. CASE LoopIterates(j)
  <2> DEFINE row == [runs[r] EXCEPT !.iteration = runs[r].iteration + 1]
             node == NodeRow(j, "completed", "none", NoRun)
             entry == [node EXCEPT !.kind = "iteration", !.iteration = runs[r].iteration]
  <2>1. runs[r].iteration \in Nat /\ runs[r].iteration + 1 \in Nat
    BY <1>5 DEF RunRow
  <2>2. row \in RunRow /\ row.cursor = runs[r].cursor /\ row.child = runs[r].child
    BY <1>5, <2>1 DEF RunRow
  <2>3. ~row.awaiting
    BY <1>5 DEF RunRow
  <2>4. node \in JournalRow /\ node.at = jobs[j].began
    BY <1>5 DEF NodeRow, JournalRow
  <2>5. Parked(j, row, Append(journal[r], entry))
    BY <1>5, <1>12 DEF LoopIterates, Logged
  <2> HIDE DEF row, node
  <2>6. entry \in JournalRow /\ entry.at = jobs[j].began
    BY <2>1, <2>4 DEF JournalRow
  <2> HIDE DEF entry
  <2> QED BY <1>5, <1>7, <2>2, <2>3, <2>5, <2>6, ParkedWhole
<1>13. CASE AwaitSignal(j)
  <2> DEFINE row == [runs[r] EXCEPT !.status = "waiting", !.awaiting = TRUE]
             none == {}
  <2>1. /\ row.status = "waiting" /\ row.cursor = runs[r].cursor /\ row.child = runs[r].child
    BY <1>5 DEF RunRow
  <2>2. Transaction(j, row, journal[r], none, "settling") /\ UNCHANGED undone
    BY <1>5, <1>13 DEF AwaitSignal
  <2>3. none \in SUBSET {"advance", "compensate"} /\ none = {}
    OBVIOUS
  <2> HIDE DEF row, none
  <2> QED BY <1>5, <1>7, <2>1, <2>2, <2>3, TransactionWhole
<1>14. CASE RunCompleted(j)
  <2> DEFINE row == [NewRun EXCEPT !.status = "completed", !.cursor = runs[r].cursor]
             none == {}
  <2>1. row.status = "completed" /\ row.cursor = runs[r].cursor /\ row.awaiting = FALSE
    BY DEF NewRun
  <2>2. runs[r].child = NoRun
    BY <1>5, <1>14 DEF RunCompleted, RunnerInv, SubstateAtCursor, At
  <2>3. Transaction(j, row, journal[r], none, "settling") /\ UNCHANGED undone
    BY <1>5, <1>14 DEF RunCompleted
  <2>4. none \in SUBSET {"advance", "compensate"} /\ none = {}
    OBVIOUS
  <2> HIDE DEF row, none
  <2>5. row.awaiting => row.status = "waiting" /\ none = {} /\ "settling" = "settling"
    BY <2>1
  <2> QED BY <1>5, <1>7, <2>1, <2>2, <2>3, <2>4, <2>5, TransactionWhole
<1> QED BY <1>2, <1>6, <1>8, <1>9, <1>10, <1>11, <1>12, <1>13, <1>14 DEF Advance

\* A dispatch for a run that has no token leaves nothing doubled.
LEMMA DispatchWhole ==
    ASSUME RunnerInv, TypeOK', Moved, Unhurt, Undoubled, NEW r \in Run, NEW s \in Slots,
           jobs[s].state = "free", jobs'[s].state \in {"queued", "held"}, jobs'[s].run = r,
           \A i \in Slots : i # s => jobs'[i] = jobs[i],
           \A i \in Slots : Acting(i) => jobs[i].run # r,
           \A q \in Run \ {r} : runs'[q] = runs[q] /\ journal'[q] = journal[q],
           UNCHANGED undone,
           runs'[r].status \notin {"absent", "void"}, ~runs'[r].awaiting,
           \A p \in DOMAIN journal'[r] : journal'[r][p].at = p - 1,
           runs[r].status # "absent" \/ r \in Roots,
           \/ runs'[r].cursor > runs[r].cursor
           \/ runs'[r].cursor = runs[r].cursor /\ runs'[r].child = runs[r].child
    PROVE  Undoubled'
<1>1. \A i \in Slots : Acting(i)' /\ i # s => Acting(i) /\ jobs'[i] = jobs[i]
  BY DEF Acting
<1>2. \A i \in Slots : Acting(i)' /\ jobs'[i].run # r => jobs'[i] = jobs[i]
  BY <1>1
<1>3. \A i \in Slots : Acting(i)' /\ jobs'[i].run = r => i = s
  BY <1>1
<1>4. \A i, k \in Slots : Acting(i)' /\ Acting(k)' /\ jobs'[i].run = r /\ jobs'[k].run = r => i = k
  BY <1>3
<1>5. \A i \in Slots : Acting(i)' /\ jobs'[i].run = r =>
         /\ runs'[r].status # "absent" /\ ~runs'[r].awaiting
         /\ jobs'[i].state \in {"begun", "spawning"} => jobs'[i].began = Len(journal'[r])
  BY <1>3
<1>6. \A i \in Slots : jobs[i].state = "spawning" => jobs'[i] = jobs[i]
  OBVIOUS
<1>7. runs'[r].status # "void" /\ (runs'[r].awaiting => runs'[r].status = "waiting")
  BY Zenon
<1> QED BY <1>2, <1>4, <1>5, <1>6, <1>7, LocalKeeps

\* Starting a run, and signals, leave nothing doubled.
LEMMA ClientWhole ==
    ASSUME RunnerInv, TypeOK', Moved, Unhurt', Undoubled, NEW r \in Run,
           StartOpen(r) \/ StartCommit(r) \/ StartRollback(r) \/ StartInUow(r)
              \/ SleepElapses(r) \/ Signal(r)
    PROVE  Undoubled'
<1>1. /\ jobs \in [Slots -> Job] /\ runs \in [Run -> RunRow] /\ runs[r] \in RunRow
      /\ journal \in [Run -> Seq(JournalRow)] /\ journal[r] \in Seq(JournalRow)
      /\ runs[r].cursor \in Nat \ {0}
  BY DEF RunnerInv, TypeOK, RunRow
<1>2. faults \in Nat /\ crashes \in Nat /\ faults' = 0 /\ crashes' = 0
  BY DurableAssumption DEF RunnerInv, TypeOK, Unhurt
<1>3. ~StartRollback(r) /\ Unhurt
  BY <1>2 DEF StartOpen, StartCommit, StartRollback, StartInUow, SleepElapses, Signal, Unhurt
<1>4. /\ \A p \in DOMAIN journal[r] : journal[r][p].at = p - 1
      /\ runs[r].awaiting => runs[r].status = "waiting"
      /\ \A i \in Slots : Acting(i) /\ jobs[i].run = r => runs[r].status # "absent" /\ ~runs[r].awaiting
  BY DEF Undoubled, JournalClock, LoneToken
<1>5. CASE StartCommit(r) \/ SleepElapses(r)
  <2>1. /\ UNCHANGED <<journal, jobs, undone>> /\ runs[r].status # "absent"
        /\ \A q \in Run \ {r} : runs'[q] = runs[q]
    BY <1>1, <1>5 DEF StartCommit, SleepElapses
  <2>2. /\ runs'[r].status \notin {"absent", "void"}
        /\ runs'[r].cursor = runs[r].cursor /\ runs'[r].child = runs[r].child
    <3>1. CASE StartCommit(r)
      BY <1>1, <3>1 DEF StartCommit, RunRow
    <3>2. CASE SleepElapses(r)
      BY <1>1, <3>2 DEF SleepElapses, RunRow
    <3> QED BY <1>5, <3>1, <3>2
  <2>3. runs'[r].awaiting = runs[r].awaiting /\ (runs[r].awaiting => runs'[r].status = "waiting")
    <3>1. CASE StartCommit(r)
      <4>1. runs[r].status = "opening" /\ runs' = [runs EXCEPT ![r].status = "pending"]
        BY <3>1 DEF StartCommit
      <4>2. ~runs[r].awaiting
        BY <1>4, <4>1
      <4>3. runs'[r].awaiting = runs[r].awaiting
        BY <1>1, <4>1 DEF RunRow
      <4> QED BY <4>2, <4>3
    <3>2. CASE SleepElapses(r)
      BY <1>1, <3>2 DEF SleepElapses, RunRow
    <3> QED BY <1>5, <3>1, <3>2
  <2>4. \A i \in Slots : jobs'[i] = jobs[i] /\ (Acting(i)' <=> Acting(i))
    BY <2>1 DEF Acting
  <2>5. \A i \in Slots : Acting(i)' /\ jobs'[i].run = r =>
           /\ runs'[r].status # "absent" /\ ~runs'[r].awaiting
           /\ jobs'[i].state \in {"begun", "spawning"} => jobs'[i].began = Len(journal'[r])
    <3> SUFFICES ASSUME NEW i \in Slots, Acting(i)', jobs'[i].run = r
                 PROVE  /\ runs'[r].status # "absent" /\ ~runs'[r].awaiting
                        /\ jobs'[i].state \in {"begun", "spawning"} => jobs'[i].began = Len(journal'[r])
      OBVIOUS
    <3>1. Acting(i) /\ jobs[i].run = r
      BY <2>4
    <3>2. ~runs[r].awaiting
      BY <1>4, <3>1
    <3>3. jobs[i].state \in {"begun", "spawning"} => jobs[i].began = Len(journal[r])
      BY <3>1 DEF Undoubled, JournalClock
    <3> QED BY <2>1, <2>2, <2>3, <2>4, <3>2, <3>3
  <2>6. \A i, k \in Slots : Acting(i)' /\ Acting(k)' /\ jobs'[i].run = r /\ jobs'[k].run = r => i = k
    BY <2>4 DEF Undoubled, LoneToken
  <2>7. runs'[r].awaiting => runs'[r].status = "waiting"
    BY <2>3, Zenon
  <2>8. \A q \in Run \ {r} : runs'[q] = runs[q] /\ journal'[q] = journal[q]
    BY <2>1
  <2>9. \A p \in DOMAIN journal'[r] : journal'[r][p].at = p - 1
    BY <1>4, <2>1
  <2>10. runs'[r].status # "void" /\ UNCHANGED undone
    BY <2>1, <2>2
  <2> QED BY <1>3, <2>1, <2>2, <2>4, <2>5, <2>6, <2>7, <2>8, <2>9, <2>10, LocalKeeps
<1>6. CASE StartOpen(r) \/ StartInUow(r)
  <2>1. /\ UNCHANGED <<journal, undone>> /\ runs[r].status = "absent" /\ r \in Roots
        /\ \A q \in Run \ {r} : runs'[q] = runs[q]
    BY <1>1, <1>6, DurableAssumption DEF StartOpen, StartInUow
  <2>2. /\ runs'[r].status \notin {"absent", "void"}
        /\ runs'[r].cursor = runs[r].cursor /\ runs'[r].child = runs[r].child
    BY <1>1, <1>6 DEF StartOpen, StartInUow, RunRow
  <2>3. ~runs'[r].awaiting
    <3>1. ~runs[r].awaiting
      BY <1>4, <2>1
    <3>2. runs'[r].awaiting = runs[r].awaiting
      BY <1>1, <1>6 DEF StartOpen, StartInUow, RunRow
    <3> QED BY <3>1, <3>2
  <2>4. \E s \in Slots : /\ jobs[s].state = "free" /\ jobs'[s].run = r
                         /\ jobs'[s].state \in {"queued", "held"}
                         /\ \A i \in Slots : i # s => jobs'[i] = jobs[i]
    <3>1. CASE StartOpen(r)
      <4>1. jobs' \in Sent("advance", r)
        BY <3>1 DEF StartOpen
      <4> QED BY <4>1, SentSlot
    <3>2. CASE StartInUow(r)
      <4>1. PICK tokens \in Sent("advance", r), t \in Slots :
               tokens[t] # jobs[t] /\ jobs' = [tokens EXCEPT ![t].state = "held"]
        BY <3>2 DEF StartInUow
      <4>2. PICK s \in Slots : /\ jobs[s].state = "free" /\ tokens[s].run = r
                               /\ \A i \in Slots : i # s => tokens[i] = jobs[i]
        BY SentSlot
      <4>3. t = s /\ tokens \in [Slots -> Job] /\ "held" \in States
        BY <4>1, <4>2, SentFacts DEF Calm, States
      <4>4. /\ jobs'[s].state = "held" /\ jobs'[s].run = tokens[s].run
            /\ \A i \in Slots : i # s => jobs'[i] = tokens[i]
        BY <4>1, <4>3, JobMoves
      <4> QED BY <4>2, <4>4
    <3> QED BY <1>6, <3>1, <3>2
  <2>5. \A i \in Slots : Acting(i) => jobs[i].run # r
    BY <1>4, <2>1
  <2>6. /\ \A q \in Run \ {r} : runs'[q] = runs[q] /\ journal'[q] = journal[q]
        /\ \A p \in DOMAIN journal'[r] : journal'[r][p].at = p - 1
        /\ UNCHANGED undone
    BY <1>4, <2>1
  <2> QED BY <1>3, <2>1, <2>2, <2>3, <2>4, <2>5, <2>6, DispatchWhole
<1>7. CASE Signal(r)
  <2> DEFINE entry == [kind |-> "node", node |-> runs[r].cursor, iteration |-> 0,
                       status |-> "completed", error |-> "none", child |-> NoRun,
                       at |-> Len(journal[r])]
  <2>1. /\ runs[r].status = "waiting" /\ runs[r].awaiting /\ jobs' \in Sent("advance", r)
        /\ UNCHANGED undone
        /\ runs' = [runs EXCEPT ![r].status = "running", ![r].awaiting = FALSE, ![r].cursor = @ + 1]
        /\ journal' = [journal EXCEPT ![r] = Append(journal[r], entry)]
    <3>1. faults' # faults + 1
      BY <1>2
    <3>2. \/ /\ runs' = [runs EXCEPT ![r].status = "running", ![r].awaiting = FALSE,
                                     ![r].cursor = @ + 1]
             /\ journal' = [journal EXCEPT ![r] = Append(@, [kind |-> "node",
                   node |-> runs[r].cursor, iteration |-> 0, status |-> "completed",
                   error |-> "none", child |-> NoRun, at |-> Len(@)])]
          \/ faults' = faults + 1
      BY <1>7 DEF Signal
    <3>3. journal' = [journal EXCEPT ![r] = Append(journal[r], entry)]
      BY <1>1, <3>1, <3>2
    <3> QED BY <1>7, <3>1, <3>2, <3>3 DEF Signal
  <2>2. entry \in JournalRow /\ entry.at = Len(journal[r])
    BY <1>1 DEF JournalRow
  <2> HIDE DEF entry
  <2>3. /\ \A q \in Run \ {r} : runs'[q] = runs[q] /\ journal'[q] = journal[q]
        /\ runs'[r].status = "running" /\ runs'[r].cursor = runs[r].cursor + 1
        /\ journal'[r] = Append(journal[r], entry)
    BY <1>1, <2>1 DEF RunRow
  <2>4. ~runs'[r].awaiting
    BY <1>1, <2>1 DEF RunRow
  <2>5. \A p \in DOMAIN journal'[r] : journal'[r][p].at = p - 1
    BY <1>1, <1>4, <2>2, <2>3, ClockTicks
  <2>6. \E s \in Slots : /\ jobs[s].state = "free" /\ jobs'[s].run = r
                         /\ jobs'[s].state \in {"queued", "held"}
                         /\ \A i \in Slots : i # s => jobs'[i] = jobs[i]
    BY <2>1, SentSlot
  <2>7. \A i \in Slots : Acting(i) => jobs[i].run # r
    BY <1>4, <2>1
  <2>8. runs'[r].cursor > runs[r].cursor /\ runs'[r].status \notin {"absent", "void"}
        /\ runs[r].status # "absent"
    BY <1>1, <2>1, <2>3
  <2> QED BY <1>3, <2>1, <2>3, <2>4, <2>5, <2>6, <2>7, <2>8, DispatchWhole
<1> QED BY <1>3, <1>5, <1>6, <1>7

\* The next token takes the place of the handler's own.
LEMMA ContinueWhole ==
    ASSUME RunnerInv, TypeOK', Moved, Unhurt', Undoubled, NEW j \in Slots, Continue(j)
    PROVE  Undoubled'
<1>1. /\ jobs \in [Slots -> Job] /\ jobs[j].state = "continuing"
      /\ UNCHANGED <<runs, journal, undone>>
  BY DEF Continue, RunnerInv, TypeOK
<1>2. faults \in Nat /\ crashes \in Nat /\ faults' = 0 /\ crashes' = 0
  BY DurableAssumption DEF RunnerInv, TypeOK, Unhurt
<1>3. Acting(j)
  BY <1>1 DEF Acting, Active
<1>4. PICK r \in Run : /\ r = jobs[j].run /\ runs[r] \in RunRow
                       /\ runs[r].status \notin {"absent", "void"} /\ ~runs[r].awaiting
  BY <1>3, LoneFacts
<1>5. /\ Unhurt
      /\ \E tokens \in Sent("advance", r) : jobs' = [tokens EXCEPT ![j].state = "settling"]
  BY <1>2, <1>4 DEF Continue, Stop, Unhurt
<1>6. PICK tokens \in Sent("advance", r) : jobs' = [tokens EXCEPT ![j].state = "settling"]
  BY <1>5
<1>7. PICK s \in Slots : /\ jobs[s].state = "free" /\ tokens[s].state = "queued"
                         /\ tokens[s].run = r
                         /\ \A i \in Slots : i # s => tokens[i] = jobs[i]
  BY SentSlot
<1>8. tokens \in [Slots -> Job] /\ "settling" \in States /\ s # j
  BY <1>1, <1>7, SentFacts DEF Calm, States
<1>9. /\ jobs'[j].state = "settling" /\ jobs'[j].run = tokens[j].run
      /\ \A i \in Slots : i # j => jobs'[i] = tokens[i]
  BY <1>6, <1>8, JobMoves
<1>10. \A i \in Slots : Acting(i) /\ jobs[i].run = r => i = j
  BY <1>3, <1>4 DEF Undoubled, LoneToken
<1>11. \A i \in Slots : Acting(i)' => i # j /\ (i = s \/ jobs'[i] = jobs[i])
  BY <1>7, <1>9 DEF Acting, Active
<1>12. \A i \in Slots : Acting(i)' /\ jobs'[i].run # r => jobs'[i] = jobs[i]
  BY <1>7, <1>8, <1>9, <1>11
<1>13. \A i \in Slots : Acting(i)' /\ jobs'[i].run = r => i = s
  BY <1>10, <1>11 DEF Acting
<1>14. \A i, k \in Slots : Acting(i)' /\ Acting(k)' /\ jobs'[i].run = r /\ jobs'[k].run = r => i = k
  BY <1>13
<1>15. \A i \in Slots : Acting(i)' /\ jobs'[i].run = r =>
          /\ runs'[r].status # "absent" /\ ~runs'[r].awaiting
          /\ jobs'[i].state \in {"begun", "spawning"} => jobs'[i].began = Len(journal'[r])
  <2>1. jobs'[s].state = "queued"
    BY <1>7, <1>8, <1>9
  <2>2. runs' = runs
    BY <1>1
  <2> QED BY <1>4, <1>13, <2>1, <2>2
<1>16. \A i \in Slots : jobs[i].state = "spawning" => jobs'[i] = jobs[i]
  BY <1>1, <1>7, <1>9
<1>17. runs'[r].status # "void" /\ (runs'[r].awaiting => runs'[r].status = "waiting")
  BY <1>1, <1>4
<1>18. \A p \in DOMAIN journal'[r] : journal'[r][p].at = p - 1
  BY <1>1 DEF Undoubled, JournalClock
<1>19. runs' = runs /\ journal' = journal /\ UNCHANGED undone
  BY <1>1
<1> QED BY <1>4, <1>5, <1>12, <1>14, <1>15, <1>16, <1>17, <1>18, <1>19, LocalKeeps

\* Compensation in journal order backwards undoes the latest node first.
LEMMA WalkDescends ==
    ASSUME RunnerInv, Undoubled, NEW r \in Run, NEW walk \in Walks(r),
           NEW nodes, nodes = [k \in DOMAIN walk |-> journal[r][walk[k]].node]
    PROVE  \A k, l \in DOMAIN nodes : k < l => nodes[k] > nodes[l]
<1>1. PICK n \in Nat : walk \in [1..n -> Compensable(r)]
  <2>1. Len(journal[r]) \in Nat
    BY DEF RunnerInv, TypeOK
  <2> QED BY <2>1 DEF Walks
<1> SUFFICES ASSUME NEW k \in DOMAIN walk, NEW l \in DOMAIN walk, k < l
             PROVE  journal[r][walk[k]].node > journal[r][walk[l]].node
  OBVIOUS
<1>2. walk[k] \in Compensable(r) /\ walk[l] \in Compensable(r)
  BY <1>1
<1>3. walk[k] # walk[l] /\ journal[r][walk[k]].at >= journal[r][walk[l]].at
  BY DEF Walks
<1>4. /\ walk[k] \in DOMAIN journal[r] /\ walk[l] \in DOMAIN journal[r]
      /\ NodeDone(r, walk[k]) /\ NodeDone(r, walk[l])
  BY <1>2 DEF Compensable, NodeDone
<1>5. journal[r] \in Seq(JournalRow)
  BY DEF RunnerInv, TypeOK
<1>6. /\ DOMAIN journal[r] = 1..Len(journal[r]) /\ Len(journal[r]) \in Nat
      /\ \A p \in DOMAIN journal[r] : journal[r][p] \in JournalRow
  BY <1>5
<1>7. journal[r][walk[k]].at = walk[k] - 1 /\ journal[r][walk[l]].at = walk[l] - 1
  BY <1>4 DEF Undoubled, JournalClock
<1>8. walk[l] < walk[k]
  BY <1>3, <1>4, <1>6, <1>7
<1>9. journal[r][walk[l]].node < journal[r][walk[k]].node
  BY <1>4, <1>8 DEF RunnerInv, JournalIsPrefix
<1>10. journal[r][walk[l]].node \in Nat /\ journal[r][walk[k]].node \in Nat
  BY <1>4, <1>6 DEF JournalRow
<1> QED BY <1>9, <1>10

\* The compensate handler leaves nothing doubled.
LEMMA CompensateWhole ==
    ASSUME RunnerInv, TypeOK', Moved, Unhurt', Undoubled, NEW j \in Slots, Compensate(j)
    PROVE  Undoubled'
<1>1. /\ jobs \in [Slots -> Job] /\ jobs[j].state = "begun" /\ runs \in [Run -> RunRow]
      /\ undone \in [Run -> Seq(Nat \ {0})] /\ UNCHANGED journal
  BY DEF Compensate, RunnerInv, TypeOK
<1>2. faults \in Nat /\ crashes \in Nat /\ faults' = 0 /\ crashes' = 0
  BY DurableAssumption DEF RunnerInv, TypeOK, Unhurt
<1>3. Acting(j)
  BY <1>1 DEF Acting, Active
<1>4. PICK r \in Run : /\ r = jobs[j].run /\ runs[r] \in RunRow
                       /\ runs[r].status \notin {"absent", "void"} /\ ~runs[r].awaiting
                       /\ runs[r].cursor \in Nat \ {0}
  BY <1>3, LoneFacts
<1>41. PICK walk \in Walks(r) : \E nodes :
        /\ nodes = [k \in DOMAIN walk |-> journal[r][walk[k]].node]
        /\ runs' = [runs EXCEPT ![r].status = "failed"]
        /\ undone' = [undone EXCEPT ![r] = nodes]
        /\ jobs' = [jobs EXCEPT ![j].state = "settling"] /\ UNCHANGED <<faults, crashes>>
  <2>1. \A tokens : ~Stop(j, tokens)
    BY <1>2 DEF Stop
  <2> QED BY <1>4, <2>1 DEF Compensate
<1>5. PICK nodes :
        /\ nodes = [k \in DOMAIN walk |-> journal[r][walk[k]].node]
        /\ runs' = [runs EXCEPT ![r].status = "failed"]
        /\ undone' = [undone EXCEPT ![r] = nodes]
        /\ jobs' = [jobs EXCEPT ![j].state = "settling"] /\ UNCHANGED <<faults, crashes>>
  BY <1>41
<1>6. Unhurt
  BY <1>2, <1>5 DEF Unhurt
<1>7. "settling" \in States
  BY DEF States
<1>8. /\ jobs'[j].state = "settling"
      /\ \A i \in Slots : i # j => jobs'[i] = jobs[i]
  BY <1>1, <1>5, <1>7, JobMoves
<1>9. \A i \in Slots : Acting(i)' => i # j /\ Acting(i) /\ jobs'[i] = jobs[i]
  BY <1>8 DEF Acting, Active
<1>10. \A i \in Slots : Acting(i) /\ jobs[i].run = r => i = j
  BY <1>3, <1>4 DEF Undoubled, LoneToken
<1>11. \A i \in Slots : Acting(i)' => jobs'[i].run # r
  BY <1>9, <1>10
<1>12. /\ runs'[r].status = "failed" /\ runs'[r].cursor = runs[r].cursor
       /\ runs'[r].child = runs[r].child
       /\ \A q \in Run \ {r} : runs'[q] = runs[q] /\ journal'[q] = journal[q]
  BY <1>1, <1>4, <1>5 DEF RunRow
<1>13. ~runs'[r].awaiting
  BY <1>1, <1>4, <1>5 DEF RunRow
<1>14. \A p \in DOMAIN journal'[r] : journal'[r][p].at = p - 1
  BY <1>1 DEF Undoubled, JournalClock
<1>15. \A i \in Slots : jobs[i].state = "spawning" => jobs'[i] = jobs[i]
  BY <1>1, <1>8
<1>16. \A i, k \in Slots : Acting(i)' /\ Acting(k)' /\ jobs'[i].run = r /\ jobs'[k].run = r => i = k
  BY <1>11
<1>17. \A i \in Slots : Acting(i)' /\ jobs'[i].run = r =>
           /\ runs'[r].status # "absent" /\ ~runs'[r].awaiting
           /\ jobs'[i].state \in {"begun", "spawning"} => jobs'[i].began = Len(journal'[r])
  BY <1>11
<1>18. runs'[r].status # "void" /\ (runs'[r].awaiting => runs'[r].status = "waiting")
  BY <1>12, <1>13
<1>19. \A i \in Slots : Acting(i)' /\ jobs'[i].run # r => jobs'[i] = jobs[i]
  BY <1>9
<1>20. LoneToken' /\ JournalClock' /\ ChildKnown' /\ OneChild'
  BY <1>4, <1>6, <1>12, <1>14, <1>15, <1>16, <1>17, <1>18, <1>19, LocalRest
<1>21. UndoneInOrder'
  <2>1. undone'[r] = nodes /\ \A q \in Run \ {r} : undone'[q] = undone[q]
    BY <1>1, <1>5
  <2>2. \A k, l \in DOMAIN nodes : k < l => nodes[k] > nodes[l]
    BY <1>5, WalkDescends
  <2>3. \A q \in Run : /\ undone[q] # <<>> => runs[q].status = "failed"
                      /\ \A k, l \in DOMAIN undone[q] : k < l => undone[q][k] > undone[q][l]
    BY DEF Undoubled, UndoneInOrder
  <2>4. ASSUME NEW q \in Run
        PROVE  /\ undone'[q] # <<>> => runs'[q].status = "failed"
               /\ \A k, l \in DOMAIN undone'[q] : k < l => undone'[q][k] > undone'[q][l]
    <3>1. CASE q = r
      BY <1>12, <2>1, <2>2, <3>1
    <3>2. CASE q # r
      <4>1. undone'[q] = undone[q] /\ runs'[q] = runs[q]
        BY <1>12, <2>1, <3>2
      <4> QED BY <2>3, <4>1
    <3> QED BY <3>1, <3>2
  <2> QED BY <2>4 DEF UndoneInOrder
<1> QED BY <1>20, <1>21 DEF Undoubled

\* A child starts once: its parent remembers it or still waits for its start.
LEMMA ChildOpensWhole ==
    ASSUME RunnerInv, TypeOK', Moved, Unhurt', Undoubled, NEW j \in Slots, ChildOpens(j)
    PROVE  Undoubled'
<1>1. /\ jobs \in [Slots -> Job] /\ runs \in [Run -> RunRow]
      /\ jobs[j].state = "begun" /\ ~RowLocked(jobs[j].run)
      /\ UNCHANGED <<journal, undone, faults, crashes>>
  BY DEF RunnerInv, TypeOK, ChildOpens, Advancing
<1>2. Unhurt
  BY <1>1 DEF Unhurt
<1>3. Acting(j)
  BY <1>1 DEF Acting, Active
<1>4. PICK r \in Run : /\ r = jobs[j].run /\ runs[r] \in RunRow
                       /\ runs[r].status \notin {"absent", "void"} /\ ~runs[r].awaiting
                       /\ runs[r].cursor \in Nat \ {0}
  BY <1>3, LoneFacts
<1>5. At(r, "childWorkflow") /\ runs[r].child = NoRun
  BY <1>4 DEF ChildOpens
<1>6. PICK c, tokens :
        /\ c \in NodeOf(r).children
        /\ runs[c].status = "absent"
        /\ runs' = [runs EXCEPT ![c].status = "opening"]
        /\ tokens \in Sent("advance", c)
        /\ jobs' = [tokens EXCEPT ![j].state = "spawning", ![j].child = c]
  BY <1>4 DEF ChildOpens
<1>7. PICK n \in DOMAIN Workflow[r] : n = runs[r].cursor /\ c \in Workflow[r][n].children
  BY <1>5, <1>6, ChildIsRun
<1>8. /\ c \in Run /\ c # NoRun /\ c \notin Roots /\ c # r
      /\ \A q \in Run : \A m \in DOMAIN Workflow[q] :
            c \in Workflow[q][m].children => q = r /\ m = n
  BY <1>4, <1>6, <1>7, Children
<1>9. PICK s \in Slots : /\ jobs[s].state = "free"
                         /\ tokens[s].state = "queued" /\ tokens[s].run = c
                         /\ \A i \in Slots : i # s => tokens[i] = jobs[i]
  BY <1>6, <1>8, SentSlot
<1>10. tokens \in [Slots -> Job] /\ s # j
  BY <1>1, <1>6, <1>8, <1>9, SentFacts DEF Calm
<1>11. /\ jobs'[j].state = "spawning" /\ jobs'[j].run = r /\ jobs'[j].child = c
       /\ jobs'[j].began = jobs[j].began
       /\ \A i \in Slots : i # j => jobs'[i] = tokens[i]
  BY <1>1, <1>4, <1>6, <1>9, <1>10 DEF Job
<1>12. jobs'[s].state = "queued" /\ jobs'[s].run = c
       /\ \A i \in Slots : i # j /\ i # s => jobs'[i] = jobs[i]
  BY <1>9, <1>10, <1>11
<1>13. \A q \in Run : q # c => runs'[q] = runs[q]
  BY <1>1, <1>6
<1>14. /\ runs'[c].status = "opening" /\ runs'[c].cursor = runs[c].cursor
       /\ runs'[c].child = runs[c].child
  BY <1>1, <1>6, <1>8 DEF RunRow
<1>15. ~runs[c].awaiting /\ ~runs'[c].awaiting
  <2>1. ~runs[c].awaiting
    BY <1>6, <1>8 DEF Undoubled, LoneToken
  <2>2. runs'[c].awaiting = runs[c].awaiting
    BY <1>1, <1>6, <1>8 DEF RunRow
  <2> QED BY <2>1, <2>2
<1>16. \A i \in Slots : Acting(i) => jobs[i].run # c
  BY <1>6 DEF Undoubled, LoneToken
<1>17. \A i \in Slots : Acting(i) /\ jobs[i].run = r => i = j
  BY <1>3, <1>4 DEF Undoubled, LoneToken
<1>18. LoneToken'
  <2>1. \A i \in Slots : Acting(i)' /\ i # s => Acting(i) /\ jobs'[i].run = jobs[i].run
    BY <1>3, <1>4, <1>11, <1>12 DEF Acting
  <2>2. \A i, k \in Slots : Acting(i)' /\ Acting(k)' /\ jobs'[i].run = jobs'[k].run => i = k
    BY <1>12, <1>16, <2>1 DEF Undoubled, LoneToken
  <2>3. ASSUME NEW i \in Slots, Acting(i)'
        PROVE  runs'[jobs'[i].run].status # "absent" /\ ~runs'[jobs'[i].run].awaiting
    <3>1. CASE i = s
      BY <1>12, <1>14, <1>15, <3>1
    <3>2. CASE i # s
      <4>1. Acting(i) /\ jobs'[i].run = jobs[i].run /\ jobs[i].run # c
        BY <1>16, <2>1, <2>3, <3>2
      <4>2. jobs[i].run \in Run
        BY <4>1, JobFacts DEF Acting, Active
      <4>3. runs'[jobs[i].run] = runs[jobs[i].run]
        BY <1>13, <4>1, <4>2
      <4>4. runs[jobs[i].run].status # "absent" /\ ~runs[jobs[i].run].awaiting
        BY <4>1 DEF Undoubled, LoneToken
      <4> QED BY <4>1, <4>3, <4>4
    <3> QED BY <3>1, <3>2
  <2>4. ASSUME NEW q \in Run
        PROVE  runs'[q].status # "void" /\ (runs'[q].awaiting => runs'[q].status = "waiting")
    <3>1. CASE q = c
      BY <1>14, <1>15, <3>1
    <3>2. CASE q # c
      <4>1. runs'[q] = runs[q]
        BY <1>13, <3>2
      <4>2. runs[q].status # "void" /\ (runs[q].awaiting => runs[q].status = "waiting")
        BY DEF Undoubled, LoneToken
      <4> QED BY <4>1, <4>2
    <3> QED BY <3>1, <3>2
  <2> QED BY <2>2, <2>3, <2>4 DEF LoneToken
<1>19. JournalClock'
  <2>1. \A q \in Run : \A p \in DOMAIN journal'[q] : journal'[q][p].at = p - 1
    BY <1>1 DEF Undoubled, JournalClock
  <2>2. ASSUME NEW i \in Slots, jobs'[i].state \in {"begun", "spawning"}
        PROVE  jobs'[i].began = Len(journal'[jobs'[i].run])
    <3>1. CASE i = j
      BY <1>1, <1>4, <1>11, <3>1 DEF Undoubled, JournalClock
    <3>2. CASE i # j
      BY <1>1, <1>12, <2>2, <3>2 DEF Undoubled, JournalClock
    <3> QED BY <3>1, <3>2
  <2> QED BY <2>1, <2>2 DEF JournalClock
<1>20. UndoneInOrder'
  BY <1>1, UndoneKept
<1>21. ChildKnown'
  <2> SUFFICES ASSUME NEW q \in Run, NEW m \in DOMAIN Workflow[q],
                      NEW d \in Workflow[q][m].children, runs'[d].status # "absent"
               PROVE  \/ m < runs'[q].cursor
                      \/ m = runs'[q].cursor /\ runs'[q].child = d
                      \/ m = runs'[q].cursor /\ \E i \in Slots :
                            jobs'[i].state = "spawning" /\ jobs'[i].run = q /\ jobs'[i].child = d
    BY DEF ChildKnown
  <2>1. runs'[q].cursor = runs[q].cursor /\ runs'[q].child = runs[q].child
    BY <1>13, <1>14
  <2>2. CASE d = c
    BY <1>7, <1>8, <1>11, <2>1, <2>2
  <2>3. CASE d # c
    <3>1. d \in Run
      BY Children
    <3>2. runs[d].status # "absent"
      BY <1>13, <2>3, <3>1
    <3>3. \A i \in Slots : jobs[i].state = "spawning" => jobs'[i] = jobs[i]
      BY <1>1, <1>9, <1>12
    <3> QED BY <2>1, <3>2, <3>3 DEF Undoubled, ChildKnown
  <2> QED BY <2>2, <2>3
<1>22. \A d \in Workflow[r][n].children : runs[d].status = "absent"
  <2> SUFFICES ASSUME NEW d \in Workflow[r][n].children, runs[d].status # "absent"
               PROVE  FALSE
    OBVIOUS
  <2>1. d # NoRun
    BY Children
  <2>2. \/ n < runs[r].cursor
        \/ n = runs[r].cursor /\ runs[r].child = d
        \/ \E i \in Slots : jobs[i].state = "spawning" /\ jobs[i].run = r
    BY DEF Undoubled, ChildKnown
  <2>3. ~\E i \in Slots : jobs[i].state = "spawning" /\ jobs[i].run = r
    BY <1>1, <1>4 DEF RowLocked
  <2> QED BY <1>4, <1>5, <1>7, <2>1, <2>2, <2>3
<1>23. OneChild'
  <2> SUFFICES ASSUME NEW q \in Run, NEW m \in DOMAIN Workflow[q],
                      NEW a \in Workflow[q][m].children, NEW b \in Workflow[q][m].children,
                      runs'[a].status # "absent", runs'[b].status # "absent"
               PROVE  a = b
    BY DEF OneChild
  <2>1. a \in Run /\ b \in Run
    BY Children
  <2>2. (a # c => runs[a].status # "absent") /\ (b # c => runs[b].status # "absent")
    BY <1>13, <2>1
  <2>3. CASE a = c \/ b = c
    <3>1. q = r /\ m = n
      BY <1>8, <2>3
    <3> QED BY <1>22, <2>2, <2>3, <3>1
  <2>4. CASE a # c /\ b # c
    BY <1>2, <2>2, <2>4 DEF Undoubled, OneChild
  <2> QED BY <2>3, <2>4
<1> QED BY <1>18, <1>19, <1>20, <1>21, <1>23 DEF Undoubled

\* Failures are counted, so a step after which there was none had none before.
Grows == faults' \in {faults, faults + 1} /\ crashes' \in {crashes, crashes + 1}

\* Transactions count what stops them.
LEMMA TransactionGrows ==
    ASSUME NEW j, NEW row, NEW log, NEW kinds, NEW next, Transaction(j, row, log, kinds, next)
    PROVE  Grows
<1>1. \/ UNCHANGED <<faults, crashes>>
      \/ \E tokens : Stop(j, tokens)
  BY DEF Transaction
<1>2. \A tokens : Stop(j, tokens) => Grows
  BY DEF Stop, Grows
<1> QED BY <1>1, <1>2 DEF Grows

\* Every step counts its failures.
LEMMA StepGrows ==
    ASSUME [Next]_vars
    PROVE  Grows
<1>1. CASE UNCHANGED <<faults, crashes>>
  BY <1>1 DEF Grows
<1>2. \A j, tokens : Stop(j, tokens) => Grows
  BY DEF Stop, Grows
<1>3. \A j, row, log, kinds, next : Transaction(j, row, log, kinds, next) => Grows
  BY TransactionGrows
<1>4. ASSUME NEW r \in Run,
             StartOpen(r) \/ StartCommit(r) \/ StartRollback(r) \/ StartInUow(r)
               \/ SleepElapses(r) \/ Signal(r)
      PROVE  Grows
  BY <1>4 DEF StartOpen, StartCommit, StartRollback, StartInUow, SleepElapses, Signal, Grows
<1>5. ASSUME NEW j \in Slots, Advance(j)
      PROVE  Grows
  <2>1. \A child : NodeCompleted(j, child) => Grows
    BY <1>3, Zenon DEF NodeCompleted
  <2>2. \A error, child : NodeFailed(j, error, child) => Grows
    BY <1>3, Zenon DEF NodeFailed
  <2>3. NodeRetried(j) => Grows
    BY <1>3, Zenon DEF NodeRetried
  <2>4. \A row, log : Parked(j, row, log) => Grows
    BY <1>3, Zenon DEF Parked
  <2>5. CASE AlreadyFinished(j) \/ NodeFunctionThrows(j) \/ ChildOpens(j) \/ ChildNotStarted(j)
    BY <1>1, <2>5 DEF AlreadyFinished, NodeFunctionThrows, ChildOpens, ChildNotStarted
  <2>6. CASE RunCompleted(j) \/ AwaitSignal(j)
    BY <1>3, <2>6, Zenon DEF RunCompleted, AwaitSignal
  <2>7. CASE StepReturns(j) \/ SleepEnds(j) \/ LoopEnds(j)
    BY <2>1, <2>7, Zenon DEF StepReturns, SleepEnds, LoopEnds
  <2>8. CASE HandlerThrows(j) \/ LoopFails(j) \/ ChildStartThrows(j)
    BY <2>2, <2>3, <2>8, Zenon DEF HandlerThrows, LoopFails, ChildStartThrows
  <2>9. CASE SleepParks(j) \/ LoopIterates(j) \/ ChildStarted(j)
    BY <2>4, <2>9, Zenon DEF SleepParks, LoopIterates, ChildStarted
  <2>10. CASE ChildPolled(j)
    BY <2>1, <2>2, <2>4, <2>10, Zenon DEF ChildPolled
  <2> QED BY <1>5, <2>5, <2>6, <2>7, <2>8, <2>9, <2>10 DEF Advance
<1>6. ASSUME NEW j \in Slots, Process(j) \/ Requeue(j) \/ UowEnds(j)
      PROVE  Grows
  <2>1. CASE Begin(j) \/ RunNotFound(j) \/ CompensateSkips(j) \/ Requeue(j) \/ UowEnds(j)
    BY <1>1, <2>1 DEF Begin, RunNotFound, CompensateSkips, Requeue, UowEnds
  <2>2. CASE Compensate(j)
    <3>1. UNCHANGED <<faults, crashes>> \/ \E tokens : Stop(j, tokens)
      BY <2>2 DEF Compensate
    <3> QED BY <1>1, <1>2, <3>1
  <2>3. CASE Continue(j) \/ Settle(j)
    <3>1. UNCHANGED <<faults, crashes>> \/ \E tokens : Stop(j, tokens)
      BY <2>3 DEF Continue, Settle
    <3> QED BY <1>1, <1>2, <3>1
  <2> QED BY <1>5, <1>6, <2>1, <2>2, <2>3 DEF Process
<1>7. CASE UNCHANGED vars
  BY <1>1, <1>7 DEF vars
<1> QED BY <1>4, <1>6, <1>7 DEF Next

\* Every step without a failure leaves nothing doubled.
LEMMA StepWhole ==
    ASSUME RunnerInv, UndividedInv, [Next]_vars
    PROVE  UndividedInv'
<1> SUFFICES ASSUME Unhurt' PROVE Undoubled'
  BY DEF UndividedInv
<1>1. Moved /\ TypeOK'
  BY StepMoves, StepInv DEF RunnerInv
<1>2. Unhurt
  <2>1. faults \in Nat /\ crashes \in Nat /\ faults' = 0 /\ crashes' = 0
    BY DurableAssumption DEF RunnerInv, TypeOK, Unhurt
  <2> QED BY <2>1, StepGrows DEF Grows, Unhurt
<1>3. Undoubled
  BY <1>2 DEF UndividedInv
<1>4. CASE UNCHANGED vars
  <2>1. UNCHANGED <<runs, journal, jobs, undone, faults, crashes>>
    BY <1>4 DEF vars
  <2>2. LoneToken'
    BY <1>3, <2>1 DEF Undoubled, LoneToken, Acting
  <2>3. JournalClock'
    BY <1>3, <2>1 DEF Undoubled, JournalClock
  <2>4. UndoneInOrder'
    BY <1>3, <2>1 DEF Undoubled, UndoneInOrder
  <2>5. ChildKnown'
    BY <1>3, <2>1 DEF Undoubled, ChildKnown
  <2>6. OneChild'
    BY <1>3, <2>1 DEF Undoubled, OneChild, Unhurt
  <2> QED BY <2>2, <2>3, <2>4, <2>5, <2>6 DEF Undoubled
<1>5. ASSUME NEW j \in Slots, Process(j) \/ Requeue(j) \/ UowEnds(j)
      PROVE  Undoubled'
  <2>1. CASE Advance(j)
    BY <1>1, <1>3, <2>1, AdvanceWhole, ChildOpensWhole
  <2>2. CASE Compensate(j)
    BY <1>1, <1>3, <2>2, CompensateWhole
  <2>3. CASE Continue(j)
    BY <1>1, <1>3, <2>3, ContinueWhole
  <2>4. CASE Begin(j) \/ RunNotFound(j) \/ CompensateSkips(j) \/ Settle(j) \/ Requeue(j)
               \/ UowEnds(j)
    BY <1>1, <1>3, <2>4, WorkerWhole
  <2> QED BY <1>5, <2>1, <2>2, <2>3, <2>4 DEF Process
<1>6. ASSUME NEW r \in Run,
             StartOpen(r) \/ StartCommit(r) \/ StartRollback(r) \/ StartInUow(r)
               \/ SleepElapses(r) \/ Signal(r)
      PROVE  Undoubled'
  BY <1>1, <1>3, <1>6, ClientWhole
<1> QED BY <1>4, <1>5, <1>6 DEF Next

\* Before any run is started nothing is doubled.
LEMMA InitWhole ==
    Init => UndividedInv
<1> SUFFICES ASSUME Init PROVE Undoubled
  BY DEF UndividedInv
<1>1. /\ NewRun.status = "absent" /\ NewRun.awaiting = FALSE
  BY DEF NewRun
<1>2. FreeSlot.state = "free"
  BY FreshJobs
<1>3. \A r \in Run : runs[r] = NewRun /\ journal[r] = <<>> /\ undone[r] = <<>>
  BY DEF Init
<1>4. \A j \in Slots : jobs[j].state = "free"
  BY <1>2 DEF Init
<1>5. \A r \in Run : runs[r].status = "absent" /\ ~runs[r].awaiting
  BY <1>1, <1>3
<1>6. LoneToken
  BY <1>4, <1>5 DEF LoneToken, Acting, Active
<1>7. DOMAIN <<>> = {}
  OBVIOUS
<1>8. JournalClock /\ UndoneInOrder
  BY <1>3, <1>4, <1>7 DEF JournalClock, UndoneInOrder
<1>9. ChildKnown /\ OneChild
  <2>1. \A r \in Run : \A n \in DOMAIN Workflow[r] : \A c \in Workflow[r][n].children :
           runs[c].status = "absent"
    BY <1>5, Children
  <2> QED BY <2>1 DEF ChildKnown, OneChild
<1> QED BY <1>6, <1>8, <1>9 DEF Undoubled

\* Without failures a run has one token, is compensated in reverse order of its
\* nodes, and a child node starts one child.
THEOREM NothingDoubled == Spec => []Undivided
<1>1. RunnerInv /\ UndividedInv /\ [Next]_vars => UndividedInv'
  BY StepWhole
<1>2. RunnerInv /\ UndividedInv => Undivided
  <2> SUFFICES ASSUME RunnerInv, UndividedInv, Unhurt PROVE OneToken /\ OneChild
    BY DEF Undivided, OneToken, OneChild
  <2>1. Undoubled
    BY DEF UndividedInv
  <2>2. \A i, j \in Slots :
           /\ jobs[i].state \in {"queued", "begun", "spawning", "continuing"}
           /\ jobs[j].state \in {"queued", "begun", "spawning", "continuing"}
           /\ jobs[i].run = jobs[j].run
           => i = j
    BY <2>1 DEF Undoubled, LoneToken, Acting, Active
  <2>3. \A r \in Run :
           /\ \A k, l \in DOMAIN undone[r] : k < l => undone[r][k] > undone[r][l]
           /\ runs[r].status = "completed" => undone[r] = <<>>
    BY <2>1 DEF Undoubled, UndoneInOrder
  <2>4. OneToken
    BY <2>2, <2>3 DEF OneToken
  <2> QED BY <2>1, <2>4 DEF Undoubled
<1> QED BY RunnerInvariant, InitWhole, <1>1, <1>2, PTL DEF Spec
=============================================================================
