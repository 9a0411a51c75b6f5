--------------------------------- MODULE Rag ---------------------------------
(***************************************************************************)
(* @strav/rag: the index of retrievable rows kept by vectorize(),            *)
(* vectorRemove() and reindexAll() over the memory and the pgvector store;   *)
(* the retrieval of ranked matches and their reranking; the two chunkers.    *)
(* A behaviour does one of the three: calls of several callers over the      *)
(* index, documents put one by one, or a text written character by           *)
(* character.                                                                *)
(***************************************************************************)
EXTENDS Integers, Sequences, FiniteSets, SequencesExt, FiniteSetsExt

CONSTANTS Caller,
          Row,            \* 1..n: ids in the order they are given out
          Batch,          \* batchSize of reindexAll
          Counts,         \* how many chunks a version of a row may have; 0: shouldRetrieve is false
          Chars,          \* characters of a text: "a", " ", ".", "nl"
          MaxWrites, MaxCalls, MaxFaults, MaxDocs, MaxText

VARIABLES mode,           \* "index", "retrieve", "chunk"
          driver,         \* "memory", "pgvector"
          created,        \* memory: createCollection was called
          row,            \* the repository's table: id -> [v, n], or Absent
          index,          \* the committed chunks: [call, row, v, nth]
          call,           \* caller -> its call
          settled,        \* id -> what the last call that ran alone left, or Unknown
          spoiled,        \* ids whose calls overlapped
          tally,          \* [writes, calls, faults]
          docs,           \* "retrieve": the documents of the collection, in the order they were put
          text            \* "chunk": the content

indexVars == <<driver, created, row, index, call, settled, spoiled, tally>>
vars == <<mode, indexVars, docs, text>>

Absent == [v |-> 0, n |-> 0]
Unborn == [v |-> 0, n |-> -1]
First == [v |-> 1, n |-> Max(Counts)]
Unknown == [v |-> -1, n |-> 0]
Rest == [op |-> "none", pc |-> "idle", number |-> 0, model |-> <<0, Absent>>, batch |-> <<>>, short |-> FALSE,
         offset |-> 0, mine |-> <<>>, snap |-> {}, del |-> {}, ins |-> {},
         visited |-> <<>>, stood |-> {}, gone |-> 0]
Present == {r \in Row : row[r].v > 0}
Busy(c) == call[c].pc \notin {"idle", "report"}
Touches(c, r) == r \in DOMAIN call[c].mine
Touched(r) == \E c \in Caller : Touches(c, r)
Chunks(r) == {k \in index : k.row = r}
New(c, r, model) == {[call |-> call[c].number, row |-> r, v |-> model.v, nth |-> i] : i \in 1..model.n}
Pg == driver = "pgvector"

(***************************************************************************)
(* The rows, written by the application in transactions of their own.        *)
(***************************************************************************)
Save(r) ==
  /\ tally.writes < MaxWrites /\ row[r] # Absent /\ \A q \in Row : q < r => row[q] # Unborn
  /\ \E n \in Counts : row' = [row EXCEPT ![r] = [v |-> tally.writes + 2, n |-> n]]
  /\ tally' = [tally EXCEPT !.writes = @ + 1]
  /\ UNCHANGED <<driver, created, index, call, settled, spoiled>>

Delete(r) ==
  /\ tally.writes < MaxWrites /\ r \in Present /\ row' = [row EXCEPT ![r] = Absent]
  /\ tally' = [tally EXCEPT !.writes = @ + 1]
  /\ call' = [c \in Caller |-> IF call[c].op = "reindex" /\ Busy(c) THEN [call[c] EXCEPT !.stood = @ \ {r}, !.gone = @ + 1] ELSE call[c]]
  /\ UNCHANGED <<driver, created, index, settled, spoiled>>

(***************************************************************************)
(* A call.  `mine` holds the models of the rows it is at: a row leaves when  *)
(* its chunks are in the store, which under pgvector, where withTenant() is  *)
(* a transaction, is the end of the call.                                    *)
(***************************************************************************)
At(c, state, r, model) ==
  /\ call' = [call EXCEPT ![c] = [state EXCEPT !.pc = "delete", !.model = <<r, model>>,
                                               !.mine = [q \in DOMAIN state.mine \cup {r} |-> IF q = r THEN model ELSE state.mine[q]],
                                               !.visited = IF state.op = "reindex" THEN Append(@, r) ELSE @]]
  /\ spoiled' = IF \E d \in Caller \ {c} : Touches(d, r) THEN spoiled \cup {r} ELSE spoiled \ {r}

Begins(c) == ~Busy(c) /\ tally.calls < MaxCalls /\ tally' = [tally EXCEPT !.calls = @ + 1]
Opened(op) == [Rest EXCEPT !.op = op, !.number = tally.calls + 1, !.stood = IF op = "reindex" THEN Present ELSE {}]

Vectorize(c, r) ==
  /\ Begins(c) /\ r \in Present /\ At(c, Opened("vectorize"), r, row[r])
  /\ UNCHANGED <<driver, created, row, index, settled>>

VectorRemove(c, r) ==
  /\ Begins(c) /\ row[r] # Unborn /\ At(c, Opened("remove"), r, Absent)
  /\ UNCHANGED <<driver, created, row, index, settled>>

ReindexAll(c) ==
  /\ Begins(c) /\ call' = [call EXCEPT ![c] = [Opened("reindex") EXCEPT !.pc = "read"]]
  /\ UNCHANGED <<driver, created, row, index, settled, spoiled>>

\* What a call leaves: its deletions and insertions, and for each of its rows what a call
\* that ran alone promises.
Left(mine) == settled' = [r \in Row |-> IF r \notin DOMAIN mine THEN settled[r] ELSE IF r \in spoiled THEN Unknown ELSE mine[r]]
Commit(c) == index' = (index \ call[c].del) \cup call[c].ins
Close(state) == IF state.op # "reindex" THEN Rest
                ELSE [Rest EXCEPT !.pc = "report", !.visited = state.visited, !.stood = state.stood, !.gone = state.gone]

\* The chunks of the row are in place: the next row of the batch, the next batch, or the end.
RowDone(c, state) ==
  LET done == IF Pg THEN state ELSE [state EXCEPT !.mine = <<>>]
      rest == IF state.batch = <<>> THEN <<>> ELSE Tail(state.batch) IN
  IF rest # <<>>
  THEN /\ At(c, [done EXCEPT !.batch = rest], rest[1][1], rest[1][2])
       /\ IF Pg THEN settled' = settled ELSE Left(state.mine)
  ELSE IF state.op = "reindex" /\ ~state.short
  THEN /\ call' = [call EXCEPT ![c] = [done EXCEPT !.pc = "read", !.batch = <<>>]] /\ spoiled' = spoiled
       /\ IF Pg THEN settled' = settled ELSE Left(state.mine)
  ELSE /\ call' = [call EXCEPT ![c] = Close(state)] /\ Left(state.mine) /\ spoiled' = spoiled

Stored(c, state) == IF Pg /\ call'[c].pc \in {"idle", "report"} THEN index' = (index \ state.del) \cup state.ins ELSE Pg => index' = index

\* A batch is read at its offset, ordered by id.
ReadBatch(c) ==
  /\ call[c].pc = "read"
  /\ LET ids == SetToSortSeq(Present, <)
         page == SubSeq(ids, call[c].offset + 1, Min({call[c].offset + Batch, Len(ids)}))
         rows == [i \in 1..Len(page) |-> <<page[i], row[page[i]]>>]
         state == [call[c] EXCEPT !.batch = rows, !.offset = @ + Len(rows), !.short = Len(rows) < Batch] IN
     IF rows # <<>>
     THEN At(c, state, rows[1][1], rows[1][2]) /\ UNCHANGED <<index, settled>>
     ELSE /\ call' = [call EXCEPT ![c] = Close(state)] /\ Left(state.mine) /\ spoiled' = spoiled
          /\ index' = IF Pg THEN (index \ state.del) \cup state.ins ELSE index
  /\ UNCHANGED <<driver, created, row, tally>>

Fails(c) ==
  /\ call' = [call EXCEPT ![c] = Rest]
  /\ settled' = [r \in Row |-> IF Touches(c, r) /\ (~Pg \/ r \in spoiled) THEN Unknown ELSE settled[r]]
  /\ UNCHANGED <<index, spoiled>>

\* Mutation of DeleteBySource: the chunks of the row stay.
DeleteBySourceNone(c) ==
  LET model == call[c].model[2] IN
  /\ call[c].pc = "delete" /\ ~Pg
  /\ IF ~created THEN Fails(c)
     ELSE /\ index' = index
          /\ IF model.n = 0 THEN RowDone(c, call[c])
             ELSE call' = [call EXCEPT ![c].pc = "embed"] /\ UNCHANGED <<settled, spoiled>>
  /\ UNCHANGED <<driver, created, row, tally>>

\* deleteBySource in memory: one step, and a collection nobody created is an error.
DeleteBySource(c) ==
  LET r == call[c].model[1]  model == call[c].model[2] IN
  /\ call[c].pc = "delete" /\ ~Pg
  /\ IF ~created THEN Fails(c)
     ELSE /\ index' = index \ Chunks(r)
          /\ IF model.n = 0 THEN RowDone(c, call[c])
             ELSE call' = [call EXCEPT ![c].pc = "embed"] /\ UNCHANGED <<settled, spoiled>>
  /\ UNCHANGED <<driver, created, row, tally>>

\* The DELETE of a transaction: it finds the chunks that are committed when it starts ...
DeleteStatement(c) ==
  /\ call[c].pc = "delete" /\ Pg
  /\ call' = [call EXCEPT ![c].pc = "locked", ![c].snap = Chunks(call[c].model[1])]
  /\ UNCHANGED <<driver, created, row, index, settled, spoiled, tally>>

\* ... waits for the transactions that delete them too, and deletes those that are left.
Deleted(c) ==
  LET model == call[c].model[2]
      state == [call[c] EXCEPT !.del = @ \cup (call[c].snap \cap index), !.snap = {}] IN
  /\ call[c].pc = "locked" /\ \A d \in Caller \ {c} : call[d].del \cap call[c].snap = {}
  /\ IF model.n = 0 THEN RowDone(c, state) /\ Stored(c, state)
     ELSE call' = [call EXCEPT ![c] = [state EXCEPT !.pc = "embed"]] /\ UNCHANGED <<index, settled, spoiled>>
  /\ UNCHANGED <<driver, created, row, tally>>

\* The provider's embeddings arrive, and the chunks are put under fresh ids.
Upsert(c) ==
  LET chunks == New(c, call[c].model[1], call[c].model[2])
      state == [call[c] EXCEPT !.ins = @ \cup chunks] IN
  /\ call[c].pc = "embed"
  /\ IF Pg THEN RowDone(c, state) /\ Stored(c, state)
     ELSE RowDone(c, call[c]) /\ index' = index \cup chunks
  /\ UNCHANGED <<driver, created, row, tally>>

\* The provider, the repository or the database throws: the transaction is rolled back, the
\* memory store stays as it is.
Throw(c) ==
  /\ call[c].pc \in {"read", "embed", "locked"}
  /\ tally.faults < MaxFaults /\ Fails(c)
  /\ tally' = [tally EXCEPT !.faults = @ + 1] /\ UNCHANGED <<driver, created, row>>

\* flush(collection); under pgvector it waits for rows others delete.
Flush ==
  /\ tally.calls < MaxCalls /\ tally' = [tally EXCEPT !.calls = @ + 1]
  /\ index # {} /\ (Pg => \A c \in Caller : call[c].del = {})
  /\ index' = {} /\ settled' = [r \in Row |-> IF settled[r] = Unknown /\ Touched(r) THEN Unknown ELSE Absent]
  /\ UNCHANGED <<driver, created, row, call, spoiled>>

CreateCollection ==
  /\ ~created /\ tally.calls = 0 /\ created' = TRUE /\ UNCHANGED <<driver, row, index, call, settled, spoiled, tally>>

IndexNext ==
  \/ \E r \in Row : Save(r) \/ Delete(r)
  \/ \E c \in Caller, r \in Row : Vectorize(c, r) \/ VectorRemove(c, r)
  \/ \E c \in Caller : \/ ReindexAll(c) \/ ReadBatch(c) \/ DeleteBySource(c) \/ DeleteStatement(c) \/ Deleted(c)
                       \/ Upsert(c) \/ Throw(c)
  \/ Flush \/ CreateCollection

(***************************************************************************)
(* Retrieval.  A document has its similarity to the query, in tenths, how    *)
(* many of the query's tokens it contains, and its topic, which is in its     *)
(* metadata; documents of one topic embed alike.  0: an option not given.     *)
(***************************************************************************)
Documents == [sim : {3, 6, 8}, hits : {0, 2}, topic : {"p", "q"}]
Asks == {a \in [topK : 0..2, threshold : {0, 6}, filter : {"any", "p"}, rerank : {"none", "keyword", "mmr"},
                pool : {0, 1, 3}, tokens : {0, 2}] :
           /\ a.rerank = "none" => a.pool = 0
           /\ a.rerank # "keyword" => a.tokens = 2}
Given(value, default) == IF value = 0 THEN default ELSE value

Put == /\ Len(docs) < MaxDocs /\ \E d \in Documents : docs' = Append(docs, d)
       /\ UNCHANGED <<indexVars, text>>

Matching(ask) == {i \in DOMAIN docs : (ask.filter = "any" \/ docs[i].topic = ask.filter) /\ docs[i].sim >= ask.threshold}
Descending(s, Key(_)) == \A i \in 1..Len(s) - 1 : Key(s[i]) >= Key(s[i + 1])
Cut(s, n) == SubSeq(s, 1, Min({n, Len(s)}))
Sim(i) == docs[i].sim
\* Ties are in the order of insertion in memory, in any order in Postgres.
Query(ask, k) ==
  LET Before(i, j) == Sim(i) > Sim(j) \/ (Sim(i) = Sim(j) /\ i < j) IN
  IF Pg THEN {Cut(s, Given(k, 5)) : s \in {p \in SetToSeqs(Matching(ask)) : Descending(p, Sim)}}
  ELSE {Cut(SetToSortSeq(Matching(ask), Before), Given(k, 5))}

\* KeywordReranker, weight 3/10: the blend, times ten and times the number of tokens.
Blend(i, tokens) == Sim(i) * 7 * tokens + 10 * docs[i].hits * 3
Keyword(s, tokens) ==
  LET Before(i, j) == Blend(s[i], tokens) > Blend(s[j], tokens) \/ (Blend(s[i], tokens) = Blend(s[j], tokens) /\ i < j)
      order == SetToSortSeq(DOMAIN s, Before) IN
  IF tokens = 0 THEN [i \in DOMAIN s |-> [id |-> s[i], score |-> Sim(s[i])]]
  ELSE [i \in DOMAIN s |-> [id |-> s[order[i]], score |-> Blend(s[order[i]], tokens)]]

\* MMRReranker, lambda 1/2, times twenty: a cosine is twice the similarity less one.
Overlap(i, chosen) == Max({0} \cup {IF docs[i].topic = docs[c.id].topic THEN 10 ELSE 0 : c \in ToSet(chosen)})
MarginalRelevance(i, chosen) == (2 * Sim(i) - 10) - Overlap(i, chosen)
Mmr(s) ==
  LET Next(chosen, k) ==
        LET left == SelectSeq(s, LAMBDA i : \A c \in ToSet(chosen) : c.id # i)
            best == Max({MarginalRelevance(i, chosen) : i \in ToSet(left)})
            slot == Min({k2 \in DOMAIN left : MarginalRelevance(left[k2], chosen) = best}) IN
        Append(chosen, [id |-> left[slot], score |-> best]) IN
  IF Len(s) <= 1 THEN [i \in DOMAIN s |-> [id |-> s[i], score |-> Sim(s[i])]]
  ELSE FoldLeft(Next, <<>>, s)

Rerank(ask, s) == IF ask.rerank = "keyword" THEN Keyword(s, ask.tokens) ELSE Mmr(s)
Retrieve(ask, s) ==
  IF ask.rerank = "none" \/ s = <<>> THEN [i \in DOMAIN s |-> [id |-> s[i], score |-> Sim(s[i])]]
  ELSE IF ask.topK = 0 THEN Rerank(ask, s) ELSE Cut(Rerank(ask, s), ask.topK)
FetchK(ask) == IF ask.rerank # "none" THEN Given(ask.pool, ask.topK) ELSE ask.topK

(***************************************************************************)
(* The chunkers.  A chunk is [from, to], first and last character.           *)
(***************************************************************************)
Settings == {[size |-> 2, overlap |-> 0], [size |-> 3, overlap |-> 0], [size |-> 3, overlap |-> 1], [size |-> 3, overlap |-> 2]}
Separators == << <<"nl", "nl">>, <<"nl">>, <<".", " ">>, <<" ">> >>

Write == /\ Len(text) < MaxText /\ \E ch \in Chars : text' = Append(text, ch)
         /\ UNCHANGED <<indexVars, docs>>

\* A window of `size`, moved by size - overlap until one reaches the end.
FixedSize(s, set) ==
  LET step == set.size - set.overlap
      last == Min({i \in 0..Len(s) : i * step + set.size >= Len(s)}) IN
  IF s = <<>> THEN <<>>
  ELSE [i \in 1..last + 1 |-> [from |-> (i - 1) * step + 1, to |-> Min({(i - 1) * step + set.size, Len(s)})]]

Is(s, i, word) == i + Len(word) - 1 <= Len(s) /\ SubSeq(s, i, i + Len(word) - 1) = word
RECURSIVE Split(_, _)
Split(s, separator) ==
  LET at == {i \in DOMAIN s : Is(s, i, separator)} IN
  IF at = {} THEN <<s>>
  ELSE <<SubSeq(s, 1, Min(at) - 1)>> \o Split(SubSeq(s, Min(at) + Len(separator), Len(s)), separator)

RECURSIVE SplitRecursive(_, _, _)
SplitRecursive(s, size, level) ==
  LET separator == Separators[level]
      Merge(acc, part) ==
        LET candidate == IF acc.current = <<>> THEN part ELSE acc.current \o separator \o part
            flushed == IF acc.current = <<>> THEN acc.merged ELSE Append(acc.merged, acc.current) IN
        IF Len(candidate) <= size THEN [acc EXCEPT !.current = candidate]
        ELSE IF Len(part) > size THEN [merged |-> flushed \o SplitRecursive(part, size, level + 1), current |-> <<>>]
        ELSE [merged |-> flushed, current |-> part]
      end == FoldLeft(Merge, [merged |-> <<>>, current |-> <<>>], Split(s, separator)) IN
  IF Len(s) <= size THEN <<s>>
  ELSE IF level > Len(Separators)
  THEN [i \in 1..(Len(s) + size - 1) \div size |-> SubSeq(s, (i - 1) * size + 1, Min({i * size, Len(s)}))]
  ELSE IF end.current = <<>> THEN end.merged ELSE Append(end.merged, end.current)

\* Each piece is looked for behind the one before; a span is then extended backwards.
Spans(s, pieces) ==
  LET Place(acc, piece) ==
        LET found == {i \in acc.cursor..Len(s) : Is(s, i, piece)}
            start == IF found = {} THEN acc.cursor ELSE Min(found) IN
        [spans |-> Append(acc.spans, [from |-> start, to |-> start + Len(piece) - 1]), cursor |-> start + Len(piece)] IN
  FoldLeft(Place, [spans |-> <<>>, cursor |-> 1], pieces).spans
Recursive(s, set) ==
  LET spans == Spans(s, SplitRecursive(s, set.size, 1)) IN
  IF s = <<>> THEN <<>>
  ELSE [i \in DOMAIN spans |-> [spans[i] EXCEPT !.from = IF i = 1 THEN @ ELSE Max({1, @ - set.overlap})]]

-----------------------------------------------------------------------------
\* The index may start with what two overlapping calls left of a row.
Doubled == {[call |-> call0, row |-> 1, v |-> 1, nth |-> i] : call0 \in {-1, 0}, i \in 1..First.n}
Init ==
  /\ mode \in {"index", "retrieve", "chunk"} /\ driver \in {"memory", "pgvector"} /\ created \in BOOLEAN
  /\ (driver = "pgvector" \/ mode # "index" => created) /\ (mode = "chunk" => driver = "memory")
  /\ row \in {[r \in Row |-> IF r = Max(Row) THEN last ELSE First] : last \in {Unborn, First}} /\ index \in {{}, Doubled} /\ (index # {} => created /\ mode = "index")
  /\ call = [c \in Caller |-> Rest] /\ settled = [r \in Row |-> IF index = {} THEN Absent ELSE Unknown] /\ spoiled = {} /\ tally = [writes |-> 0, calls |-> 0, faults |-> 0]
  /\ docs = <<>> /\ text = <<>>

Next ==
  /\ mode' = mode
  /\ \/ mode = "index" /\ IndexNext /\ UNCHANGED <<docs, text>>
     \/ mode = "retrieve" /\ Put
     \/ mode = "chunk" /\ Write

Spec == Init /\ [][Next]_vars

-----------------------------------------------------------------------------
(* A row whose last call ran alone and succeeded has in the index exactly the  *)
(* chunks of the model that call was given, whatever other rows' calls do,     *)
(* what failed before, and who reindexes or flushes: under pgvector until the  *)
(* next call commits, in memory until the next one begins (vectorize).         *)
IndexIsTheLastCall ==
  \A r \in Row : settled[r] # Unknown /\ (Pg \/ ~Touched(r)) =>
    /\ Cardinality(Chunks(r)) = settled[r].n
    /\ \A k \in Chunks(r) : k.v = settled[r].v

(* reindexAll pages by offset over rows that come and go: it meets no row      *)
(* twice, and misses at most as many of the rows that stood all the time as    *)
(* were deleted meanwhile.                                                     *)
ReindexMissesOnlyForDeletions ==
  \A c \in Caller : call[c].pc = "report" =>
    /\ Cardinality(ToSet(call[c].visited)) = Len(call[c].visited)
    /\ Cardinality(call[c].stood \ ToSet(call[c].visited)) <= call[c].gone

(* Retrieval answers as many of the best matches as it was asked for and there *)
(* are, a pool narrower than that aside; a reranker only orders the pool, no   *)
(* document comes twice, and scores descend (retrieve and the rerankers).      *)
Ranked ==
  \A ask \in Asks : \A s \in Query(ask, FetchK(ask)) :
    LET answer == Retrieve(ask, s)  ids == {answer[i].id : i \in DOMAIN answer}
        asked == IF ask.pool = 0 THEN Given(ask.topK, 5) ELSE Min({ask.pool, Given(ask.topK, ask.pool)}) IN
    /\ Len(answer) = Min({asked, Cardinality(Matching(ask))}) /\ Cardinality(ids) = Len(answer)
    /\ ids \subseteq Matching(ask)
    /\ ask.rerank = "none" => \A i \in ids, j \in Matching(ask) \ ids : Sim(i) >= Sim(j)
    /\ ask.rerank = "keyword" /\ ask.tokens > 0 => \A i \in ids, j \in ToSet(s) \ ids : Blend(i, 2) >= Blend(j, 2)
    /\ \A i \in 1..Len(answer) - 1 : answer[i].score >= answer[i + 1].score

(* The chunks of a text hold every character of it - the recursive ones every  *)
(* character that is not of a separator -, each ends behind the one before and *)
(* is no longer than its size, and for a recursive one its overlap; a fixed    *)
(* one is not within another (the two chunk() methods).                        *)
Covered(chunks) == UNION {chunks[i].from..chunks[i].to : i \in DOMAIN chunks}
Onward(chunks) == \A i \in 1..Len(chunks) - 1 : chunks[i].to < chunks[i + 1].to
ChunksHoldTheText ==
  \A set \in Settings :
    LET fixed == FixedSize(text, set)  chunks == Recursive(text, set) IN
    /\ Covered(fixed) = DOMAIN text /\ Onward(fixed) /\ \A i \in 1..Len(fixed) - 1 : fixed[i].from < fixed[i + 1].from
    /\ \A i \in DOMAIN fixed : fixed[i].to - fixed[i].from < set.size
    /\ \A i \in DOMAIN text \ Covered(chunks) : text[i] # "a"
    /\ Onward(chunks)
    /\ \A i \in DOMAIN chunks : chunks[i].to - chunks[i].from < set.size + set.overlap

RagInv == /\ mode = "index" => IndexIsTheLastCall /\ ReindexMissesOnlyForDeletions
          /\ mode = "retrieve" => Ranked
          /\ mode = "chunk" => ChunksHoldTheText
=============================================================================
