----------------------------- MODULE QueryBuilder -----------------------------
(***************************************************************************)
(* The QueryBuilder of @strav/database, in two parts that share no state.   *)
(*                                                                         *)
(* Builders: every modifier copies the builder and extends the copy, so     *)
(* builders fork and are passed as bodies of one another (WITH, UNION), and *)
(* a builder compiles into SQL whose placeholders number one list of        *)
(* parameters.  Of the SQL only the conditions and their placeholders are   *)
(* kept.                                                                    *)
(*                                                                         *)
(* Paging: cursorPaginate() and chunk(), while other clients write to the   *)
(* table.  A query reads the rows on one side of a cursor - the sort value  *)
(* and the key of a boundary row - in one statement; nothing is held        *)
(* between two pages.                                                       *)
(***************************************************************************)
EXTENDS Integers, Sequences, FiniteSets, SequencesExt, Functions

CONSTANTS Value,      \* values a condition compares with
          Null,
          Soft,       \* does the schema declare softDeletes()
          Id,         \* primary keys, numbers
          SortValue,  \* what the sort column holds
          Tick,       \* the cursor keeps a value down to this: 1, or what a JavaScript Date drops
          MaxBuilders, MaxParts,       \* bounds: builders made, parts of one
          PerPage, MaxWrites, MaxPages \* the size of a page; bounds: writes of others, pages read

VARIABLES builders,   \* what each refers to: [parts: a slot of store, trashed, from]
          store,      \* slot -> the clauses: [wheres, withs, unions]
          first,      \* builder -> what it compiled to when it was made
          table,      \* id -> NoRow or [v, trashed]
          descending, \* the direction of the one orderBy()
          pager,      \* [mode, at, page: ids, from: how it was reached, next, prev, writes: so far]
          steady,     \* rows no client has touched since the pager began
          seen,       \* ids the callback of chunk() was given, in order
          came,       \* the page a page was reached from, if it was read forward and nothing was written since
          writes, pages

builderVars == <<builders, store, first>>
pagerVars == <<table, descending, pager, steady, seen, came, writes, pages>>
vars == <<builderVars, pagerVars>>

Empty == [wheres |-> <<>>, withs |-> <<>>, unions |-> <<>>]
Raw == {[raw |-> <<1>>, values |-> <<x>>] : x \in Value} \cup {[raw |-> <<2, 1, 2>>, values |-> <<x, y>>] : x, y \in Value}

(***************************************************************************)
(* toSql and _compile: WITH bodies, then the conditions, then the unions,   *)
(* each pushing its parameters on the list all share.                       *)
(***************************************************************************)
Scope(b) == IF ~Soft \/ b.trashed = "include" THEN <<>> ELSE <<[n |-> 0, v |-> b.trashed]>>

Placeholder(acc, v) == [text |-> Append(acc.text, [n |-> Len(acc.params) + 1, v |-> v]), params |-> Append(acc.params, v)]

(* IN () is written as FALSE and NOT IN () as TRUE. *)
Condition(acc, w) ==
  CASE w.op \in {"is null", "is not null"} -> acc
    [] w.op \in {"in", "not in"} -> FoldLeft(Placeholder, acc, w.value)
    [] OTHER -> Placeholder(acc, w.value)

CompileWhere(acc, b) == FoldLeft(Condition, [acc EXCEPT !.text = @ \o Scope(b)], store[b.parts].wheres)

(* A raw body keeps its text: $n becomes the n-th of its own values. *)
CompileRaw(acc, body) ==
  [text |-> acc.text \o [i \in DOMAIN body.raw |-> [n |-> body.raw[i] + Len(acc.params), v |-> body.values[body.raw[i]]]],
   params |-> acc.params \o body.values]

RECURSIVE Compile(_, _)
CompileSubBody(acc, body) == IF "raw" \in DOMAIN body THEN CompileRaw(acc, body) ELSE Compile(acc, builders[body.builder])
Compile(acc, b) ==
  LET with == FoldLeft(CompileSubBody, acc, store[b.parts].withs)
      main == CompileWhere(with, b)
  IN FoldLeft(CompileSubBody, main, store[b.parts].unions)

ToSql(b) == Compile([text |-> <<>>, params |-> <<>>], b)

(***************************************************************************)
(* Modifiers.                                                               *)
(***************************************************************************)
(* Mutation of Clone: the copy shares the lists of clauses. *)
CloneShared(b, parts) == /\ builders' = Append(builders, b) /\ store' = [store EXCEPT ![b.parts] = parts]

Clone(b, parts) ==
  /\ builders' = Append(builders, [b EXCEPT !.parts = Len(store) + 1])
  /\ store' = Append(store, parts)

Size(p) == Len(p.wheres) + Len(p.withs) + Len(p.unions)
Extend(b, parts) ==
  /\ Len(builders) < MaxBuilders /\ Size(parts) <= MaxParts /\ Clone(b, parts)
  /\ first' = Append(first, ToSql(Last(builders))')

Parts(b) == store[b.parts]

(* The two-argument form is an equality.  A value spelled like an operator   *)
(* would be taken for one and compile to a condition without its value.      *)
Where(b) == \E v \in Value : Extend(b, [Parts(b) EXCEPT !.wheres = Append(@, [op |-> "=", value |-> v])])
WhereIn(b) == \E op \in {"in", "not in"}, vs \in {<<>>} \cup {<<x, y>> : x, y \in Value} :
                Extend(b, [Parts(b) EXCEPT !.wheres = Append(@, [op |-> op, value |-> vs])])
WhereNull(b) == \E op \in {"is null", "is not null"} : Extend(b, [Parts(b) EXCEPT !.wheres = Append(@, [op |-> op, value |-> Null])])
Trashed(b) == \E s \in {"include", "only"} : (s = "only" => Soft) /\ Extend([b EXCEPT !.trashed = s], Parts(b))
Bodies == Raw \cup {[builder |-> i] : i \in DOMAIN builders}
Cte(b) == \E body \in Bodies : Extend(b, [Parts(b) EXCEPT !.withs = Append(@, body)])
Union(b) == \E body \in Bodies : Extend(b, [Parts(b) EXCEPT !.unions = Append(@, body)])

BuilderInit ==
  /\ builders = <<[parts |-> 1, trashed |-> "exclude"]>> /\ store = <<Empty>>
  /\ first = <<[text |-> IF Soft THEN <<[n |-> 0, v |-> "exclude"]>> ELSE <<>>, params |-> <<>>]>>
BuilderNext == \E i \in DOMAIN builders : LET b == builders[i] IN
          Where(b) \/ WhereIn(b) \/ WhereNull(b) \/ Trashed(b) \/ Cte(b) \/ Union(b)

-----------------------------------------------------------------------------
NoRow == [v |-> Null, trashed |-> TRUE]
NoCursor == [v |-> Null, i |-> 0]
NoPager == [mode |-> "none", at |-> "idle", page |-> <<>>, from |-> "none", next |-> NoCursor, prev |-> NoCursor, writes |-> 0]

PagerInit ==
  /\ table \in [Id -> {NoRow} \cup {[v |-> x, trashed |-> FALSE] : x \in SortValue}] /\ descending \in BOOLEAN
  /\ pager = NoPager /\ steady = {} /\ seen = <<>> /\ came = <<>> /\ writes = 0 /\ pages = 0

(* A Date goes into the cursor as an ISO string: milliseconds. *)
EncodeCursor(i) == [v |-> IF table[i].v = Null THEN Null ELSE (table[i].v \div Tick) * Tick, i |-> i]

(* (col, pk) > ($v, $i), or <: a NULL on either side matches nothing. *)
Beyond(i, c, up) == /\ Null \notin {table[i].v, c.v}
                    /\ IF up THEN table[i].v > c.v \/ (table[i].v = c.v /\ i > c.i)
                             ELSE table[i].v < c.v \/ (table[i].v = c.v /\ i < c.i)

(* ORDER BY col, pk: NULLs sort as if they were the largest. *)
Before(i, j, up) ==
  LET x == table[i].v
      y == table[j].v
      less == IF x = Null THEN y = Null /\ i < j ELSE y = Null \/ x < y \/ (x = y /\ i < j)
  IN IF up THEN less ELSE i # j /\ ~less

(* The statement of cursorPaginate: LIMIT perPage + 1, and the page put back *)
(* in its natural order when it was read backward.                           *)
Statement(c, reversed) ==
  LET up == descending = reversed
      rows == {i \in Id : ~table[i].trashed /\ (c = NoCursor \/ Beyond(i, c, up))}
      found == SetToSortSeq(rows, LAMBDA i, j : Before(i, j, up))
      page == IF Len(found) > PerPage THEN SubSeq(found, 1, PerPage) ELSE found
  IN [hasMore |-> Len(found) > PerPage, page |-> IF reversed THEN Reverse(page) ELSE page]

NextCursor(q, c, reversed) ==
  IF ~reversed THEN IF q.hasMore THEN EncodeCursor(Last(q.page)) ELSE NoCursor
  ELSE IF q.page # <<>> THEN EncodeCursor(Head(q.page)) ELSE NoCursor

PrevCursor(q, c, reversed) ==
  IF reversed THEN IF q.hasMore THEN EncodeCursor(Head(q.page)) ELSE NoCursor
  ELSE IF q.page # <<>> /\ c # NoCursor THEN EncodeCursor(Head(q.page)) ELSE NoCursor

CursorPaginate(mode, from, c, reversed, at) ==
  LET q == Statement(c, reversed) IN
  /\ pages < MaxPages /\ pages' = pages + 1
  /\ pager' = [mode |-> mode, at |-> IF q.page = <<>> THEN "done" ELSE at, page |-> q.page, from |-> from,
               next |-> NextCursor(q, c, reversed), prev |-> PrevCursor(q, c, reversed), writes |-> writes]
  /\ came' = IF from = "next" /\ pager.from # "prev" /\ pager.writes = writes THEN pager.page ELSE <<>>
  /\ UNCHANGED <<table, descending, writes>>

Untouched == {i \in Id : table[i] # NoRow}

(* A client that turns pages. *)
FirstPage == pager.mode = "none" /\ CursorPaginate("pages", "first", NoCursor, FALSE, "shown") /\ steady' = Untouched /\ UNCHANGED seen
NextPage == pager.mode = "pages" /\ pager.next # NoCursor /\ CursorPaginate("pages", "next", pager.next, FALSE, "shown") /\ UNCHANGED <<steady, seen>>
PrevPage == pager.mode = "pages" /\ pager.prev # NoCursor /\ CursorPaginate("pages", "prev", pager.prev, TRUE, "shown") /\ UNCHANGED <<steady, seen>>

(* chunk(): a page, the callback, and on with its cursor. *)
Chunk == pager.mode = "none" /\ CursorPaginate("chunk", "first", NoCursor, FALSE, "callback") /\ steady' = Untouched /\ UNCHANGED seen
ChunkNext == pager.mode = "chunk" /\ pager.at = "next" /\ CursorPaginate("chunk", "next", pager.next, FALSE, "callback") /\ UNCHANGED <<steady, seen>>
(* The callback runs, and may return false to stop. *)
Callback ==
  /\ pager.mode = "chunk" /\ pager.at = "callback" /\ seen' = seen \o pager.page
  /\ \E at \in {"stopped", IF pager.next = NoCursor THEN "done" ELSE "next"} : pager' = [pager EXCEPT !.at = at]
  /\ UNCHANGED <<table, descending, steady, came, writes, pages>>

(* Another client inserts, updates, deletes or trashes a row. *)
Write(i) ==
  /\ writes < MaxWrites /\ writes' = writes + 1
  /\ \E row \in {NoRow} \cup [v : SortValue, trashed : BOOLEAN] : row # table[i] /\ table' = [table EXCEPT ![i] = row]
  /\ steady' = steady \ {i} /\ came' = <<>>
  /\ UNCHANGED <<descending, pager, seen, pages>>

PagerNext == FirstPage \/ NextPage \/ PrevPage \/ Chunk \/ ChunkNext \/ Callback \/ \E i \in Id : Write(i)

-----------------------------------------------------------------------------
Init == BuilderInit /\ PagerInit
BuilderSpec == Init /\ [][BuilderNext /\ UNCHANGED pagerVars]_vars
PagerSpec == Init /\ [][PagerNext /\ UNCHANGED builderVars]_vars

(* Every placeholder stands for the value its clause was given, whatever was *)
(* compiled before it on the same list.                                      *)
Aligned == \A i \in DOMAIN builders : LET q == ToSql(builders[i]) IN
             \A k \in DOMAIN q.text : q.text[k].n > 0 => q.params[q.text[k].n] = q.text[k].v

(* A builder means what it meant when it was made: extending a copy of it,   *)
(* or using it inside another, does not change it.                           *)
Immutable == \A i \in DOMAIN builders : ToSql(builders[i]) = first[i]

BuilderInv == Aligned /\ Immutable

TypeOK == /\ Len(pager.page) <= PerPage /\ writes <= MaxWrites /\ pages <= MaxPages
          /\ pager.at \in {"idle", "shown", "callback", "next", "stopped", "done"}

Times(i) == Cardinality({k \in DOMAIN seen : seen[k] = i})
Sortable == \A i \in Id : table[i] # NoRow => table[i].v # Null

(* chunk() gives its callback every row that stood still, once, whatever     *)
(* other clients insert, move or delete meanwhile.                           *)
EachOnce == \A i \in steady : /\ Times(i) <= 1
                              /\ pager.mode = "chunk" /\ pager.at = "done" /\ ~table[i].trashed => Times(i) = 1

(* Back from a page to the one it was reached from, on a table that rests,   *)
(* while the client only went forward (see BackwardNextMovesOn).             *)
ThereAndBack == pager.from = "next" /\ came # <<>> /\ pager.prev # NoCursor => Statement(pager.prev, TRUE).page = came

(* Paging neither skips nor repeats, where the cursor holds the sort value   *)
(* in full and no row sorts by NULL.                                         *)
PagerInv == TypeOK /\ (Tick = 1 /\ Null \notin SortValue => EachOnce /\ ThereAndBack)

(* docs/database/guides/relationships.md:217: no risk of skipping or         *)
(* duplicating rows under concurrent inserts.                                *)
ChunkVisitsOnce == EachOnce

(* query_builder.ts:732: after a backward page, nextCursor is its last row,  *)
(* so the next page starts after it.                                         *)
BackwardNextMovesOn == pager.from = "prev" /\ pager.next # NoCursor => pager.next.i = Last(pager.page)
=============================================================================
