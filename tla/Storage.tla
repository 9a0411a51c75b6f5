------------------------------- MODULE Storage -------------------------------
(***************************************************************************)
(* @strav/storage: the filesystem driver and the S3 driver behind Storage.  *)
(* A call takes the steps its awaits separate, beside the calls of other    *)
(* clients; a step may fail and a client may die between two.  Files are    *)
(* what an open handle keeps writing to when its name has gone; an object   *)
(* of S3 is replaced whole.                                                 *)
(***************************************************************************)
EXTENDS Integers, Sequences, FiniteSets, SequencesExt, FiniteSetsExt, TLC

CONSTANTS Client,
          Object,      \* keys: sequences of names
          Content,
          Tree,        \* the keys list() is checked over
          MaxCalls, MaxFaults

VARIABLES setting,     \* [driver, volumes]: "local" or "s3"; do moves cross volumes?
          disk,        \* [at, text, dirs]: key -> file or 0, file -> what it holds, directories
          call,        \* client -> its call, under way or ended
          tally        \* [calls, faults, removed, said, torn]: how many; was a torn file copied?

vars == <<setting, disk, call, tally>>

File == 1..Cardinality(Object) + Cardinality(Client)
Local == setting.driver = "local"
Holds(k) == IF disk.at[k] = 0 THEN "none" ELSE disk.text[disk.at[k]]
Parents(k) == {SubSeq(k, 1, n) : n \in 1..Len(k) - 1}
Fresh == Min(File \ ({disk.at[k] : k \in Object} \cup {call[c].file : c \in Client}))
Underway(c) == call[c].at \notin {"idle", "done", "crashed"}

(***************************************************************************)
(* normalizePath and normalizePrefix, on names that may be "", "." or "..". *)
(***************************************************************************)
NormalizePath(names) == IF names = <<>> \/ ToSet(names) \cap {"", ".", ".."} # {} THEN {} ELSE {names}
\* A prefix may end with a slash, that is with an empty name, and may be empty.
NormalizePrefix(names) ==
  LET slash == names # <<>> /\ Last(names) = ""
      stripped == IF slash THEN Front(names) ELSE names IN
  IF names = <<>> THEN {[path |-> <<>>, slash |-> FALSE]}
  ELSE {[path |-> n, slash |-> slash] : n \in NormalizePath(stripped)}

(***************************************************************************)
(* The calls.                                                               *)
(***************************************************************************)
Rest == [kind |-> "none", at |-> "idle", from |-> CHOOSE k \in Object : TRUE, to |-> CHOOSE k \in Object : TRUE,
         value |-> "none", file |-> 0, alone |-> TRUE, answer |-> "none"]
FirstStep(kind) ==
  CASE Local /\ kind \in {"put", "copy", "move"} -> "mkdir"
    [] Local /\ kind = "get" -> "exists"
    [] Local /\ kind = "delete" -> "unlink"
    [] ~Local /\ kind = "put" -> "write"
    [] ~Local /\ kind = "get" -> "read"
    [] ~Local /\ kind = "delete" -> "exists"
    [] ~Local /\ kind \in {"copy", "move"} -> "check"
\* `value` is what the call carries; `alone` turns false when another call
\* changes one of its keys.
Begin(c, kind, from, to, v) ==
  /\ ~Underway(c) /\ tally.calls < MaxCalls
  /\ Local => from \notin disk.dirs
  /\ from = to \/ kind \in {"copy", "move"}
  /\ Local /\ from = to => kind \notin {"copy", "move"}
  /\ call' = [call EXCEPT ![c] = [Rest EXCEPT !.kind = kind, !.at = FirstStep(kind), !.from = from, !.to = to,
                                              !.value = IF kind = "put" THEN v ELSE Holds(from)]]
  /\ tally' = [tally EXCEPT !.calls = @ + 1]
  /\ UNCHANGED <<setting, disk>>

\* Calls after c has changed `keys` and goes on as r.
Touched(c, keys, r) ==
  [d \in Client |-> IF d = c THEN r
                    ELSE IF {call[d].from, call[d].to} \cap keys = {} THEN call[d] ELSE [call[d] EXCEPT !.alone = FALSE]]
Answer(c, a) == [call[c] EXCEPT !.at = "done", !.answer = a, !.file = 0]
Ends(c, a) == call' = [call EXCEPT ![c] = Answer(c, a)] /\ UNCHANGED <<setting, disk, tally>>
Goes(c, place) == call' = [call EXCEPT ![c].at = place] /\ UNCHANGED <<setting, disk, tally>>
Free(k) == [disk EXCEPT !.at[k] = 0]
At(c, place) == call[c].at = place

\* LocalStorage.put, copy and move make the parent directories outside their
\* try: what is in the way comes through as it is.
Mkdir(c) ==
  /\ At(c, "mkdir")
  /\ IF \E p \in Parents(call[c].to) : p \in Object /\ disk.at[p] # 0 THEN Ends(c, "raw error")
     ELSE /\ disk' = [disk EXCEPT !.dirs = @ \cup Parents(call[c].to)]
          /\ call' = [call EXCEPT ![c].at = CASE call[c].kind = "put" -> "open" [] call[c].kind = "copy" -> "copy file" [] OTHER -> "rename"]
          /\ UNCHANGED <<setting, tally>>
\* A file opened for writing is empty until it is filled.
Opened(c, v) ==
  LET k == call[c].to  f == IF disk.at[k] = 0 THEN Fresh ELSE disk.at[k] IN
  /\ disk' = [disk EXCEPT !.at[k] = f, !.text[f] = "torn"]
  /\ call' = Touched(c, {k}, [call[c] EXCEPT !.at = "fill", !.file = f, !.value = v])
  /\ tally' = [tally EXCEPT !.torn = @ \/ v = "torn"]
  /\ UNCHANGED setting
OpenFile(c) == At(c, "open") /\ IF call[c].to \in disk.dirs THEN Ends(c, "driver error") ELSE Opened(c, call[c].value)
\* fs.copyFile, of copy() and of a move() that cannot rename.
CopyFile(c) ==
  /\ At(c, "copy file")
  /\ CASE disk.at[call[c].from] = 0 -> Ends(c, IF call[c].kind = "copy" THEN "not found" ELSE "raw error")
       [] disk.at[call[c].from] # 0 /\ call[c].to \in disk.dirs -> Ends(c, "driver error")
       [] OTHER -> Opened(c, Holds(call[c].from))
AfterFill(c) == IF call[c].kind = "move" THEN [call[c] EXCEPT !.at = "unlink source", !.file = 0] ELSE Answer(c, "ok")
Fill(c) ==
  /\ At(c, "fill")
  /\ disk' = [disk EXCEPT !.text[call[c].file] = call[c].value]
  /\ call' = Touched(c, {k \in Object : disk.at[k] = call[c].file}, AfterFill(c))
  /\ UNCHANGED <<setting, tally>>
Rename(c) ==
  LET from == call[c].from  to == call[c].to IN
  /\ At(c, "rename")
  /\ CASE disk.at[from] = 0 -> Ends(c, "not found")
       [] disk.at[from] # 0 /\ to \in disk.dirs -> Ends(c, "driver error")
       [] disk.at[from] # 0 /\ to \notin disk.dirs /\ setting.volumes -> Goes(c, "copy file")
       [] OTHER -> /\ disk' = [disk EXCEPT !.at[to] = disk.at[from], !.at[from] = 0]
                   /\ call' = Touched(c, {from, to}, Answer(c, "ok"))
                   /\ UNCHANGED <<setting, tally>>
UnlinkSource(c) ==
  /\ At(c, "unlink source")
  /\ IF disk.at[call[c].from] = 0 THEN Ends(c, "raw error")
     ELSE /\ disk' = Free(call[c].from)
          /\ call' = Touched(c, {call[c].from}, Answer(c, "ok"))
          /\ UNCHANGED <<setting, tally>>
\* delete() of an object that is there.
Removed(c) ==
  /\ disk' = Free(call[c].from)
  /\ call' = Touched(c, {call[c].from}, Answer(c, "ok"))
  /\ tally' = IF call[c].kind # "delete" THEN tally
              ELSE [tally EXCEPT !.said = @ + 1, !.removed = @ + (IF disk.at[call[c].from] = 0 THEN 0 ELSE 1)]
  /\ UNCHANGED setting
Unlink(c) ==
  /\ At(c, "unlink")
  /\ CASE call[c].from \in disk.dirs -> Ends(c, "driver error")
       [] call[c].from \notin disk.dirs /\ disk.at[call[c].from] = 0 -> Ends(c, "false")
       [] OTHER -> Removed(c)
\* LocalStorage.get looks before it reads, S3Storage.delete before it deletes.
Exists(c) ==
  LET none == CASE call[c].kind = "get" -> "not found" [] call[c].kind = "delete" -> "false" [] OTHER -> "ok" IN
  /\ At(c, "exists")
  /\ IF disk.at[call[c].from] = 0 THEN Ends(c, none) ELSE Goes(c, IF call[c].kind = "get" THEN "read" ELSE "remove")
Read(c) ==
  /\ At(c, "read")
  /\ Ends(c, IF disk.at[call[c].from] # 0 THEN Holds(call[c].from) ELSE IF Local THEN "raw error" ELSE "not found")
RemoveObject(c) == At(c, "remove") /\ Removed(c)
\* S3Storage.copy, and move() of the base class: copy, then delete.
Check(c) == At(c, "check") /\ IF disk.at[call[c].from] = 0 THEN Ends(c, "not found") ELSE Goes(c, "write")
AfterWrite(c) == IF call[c].kind = "move" THEN [call[c] EXCEPT !.at = "exists"] ELSE Answer(c, "ok")
Write(c) ==
  LET f == Fresh  v == IF call[c].kind = "put" THEN call[c].value ELSE Holds(call[c].from) IN
  /\ At(c, "write")
  /\ IF v = "none" THEN Ends(c, "driver error")
     ELSE /\ disk' = [disk EXCEPT !.at[call[c].to] = f, !.text[f] = v]
          /\ call' = Touched(c, {call[c].to}, [AfterWrite(c) EXCEPT !.value = v])
          /\ UNCHANGED <<setting, tally>>
\* A request to S3 fails, or a write to the disk.
Fault(c) ==
  /\ tally.faults < MaxFaults
  /\ IF Local THEN call[c].at = "fill" ELSE Underway(c)
  /\ call' = [call EXCEPT ![c] = Answer(c, "driver error")]
  /\ tally' = [tally EXCEPT !.faults = @ + 1]
  /\ UNCHANGED <<setting, disk>>
Crash(c) ==
  /\ Underway(c) /\ tally.faults < MaxFaults
  /\ call' = [call EXCEPT ![c].at = "crashed", ![c].file = 0]
  /\ tally' = [tally EXCEPT !.faults = @ + 1]
  /\ UNCHANGED <<setting, disk>>

\* Some objects are there from before; no key is also a directory.
Init ==
  \E there \in SUBSET Object :
    LET f == CHOOSE g \in [there -> 1..Cardinality(Object)] : IsInjective(g) IN
    /\ \A k, j \in there : k \notin Parents(j)
    /\ setting \in [driver : {"local"}, volumes : BOOLEAN] \cup [driver : {"s3"}, volumes : {FALSE}]
    /\ disk = [at |-> [k \in Object |-> IF k \in there THEN f[k] ELSE 0],
               text |-> [n \in File |-> IF n \in Range(f) THEN "old" ELSE "none"],
               dirs |-> IF Local THEN UNION {Parents(k) : k \in there} ELSE {}]
    /\ call = [c \in Client |-> Rest]
    /\ tally = [calls |-> 0, faults |-> 0, removed |-> 0, said |-> 0, torn |-> FALSE]
Next ==
  \E c \in Client :
    \/ \E k \in Object, v \in Content : Begin(c, "put", k, k, v)
    \/ \E k \in Object, kind \in {"get", "delete"} : Begin(c, kind, k, k, "none")
    \/ \E from, to \in Object, kind \in {"copy", "move"} : Begin(c, kind, from, to, "none")
    \/ Mkdir(c) \/ OpenFile(c) \/ CopyFile(c) \/ Fill(c) \/ Rename(c) \/ UnlinkSource(c) \/ Unlink(c)
    \/ Exists(c) \/ Read(c) \/ RemoveObject(c) \/ Check(c) \/ Write(c)
    \/ Fault(c) \/ Crash(c)
Spec == Init /\ [][Next]_vars

(***************************************************************************)
(* list().  Keys are compared by their bytes, names of a directory by       *)
(* localeCompare: "-" < "/" < "B" < "a" < "b", and a, a-, b, B.             *)
(***************************************************************************)
Slash == 2
Chars(name) == CASE name = "a" -> <<4>> [] name = "a-" -> <<4, 1>> [] name = "b" -> <<5>> [] name = "B" -> <<3>>
Locale(name) == CASE name = "a" -> 1 [] name = "a-" -> 2 [] name = "b" -> 3 [] name = "B" -> 4
Joined(k) == FlattenSeq([i \in DOMAIN k |-> IF i = 1 THEN Chars(k[i]) ELSE <<Slash>> \o Chars(k[i])])
Before(s, t) == LET d == {i \in 1..Len(s) + 1 : i > Len(s) \/ i > Len(t) \/ s[i] # t[i]} IN
                Min(d) <= Len(t) /\ (Min(d) > Len(s) \/ s[Min(d)] < t[Min(d)])
StartsWith(s, prefix) == Len(s) >= Len(prefix) /\ SubSeq(s, 1, Len(prefix)) = prefix
PrefixText(o) == Joined(o.prefix) \o (IF o.slash THEN <<Slash>> ELSE <<>>)
Page(found, limit, more) == [entries |-> found, cursor |-> IF more THEN {Last(found)} ELSE {}]

\* One walk, as [stop, found]; the visitor's false ends the whole walk, be it
\* that an entry does not match, that it is before the cursor, or that there are enough.
Visited(w, k, o, filter) ==
  IF (filter # <<>> /\ ~StartsWith(Joined(k), filter)) \/ (o.after # {} /\ \A a \in o.after : ~Before(a, Joined(k)))
  THEN [w EXCEPT !.stop = TRUE]
  ELSE LET found == Append(w.found, Joined(k)) IN [found |-> found, stop |-> Len(found) >= o.limit + 1]
RECURSIVE Walk(_, _, _, _, _)
Walk(files, dir, w, o, filter) ==
  LET inside == {k \in files : Len(k) > Len(dir) /\ SubSeq(k, 1, Len(dir)) = dir}
      names == SetToSortSeq({k[Len(dir) + 1] : k \in inside}, LAMBDA x, y : Locale(x) < Locale(y))
      Next1(v, name) == LET k == Append(dir, name) IN
                        IF v.stop THEN v
                        ELSE IF k \notin files /\ o.recursive THEN Walk(files, k, v, o, filter) ELSE Visited(v, k, o, filter) IN
  FoldLeft(Next1, w, names)
IsDirectory(files, k) == k \in UNION {Parents(f) : f \in files}
LocalList(files, o) ==
  LET inDir == o.slash /\ IsDirectory(files, o.prefix)
      w == Walk(files, IF inDir THEN o.prefix ELSE <<>>, [stop |-> FALSE, found |-> <<>>], o, IF inDir THEN <<>> ELSE PrefixText(o)) IN
  Page(SubSeq(w.found, 1, Min({o.limit, Len(w.found)})), o.limit, Len(w.found) > o.limit)
\* S3Storage.list over ListObjectsV2: keys and common prefixes in order, a token to go on.
UpToSlash(s, prefix) ==
  LET at == {i \in Len(prefix) + 1..Len(s) : s[i] = Slash} IN IF at = {} THEN s ELSE SubSeq(s, 1, Min(at))
S3Items(files, o) ==
  {IF o.recursive THEN Joined(k) ELSE UpToSlash(Joined(k), PrefixText(o)) : k \in {f \in files : StartsWith(Joined(f), PrefixText(o))}}
S3List(files, o) ==
  LET items == SetToSortSeq({s \in S3Items(files, o) : \A a \in o.after : Before(a, s)}, Before) IN
  Page(SubSeq(items, 1, Min({o.limit, Len(items)})), o.limit, Len(items) > o.limit)
List(driver, files, o) == IF driver = "local" THEN LocalList(files, o) ELSE S3List(files, o)
\* A caller that passes each page's cursor back as `after`.
RECURSIVE AllPages(_, _, _)
AllPages(driver, files, o) ==
  LET page == List(driver, files, o) IN
  IF page.cursor = {} THEN page.entries ELSE page.entries \o AllPages(driver, files, [o EXCEPT !.after = page.cursor])

(***************************************************************************)
(* Properties.                                                              *)
(***************************************************************************)
\* Whatever step a move reached, failed at or died after, the object it moves
\* is at one of its two keys, if no other call changed them; moving a key of S3
\* to itself is the exception (local_storage.ts:213-239, storage.ts:118-121).
MovedIsSomewhere ==
  \A c \in Client : call[c].kind = "move" /\ call[c].alone /\ call[c].value # "none" /\ call[c].from # call[c].to =>
    call[c].value \in {Holds(call[c].from), Holds(call[c].to)}
\* What an answered call says it did is there, until another call changes it.
AnswersAreKept ==
  \A c \in Client : LET k == call[c] IN
    k.at = "done" /\ k.alone =>
      /\ k.answer = "ok" /\ k.kind \in {"put", "copy"} => Holds(k.to) = k.value /\ (k.kind = "copy" => Holds(k.from) = k.value)
      /\ k.answer = "ok" /\ k.kind = "move" => Holds(k.from) = "none" /\ (k.from # k.to => Holds(k.to) = k.value)
      /\ k.answer = "not found" => Holds(k.from) = "none"
      /\ k.kind = "delete" /\ k.answer \in {"ok", "false"} => Holds(k.from) = "none"
\* delete() answers true once per object that went away; on S3, which looks
\* first, overlapping calls may both answer true, and none is left uncounted.
DeletesAreCounted == tally.said >= tally.removed /\ (Local => tally.said = tally.removed)
\* An object of S3 is replaced whole; a file at rest is half written only after
\* a writer failed or died, or when a file was copied while it was being written.
TornIsExplained ==
  \A k \in Object : Holds(k) = "torn" =>
    Local /\ (tally.faults > 0 \/ tally.torn \/ \E c \in Client : call[c].at = "fill")

Opts(k, s, l, r) == [prefix |-> k, slash |-> s, after |-> {}, limit |-> l, recursive |-> r]
OnePage(files, o) == List("local", files, [o EXCEPT !.limit = Cardinality(Tree) + 1]).entries
\* The pages of S3 joined are every object or directory under the prefix, once.
\* Those of the filesystem are the first page and no more, because the walk of a
\* later page stops at its first entry (unless the directory's order is not the
\* cursor's: then they may repeat); with a limit none exceeds, both list the same
\* keys (local_storage.ts:243-290, 320-362, s3_storage.ts:246-287).
PagesOfListings ==
  \A files \in SUBSET Tree, limit \in 1..2, recursive \in BOOLEAN :
    (\A k, j \in files : k \notin Parents(j)) =>
    \A k \in {<<>>} \cup UNION {Parents(f) : f \in files} :
      LET o == Opts(k, k # <<>>, limit, recursive)
          s3 == AllPages("s3", files, o)
          all == OnePage(files, o)
          local == AllPages("local", files, o) IN
      /\ IsInjective(s3) /\ ToSet(s3) = S3Items(files, o)
      /\ SubSeq(local, 1, Min({limit, Len(all)})) = SubSeq(all, 1, Min({limit, Len(all)}))
      /\ (\A e \in ToSet(all) : ~Before(e, all[1])) => Len(local) <= limit
      /\ (List("local", files, o).cursor = {}) = (Len(all) <= limit)
      /\ recursive => ToSet(all) = ToSet(s3)
Collapse(names) == FoldLeft(LAMBDA p, n : IF n \in {"", "."} THEN p ELSE IF n = ".." THEN (IF p = <<>> THEN <<"outside">> ELSE Front(p)) ELSE Append(p, n), <<>>, names)
\* A path that is accepted names the same key whoever joins and collapses it:
\* it has one spelling and stays under the root; a prefix too, but for its
\* slash (path.ts:40-100).
PathsAreKeys ==
  \A n \in 0..3 : \A names \in [1..n -> {"a", "b", "", ".", ".."}] :
    /\ \A p \in NormalizePath(names) : p = names /\ Collapse(names) = names
    /\ \A p \in NormalizePrefix(names) : p.path = Collapse(names) /\ Len(names) = Len(p.path) + (IF p.slash THEN 1 ELSE 0)
    /\ Collapse(names) = names /\ names # <<>> => NormalizePath(names) = {names}

StorageInv ==
  /\ MovedIsSomewhere
  /\ AnswersAreKept
  /\ DeletesAreCounted
  /\ TornIsExplained
  /\ tally.calls = 0 /\ ~Local /\ (\A k \in Object : disk.at[k] = 0) => PagesOfListings /\ PathsAreKeys
=============================================================================
