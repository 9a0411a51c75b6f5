-------------------------------- MODULE Views --------------------------------
(***************************************************************************)
(* @strav/view: the tokenizer, the compiler and the render chain of .strav  *)
(* templates; the engine's caches in memory and on disk, shared by          *)
(* processes; the asset manifest; and view:build with its watch loop.       *)
(* A behaviour grows one source or one template, or runs one of the three   *)
(* stateful parts.                                                          *)
(***************************************************************************)
EXTENDS Integers, Sequences, FiniteSets, SequencesExt, FiniteSetsExt, TLC

CONSTANTS Alphabets,   \* sets of lexemes sources are made of, each with a bound on their length
          Directives,  \* sets of tokens templates are made of, likewise
          Process, Render,
          ServedBy,    \* render -> the processes that may run it
          MaxDepth,    \* stands for MAX_INCLUDE_DEPTH
          MaxEdits     \* how often the files change, per stateful part: [engine, watch, assets]

VARIABLES mode,
          grown,       \* "source" or "template": [from, max, text]
          file,        \* the version of the template, of the islands or of the manifest
          engine,      \* process -> memory cache, the directory it believes in, its last clear
          disk,        \* the cache directory: version -> "none", "partial" or "full", if it exists
          render,      \* render -> where it is, what it read
          watch,       \* the watch loop
          assets       \* the asset manifest

vars == <<mode, grown, file, engine, disk, render, watch, assets>>

Least(S) == IF S = {} THEN 0 ELSE Min(S)
Only(S) == CHOOSE x \in S : TRUE

(***************************************************************************)
(* tokenize: a source is a sequence of lexemes; "a" stands for word         *)
(* characters, "@if" for a directive's name, "@@" for a newline.            *)
(***************************************************************************)
Newline == "@@"
IsWordChar(s, i) == i <= Len(s) /\ s[i] = "a"
AdvanceLines(s, i, j) == Cardinality({k \in i..j : k \in DOMAIN s /\ s[k] = Newline})
\* Within quotes a backslash hides the next character.
Quote(q, c) == CASE q = "out" -> IF c = "'" THEN "in" ELSE "out"
                 [] q = "in" -> IF c = "esc" THEN "hidden" ELSE IF c = "'" THEN "out" ELSE "in"
                 [] q = "hidden" -> "in"
Plain(s, from, j) == FoldLeft(Quote, "out", SubSeq(s, from, j - 1)) = "out"
FindMatchingClose(s, from) == Least({j \in from..Len(s) : s[j] = "}}" /\ Plain(s, from, j)})
Deep(s, from, j) == Cardinality({k \in from..j : s[k] = "(" /\ Plain(s, from, k)})
                    - Cardinality({k \in from..j : s[k] = ")" /\ Plain(s, from, k)})
FindMatchingParen(s, start) == Least({j \in start..Len(s) : s[j] = ")" /\ Plain(s, start, j) /\ Deep(s, start, j) = 0})
FindRawClose(s, from) == Least({j \in from..Len(s) : s[j] = "@endraw" /\ ~IsWordChar(s, j + 1)})

FlushText(t) == IF t.buffer = <<>> THEN t
                ELSE [t EXCEPT !.tokens = Append(@, [type |-> "text", value |-> t.buffer, line |-> t.textLine, from |-> 0, to |-> 0]), !.buffer = <<>>]
Fail(t) == [t EXCEPT !.error = TRUE]
\* A token from i to j, with the text before it flushed; the next text starts behind it.
\* `from` and `to` (0 for text outside @raw) are the model's.
Take(s, t, type, value, j) ==
  LET f == FlushText(t)  line == t.line + AdvanceLines(s, t.i, j) IN
  [f EXCEPT !.tokens = Append(@, [type |-> type, value |-> value, line |-> t.line, from |-> t.i, to |-> j]), !.i = j + 1, !.line = line, !.textLine = line]
Comment(s, t) ==
  LET j == Least({k \in t.i + 2..Len(s) - 1 : s[k] = "--" /\ s[k + 1] = "}}"}) IN
  IF j = 0 THEN Fail(t) ELSE [t EXCEPT !.i = j + 2, !.line = @ + AdvanceLines(s, t.i, j)]
RawInterpolation(s, t) ==
  LET j == Least({k \in t.i + 1..Len(s) : s[k] = "!!}"}) IN
  IF j = 0 THEN Fail(t) ELSE Take(s, t, "raw", SubSeq(s, t.i + 1, j - 1), j)
Escaped(s, t) ==
  LET j == FindMatchingClose(s, t.i + 1) IN
  IF j = 0 THEN Fail(t) ELSE Take(s, t, "escaped", SubSeq(s, t.i + 1, j - 1), j)
Directive(s, t) ==
  LET open == t.i < Len(s) /\ s[t.i + 1] = "("
      j == IF open THEN FindMatchingParen(s, t.i + 1) ELSE t.i IN
  CASE j = 0 -> Fail(t)
    [] j > 0 /\ s[t.i] = "@raw" ->
         LET z == FindRawClose(s, j + 1) IN
         IF z = 0 THEN Fail(t) ELSE Take(s, t, "text", SubSeq(s, j + 1, z - 1), z)
    [] j > 0 /\ s[t.i] = "@endraw" -> Fail(t)
    [] OTHER -> Take(s, t, "directive", SubSeq(s, t.i, j), j)
Char(s, t) == [t EXCEPT !.buffer = Append(@, s[t.i]), !.i = @ + 1, !.line = @ + AdvanceLines(s, t.i, t.i)]
RECURSIVE Scan(_, _)
Scan(s, t) ==
  IF t.error \/ t.i > Len(s) THEN FlushText(t)
  ELSE Scan(s, CASE s[t.i] = "{{" /\ t.i < Len(s) /\ s[t.i + 1] = "--" -> Comment(s, t)
                 [] s[t.i] = "{!!" -> RawInterpolation(s, t)
                 [] s[t.i] = "{{" /\ ~(t.i < Len(s) /\ s[t.i + 1] = "--") -> Escaped(s, t)
                 [] s[t.i] \in {"@if", "@raw", "@endraw"} /\ ~IsWordChar(s, t.i + 1) -> Directive(s, t)
                 [] OTHER -> Char(s, t))
Tokenize(s) == Scan(s, [i |-> 1, line |-> 1, buffer |-> <<>>, textLine |-> 1, tokens |-> <<>>, error |-> FALSE])

(***************************************************************************)
(* compile: tokens <<name, argument>> to lines of JavaScript, <<kind,       *)
(* argument>>; "" is no argument.                                           *)
(***************************************************************************)
Emit(c, lines) == [c EXCEPT !.lines = @ \o lines]
Throw(c) == [c EXCEPT !.error = TRUE]
ExpectOpen(c, kind) == c.blocks # <<>> /\ Last(c.blocks).kind = kind
RequireArgs(c, tok) == IF tok[2] = "" THEN Throw(c) ELSE c
Opened(c, kind, arg, lines) == Emit([c EXCEPT !.blocks = Append(@, [kind |-> kind, arg |-> arg, empty |-> FALSE])], lines)
Closed(c, kind, lines) == IF ExpectOpen(c, kind) THEN Emit([c EXCEPT !.blocks = Front(@)], lines) ELSE Throw(c)
Within(c, kind, lines) == IF ExpectOpen(c, kind) THEN Emit(c, lines) ELSE Throw(c)

Conditional(c, tok) ==
  CASE tok[1] = "if" -> RequireArgs(Opened(c, "if", tok[2], <<<<"if", tok[2]>>>>), tok)
    [] tok[1] = "elseif" -> RequireArgs(Within(c, "if", <<<<"else if", tok[2]>>>>), tok)
    [] tok[1] = "else" -> Within(c, "if", <<<<"else", "">>>>)
    [] tok[1] = "endif" -> Closed(c, "if", <<<<"}", "">>>>)
\* @each opens a block, an if and a for; @empty closes the for and turns the if.
Loop(c, tok) ==
  CASE tok[1] = "for" -> RequireArgs(Opened(c, "for", tok[2], <<<<"for", tok[2]>>>>), tok)
    [] tok[1] = "endfor" -> Closed(c, "for", <<<<"}", "">>>>)
    [] tok[1] = "each" -> RequireArgs(Opened(c, "each", tok[2], <<<<"{", "">>, <<"if any", tok[2]>>, <<"for again", tok[2]>>>>), tok)
    [] tok[1] = "empty" -> LET d == Within(c, "each", <<<<"}", "">>, <<"else", "">>>>) IN
                           IF d.error THEN d ELSE [d EXCEPT !.blocks[Len(d.blocks)].empty = TRUE]
    [] tok[1] = "endeach" ->
         LET close == <<"}", "">> IN
         Closed(c, "each", IF ExpectOpen(c, "each") /\ Last(c.blocks).empty THEN <<close, close>> ELSE <<close, close, close>>)
\* @section, @push, @prepend and @component catch the output of their body.
Capture(c, tok) == RequireArgs(Opened(c, tok[1], tok[2], <<<<"capture", "">>>>), tok)
Ender == "endsection" :> "section" @@ "endpush" :> "push" @@ "endprepend" :> "prepend" @@ "endcomponent" :> "component"
Captured(c, tok) ==
  LET kind == Ender[tok[1]] IN Closed(c, kind, IF ExpectOpen(c, kind) THEN <<<<kind, Last(c.blocks).arg>>>> ELSE <<>>)
Extends(c, tok) == IF tok[2] = "" \/ c.layout # "" THEN Throw(c) ELSE [c EXCEPT !.layout = tok[2]]
\* @set, @yield, @include, @stack and the helpers are one line each.
Simple(c, tok) == RequireArgs(Emit(c, <<tok>>), tok)
CompileToken(c, tok) ==
  CASE c.error -> c
    [] ~c.error /\ tok[1] \in {"text", "raw", "set", "yield", "include", "stack"} -> Simple(c, tok)
    [] ~c.error /\ tok[1] \in {"if", "elseif", "else", "endif"} -> Conditional(c, tok)
    [] ~c.error /\ tok[1] \in {"for", "endfor", "each", "empty", "endeach"} -> Loop(c, tok)
    [] ~c.error /\ tok[1] \in {"section", "push", "prepend", "component"} -> Capture(c, tok)
    [] ~c.error /\ tok[1] \in DOMAIN Ender -> Captured(c, tok)
    [] ~c.error /\ tok[1] = "extends" -> Extends(c, tok)
    [] OTHER -> Throw(c)
Compiling(tokens) == FoldLeft(CompileToken, [lines |-> <<>>, blocks |-> <<>>, layout |-> "", error |-> FALSE], tokens)
\* new Function(source): every brace closes, an else follows an if.
Openers == {"if", "if any", "for", "for again", "{", "capture"}
Closers == {"}", "section", "push", "prepend", "component"}
Brace(open, line) ==
  LET closes == open # <<>>
      turns == closes /\ Last(open) \in {"if", "if any", "else if"} IN
  CASE "bad" \in ToSet(open) -> open
    [] "bad" \notin ToSet(open) /\ line[1] \in Openers -> Append(open, line[1])
    [] "bad" \notin ToSet(open) /\ line[1] \in Closers -> IF closes THEN Front(open) ELSE <<"bad">>
    [] "bad" \notin ToSet(open) /\ line[1] \in {"else", "else if"} -> IF turns THEN Append(Front(open), line[1]) ELSE <<"bad">>
    [] OTHER -> open
Parses(lines) == FoldLeft(Brace, <<>>, lines) = <<>>
Compile(tokens) ==
  LET c == Compiling(tokens) IN
  [lines |-> c.lines, layout |-> c.layout, error |-> c.error \/ c.blocks # <<>> \/ ~Parses(c.lines)]

(***************************************************************************)
(* The render chain.  `s` is what one render() shares: output, what outer   *)
(* captures hold back, sections, stacks, has it thrown?                     *)
(***************************************************************************)
Library(page) == "page" :> page @@
  "layout" :> <<<<"text", "L">>, <<"yield", "s">>, <<"stack", "k">>>> @@
  "own" :> <<<<"section", "s">>, <<"text", "O">>, <<"endsection", "">>, <<"yield", "s">>>> @@
  "loop" :> <<<<"extends", "loop">>>> @@
  "part" :> <<<<"text", "P">>, <<"push", "k">>, <<"text", "Q">>, <<"endpush", "">>>> @@
  "box" :> <<<<"text", "[">>, <<"raw", "slot">>, <<"text", "]">>>>
Net(lines, i, j) == Cardinality({k \in i..j : lines[k][1] \in Openers}) - Cardinality({k \in i..j : lines[k][1] \in Closers})
Closer(lines, i) == Min({k \in i + 1..Len(lines) : lines[k][1] \in Closers /\ Net(lines, i + 1, k - 1) = 0})
Turn(lines, i) == Min({k \in i + 1..Len(lines) : lines[k][1] \in Closers \cup {"else", "else if"} /\ Net(lines, i + 1, k - 1) = 0})
At(f, name, none) == IF name \in DOMAIN f THEN f[name] ELSE none
\* A capture ends: its body goes where `to` puts it, and the output goes on as before.
Release(s, to(_, _)) == [to([s EXCEPT !.out = Last(s.outers), !.outers = Front(@)], s.out) EXCEPT !.error = s.error]

RECURSIVE Exec(_, _, _, _, _, _), RenderChain(_, _, _, _, _)
\* What a line other than a block does: the functions of buildContext.
Line(l, s, page, data, depth) ==
  LET Nested(name, props) ==
        LET r == RenderChain(name, [s EXCEPT !.out = <<>>, !.outers = <<>>], page, props, depth + 1) IN
        [r EXCEPT !.out = s.out \o r.out, !.outers = s.outers]
      Section(t, body) == [t EXCEPT !.sections = (l[2] :> body) @@ @]
      Stack(t, list) == [t EXCEPT !.stacks = (l[2] :> list) @@ @]
      PushBody(t, body) == Stack(t, Append(At(t.stacks, l[2], <<>>), body))
      PrependBody(t, body) == Stack(t, <<body>> \o At(t.stacks, l[2], <<>>)) IN
  CASE l[1] = "text" -> [s EXCEPT !.out = Append(@, l[2])]
    [] l[1] = "raw" -> [s EXCEPT !.out = @ \o data.slot]
    [] l[1] = "set" -> Section(s, <<"set">>)
    [] l[1] = "yield" -> [s EXCEPT !.out = @ \o At(s.sections, l[2], <<"fallback">>)]
    [] l[1] = "stack" -> [s EXCEPT !.out = @ \o FlattenSeq(At(s.stacks, l[2], <<>>))]
    [] l[1] = "capture" -> [s EXCEPT !.outers = Append(@, s.out), !.out = <<>>]
    [] l[1] = "section" -> Release(s, Section)
    [] l[1] = "push" -> Release(s, PushBody)
    [] l[1] = "prepend" -> Release(s, PrependBody)
    [] l[1] = "include" -> Nested(l[2], [data EXCEPT !.slot = <<>>])
    [] l[1] = "component" ->
         LET r == RenderChain(l[2], [s EXCEPT !.out = <<>>, !.outers = <<>>], page, [data EXCEPT !.slot = s.out], depth + 1) IN
         [r EXCEPT !.out = Last(s.outers) \o r.out, !.outers = Front(s.outers)]
    [] OTHER -> s
\* Array.from in the test of @each drains a one-shot iterable before the loop reads it.
Times(line, data) == IF line = "for again" /\ data.oneShot THEN 0 ELSE data.size
Holds(l, data) == IF l[1] = "if any" THEN data.size > 0 ELSE l[2] \in data.true
Exec(lines, i, j, s, page, d) ==
  IF i > j \/ s.error THEN s
  ELSE LET l == lines[i]
           z == Closer(lines, i)
           e == Turn(lines, i)
           Round(t, n) == Exec(lines, i + 1, z - 1, t, page, d)
           Branch == CASE Holds(l, d.data) -> Exec(lines, i + 1, e - 1, s, page, d)
                       [] ~Holds(l, d.data) /\ lines[e][1] = "else" -> Exec(lines, e + 1, z - 1, s, page, d)
                       [] ~Holds(l, d.data) /\ lines[e][1] = "else if" -> Exec(lines, e, z, s, page, d)
                       [] OTHER -> s IN
  CASE l[1] \in {"if", "else if", "if any"} -> Exec(lines, z + 1, j, Branch, page, d)
    [] l[1] \in {"for", "for again"} ->
         Exec(lines, z + 1, j, FoldLeft(Round, s, [n \in 1..Times(l[1], d.data) |-> n]), page, d)
    [] OTHER -> Exec(lines, i + 1, j, Line(l, s, page, d.data, d.depth), page, d)
\* The child first, then its layout with the same sections and stacks.
RenderChain(name, s, page, data, depth) ==
  LET compiled == Compile(Library(page)[name]) IN
  IF depth > MaxDepth \/ compiled.error THEN [s EXCEPT !.error = TRUE]
  ELSE LET r == Exec(compiled.lines, 1, Len(compiled.lines), s, page, [data |-> data, depth |-> depth]) IN
       IF r.error \/ compiled.layout = "" THEN r ELSE RenderChain(compiled.layout, [r EXCEPT !.out = <<>>], page, data, depth + 1)
Rendered(page, data) ==
  RenderChain("page", [out |-> <<>>, outers |-> <<>>, sections |-> <<>>, stacks |-> <<>>, error |-> FALSE], page, data, 0)

(***************************************************************************)
(* compileTemplate in processes that share the directory of the disk cache. *)
(* An entry's name is the hash of the source, so entries are per version.   *)
(***************************************************************************)
Version == 0..MaxEdits.engine
Cold(v) == [memory |-> {}, ensured |-> FALSE, cleared |-> v, raced |-> FALSE]
Idle == [at |-> "idle", process |-> CHOOSE p \in Process : TRUE, got |-> 0, since |-> 0]
InFlight(p, places) == {r \in Render : render[r].at \in places /\ render[r].process = p}

Ask(r, p) ==
  /\ render[r].at \in {"idle", "shown"}
  /\ LET asked == [at |-> "read", process |-> p, got |-> 0,
                   since |-> IF engine[p].raced THEN 0 ELSE engine[p].cleared] IN
     render' = [render EXCEPT ![r] = IF engine[p].memory = {} THEN asked
                                     ELSE [asked EXCEPT !.at = "shown", !.got = Only(engine[p].memory)]]
  /\ UNCHANGED <<file, engine, disk>>
ReadSource(r) ==
  /\ render[r].at = "read"
  /\ render' = [render EXCEPT ![r].at = "lookup", ![r].got = file]
  /\ UNCHANGED <<file, engine, disk>>
\* A truncated entry does not parse: DiskCache.read answers a miss.
Readable(v) == disk.entry[v] = "full"
Lookup(r) ==
  /\ render[r].at = "lookup"
  /\ engine' = [engine EXCEPT ![render[r].process].memory = {render[r].got}]
  /\ render' = [render EXCEPT ![r].at = IF Readable(render[r].got) THEN "shown" ELSE "mkdir"]
  /\ UNCHANGED <<file, disk>>
\* DiskCache.write: ensureDir, then a file opened empty and filled; its errors are swallowed.
EnsureDir(r) ==
  /\ render[r].at = "mkdir"
  /\ render' = [render EXCEPT ![r].at = "open"]
  /\ engine' = [engine EXCEPT ![render[r].process].ensured = TRUE]
  /\ disk' = [disk EXCEPT !.there = @ \/ ~engine[render[r].process].ensured]
  /\ UNCHANGED file
OpenEntry(r) ==
  /\ render[r].at = "open"
  /\ render' = [render EXCEPT ![r].at = IF disk.there THEN "fill" ELSE "shown"]
  /\ disk' = IF disk.there THEN [disk EXCEPT !.entry[render[r].got] = "partial"] ELSE disk
  /\ UNCHANGED <<file, engine>>
FillEntry(r) ==
  /\ render[r].at \in {"fill", "unlinked"}
  /\ render' = [render EXCEPT ![r].at = "shown"]
  /\ disk' = [disk EXCEPT !.entry[render[r].got] = IF render[r].at = "fill" THEN "full" ELSE @]
  /\ UNCHANGED <<file, engine>>
Edit == file < MaxEdits.engine /\ file' = file + 1 /\ UNCHANGED <<engine, disk, render>>
\* clearCache() and clearDiskCache(); view:clear calls both.
ClearCache(p) ==
  /\ engine' = [engine EXCEPT ![p].memory = {}, ![p].cleared = file, ![p].raced = InFlight(p, {"lookup"}) # {}]
  /\ UNCHANGED <<file, disk, render>>
Swept == [there |-> FALSE, entry |-> [v \in Version |-> "none"]]
ClearDiskCache(p) ==
  /\ disk' = Swept
  /\ engine' = [engine EXCEPT ![p].ensured = FALSE]
  /\ render' = [r \in Render |-> IF render[r].at = "fill" THEN [render[r] EXCEPT !.at = "unlinked"] ELSE render[r]]
  /\ UNCHANGED file
Restart(p) ==
  /\ engine' = [engine EXCEPT ![p] = Cold(file)]
  /\ render' = [r \in Render |-> IF render[r].process = p THEN Idle ELSE render[r]]
  /\ UNCHANGED <<file, disk>>
EngineNext ==
  \/ \E r \in Render : \/ \E p \in ServedBy[r] : Ask(r, p)
                       \/ ReadSource(r) \/ Lookup(r) \/ EnsureDir(r) \/ OpenEntry(r) \/ FillEntry(r)
  \/ \E p \in Process : ClearCache(p) \/ ClearDiskCache(p) \/ Restart(p)
  \/ Edit

(***************************************************************************)
(* view:build --watch.  `seen` is what the last build read, `late` says     *)
(* that the sources changed after the first build read them and before the  *)
(* watchers were there.                                                     *)
(***************************************************************************)
FirstBuild == [watching |-> FALSE, event |-> FALSE, timer |-> FALSE, running |-> TRUE, read |-> FALSE,
               pending |-> FALSE, seen |-> 0, bundle |-> 0, late |-> FALSE]
ChangeSources ==
  /\ file < MaxEdits.watch
  /\ file' = file + 1
  /\ watch' = [watch EXCEPT !.event = watch.watching, !.late = @ \/ (~watch.watching /\ (watch.read \/ ~watch.running))]
\* An event of a watcher restarts the debounce.
Trigger == watch.event /\ watch' = [watch EXCEPT !.event = FALSE, !.timer = TRUE] /\ UNCHANGED file
Begin(w) == [w EXCEPT !.running = TRUE, !.read = FALSE]
\* Mutation of Rebuild: a rebuild asked for during a build is dropped.
RebuildDropped(w) == IF w.running THEN w ELSE Begin(w)
Rebuild(w) == IF w.running THEN [w EXCEPT !.pending = TRUE] ELSE Begin(w)
Debounced == watch.timer /\ watch' = Rebuild([watch EXCEPT !.timer = FALSE]) /\ UNCHANGED file
ReadSources ==
  /\ watch.running /\ ~watch.read
  /\ watch' = [watch EXCEPT !.read = TRUE, !.seen = file, !.late = FALSE]
  /\ UNCHANGED file
\* runOnce ends, well or not; what came meanwhile is built once more.
RunOnceEnds(ok) ==
  /\ watch.running /\ watch.read
  /\ LET done == [watch EXCEPT !.running = FALSE, !.read = FALSE, !.bundle = IF ok THEN watch.seen ELSE @] IN
     watch' = IF done.pending THEN Rebuild([done EXCEPT !.pending = FALSE]) ELSE done
  /\ UNCHANGED file
StartWatching ==
  /\ ~watch.watching /\ ~watch.running
  /\ watch' = [watch EXCEPT !.watching = TRUE]
  /\ UNCHANGED file
WatchNext == ChangeSources \/ Trigger \/ Debounced \/ ReadSources \/ (\E ok \in BOOLEAN : RunOnceEnds(ok)) \/ StartWatching

(***************************************************************************)
(* AssetManifest.  `file` is the version of the manifest on disk, 0 before  *)
(* the first build; url is what version() cached for a path, {} for none,   *)
(* {0} for the address without a fingerprint.                               *)
(***************************************************************************)
NoAssets == [manifest |-> 0, loaded |-> FALSE, loading |-> {}, url |-> {}, since |-> 0, raced |-> FALSE]
BuildAssets == file < MaxEdits.assets /\ file' = file + 1 /\ UNCHANGED assets
\* load(): the flag is set before the file is read.
Load ==
  /\ ~assets.loaded
  /\ assets' = IF file = 0 THEN [assets EXCEPT !.loaded = TRUE, !.manifest = 0]
               ELSE [assets EXCEPT !.loaded = TRUE, !.loading = @ \cup {file}]
  /\ UNCHANGED file
LoadEnds(v) ==
  /\ assets' = [assets EXCEPT !.loading = @ \ {v}, !.manifest = v]
  /\ UNCHANGED file
\* version(): the first call reads the manifest; its answer is cached.
AskVersion ==
  /\ assets.url = {}
  /\ LET m == IF assets.loaded THEN assets.manifest ELSE file IN
     assets' = [assets EXCEPT !.loaded = TRUE, !.manifest = m, !.url = {m}, !.raced = @ \/ assets.loading # {}]
  /\ UNCHANGED file
Reload ==
  /\ assets' = [assets EXCEPT !.url = {}, !.manifest = 0, !.loaded = FALSE, !.since = file, !.raced = assets.loading # {}]
  /\ UNCHANGED file
AssetsNext == BuildAssets \/ Load \/ (\E v \in assets.loading : LoadEnds(v)) \/ AskVersion \/ Reload

(***************************************************************************)
(* Pages, islands and stylesheets: from files to names and addresses.       *)
(***************************************************************************)
Segments == {"index", "about", "[slug]", "[...path]", "v1.2", "_x"}
SplitDots(seg) == CASE seg = "v1.2" -> <<"v1", "2">> [] seg = "[...path]" -> <<"[", "", "", "path]">> [] OTHER -> <<seg>>
Paths(segments, n) == UNION {[1..k -> segments] : k \in 1..n}
UrlPart(seg) == CASE seg = "index" -> <<>> [] seg = "[...path]" -> <<"*">> [] seg = "[slug]" -> <<":slug">> [] OTHER -> <<seg>>
\* A page's template name is written with dots, and resolvePath reads every dot as a directory.
FileToPage(path) ==
  IF "_x" \in ToSet(path) THEN {}
  ELSE {[template |-> <<"pages">> \o path, url |-> FlattenSeq([i \in DOMAIN path |-> UrlPart(path[i])])]}
ResolvePath(name) == FlattenSeq([i \in DOMAIN name |-> SplitDots(name[i])])

\* A source is [namespace, files]; the islands' names, or the error of a name found twice.
IslandName(source, path) == (IF source.namespace = "" THEN <<>> ELSE <<source.namespace>>) \o FlattenSeq([i \in DOMAIN path |-> SplitDots(path[i])])
BuildIslands(sources) ==
  LET spaces == [i \in DOMAIN sources |-> sources[i].namespace]
      all == FlattenSeq([i \in DOMAIN sources |-> [k \in DOMAIN sources[i].files |-> IslandName(sources[i], sources[i].files[k])]]) IN
  [error |-> Cardinality(ToSet(spaces)) < Len(sources) \/ Cardinality(ToSet(all)) < Len(all), islands |-> all]

\* An input is <<directory, basename, does it exist?>>.
LinkedSheets(inputs) == [i \in DOMAIN inputs |-> inputs[i][2]]
BuiltSheets(inputs) ==
  LET there == SelectSeq(inputs, LAMBDA e : e[3]) IN
  FoldLeft(LAMBDA out, e : (e[2] :> e) @@ out, [n \in {} |-> {}], there)

(***************************************************************************)
(* Behaviours: a source or a template grows by one lexeme or one token, or  *)
(* one of the stateful parts runs.                                          *)
(***************************************************************************)
NothingGrown == [from |-> {}, max |-> 0, text |-> <<>>]
Growing(from) == [from |-> from[1], max |-> from[2], text |-> <<>>]
Init ==
  /\ mode \in {"source", "template", "engine", "watch", "assets"}
  /\ grown \in CASE mode = "source" -> {Growing(a) : a \in Alphabets}
                 [] mode = "template" -> {Growing(a) : a \in Directives}
                 [] OTHER -> {NothingGrown}
  /\ file = 0
  /\ engine = [p \in Process |-> Cold(0)]
  /\ disk = Swept
  /\ render = [r \in Render |-> Idle]
  /\ watch = FirstBuild
  /\ assets = NoAssets
\* A text is known by its place.
Placed(tok, i) == IF tok[1] = "text" THEN <<"text", ToString(i)>> ELSE tok
Grow(x) ==
  /\ Len(grown.text) < grown.max
  /\ mode = "template" => ~Compiling(grown.text).error
  /\ grown' = [grown EXCEPT !.text = Append(@, IF mode = "template" THEN Placed(x, Len(@) + 1) ELSE x)]
  /\ UNCHANGED <<mode, file, engine, disk, render, watch, assets>>
Next ==
  \/ \E x \in grown.from : Grow(x)
  \/ mode = "engine" /\ EngineNext /\ UNCHANGED <<mode, grown, watch, assets>>
  \/ mode = "watch" /\ WatchNext /\ UNCHANGED <<mode, grown, engine, disk, render, assets>>
  \/ mode = "assets" /\ AssetsNext /\ UNCHANGED <<mode, grown, engine, disk, render, watch>>
Spec == Init /\ [][Next]_vars

(***************************************************************************)
(* The tokenizer.                                                           *)
(***************************************************************************)
RECURSIVE Uncommented(_)
Uncommented(g) ==
  LET Ends(i) == {k \in i + 2..Len(g) - 1 : g[k] = "--" /\ g[k + 1] = "}}"}
      Starts == {i \in 1..Len(g) - 1 : g[i] = "{{" /\ g[i + 1] = "--"}
      a == Min(Starts) IN
  IF Starts = {} THEN g ELSE SubSeq(g, 1, a - 1) \o Uncommented(SubSeq(g, Min(Ends(a)) + 2, Len(g)))
IsPlaced(k) == k.from > 0
Quoted(v) == FoldLeft(Quote, "out", v) # "out"
TextsBetween(s, placed) ==
  LET To(i) == IF i = 0 THEN 0 ELSE placed[i].to
      From(i) == IF i > Len(placed) THEN Len(s) + 1 ELSE placed[i].from IN
  SelectSeq([i \in 1..Len(placed) + 1 |-> Uncommented(SubSeq(s, To(i - 1) + 1, From(i) - 1))], LAMBDA g : g # <<>>)
TokensCover(s, placed, found) ==
  /\ [i \in DOMAIN found |-> found[i].value] = TextsBetween(s, placed)
  /\ \A i \in DOMAIN placed : placed[i].line = 1 + AdvanceLines(s, 1, placed[i].from - 1)
  /\ \A i \in DOMAIN placed : placed[i].type = "escaped" =>
       LET v == placed[i].value IN
       ~Quoted(v) /\ \A k \in DOMAIN v : v[k] = "}}" => Quoted(SubSeq(v, 1, k - 1))
Covers(s, t) == t.error \/ TokensCover(s, SelectSeq(t.tokens, IsPlaced), SelectSeq(t.tokens, LAMBDA k : ~IsPlaced(k)))
\* The text between two interpolations or directives is what the source has
\* between them without its comments, none of the source is lost or read
\* twice, every interpolation and directive carries the line it is on, and an
\* interpolation ends at its first close outside a string (tokenizer.ts:119-283).
SourceTokenized == Covers(grown.text, Tokenize(grown.text))

(***************************************************************************)
(* The compiler, against the brackets of the template.                      *)
(***************************************************************************)
Starters == {"if", "for", "each", "section", "push", "prepend", "component"}
Enders == [if |-> "endif", for |-> "endfor", each |-> "endeach", section |-> "endsection", push |-> "endpush",
           prepend |-> "endprepend", component |-> "endcomponent"]
Begins(t, i) == t[i][1] \in Starters
Level(t, i) == Cardinality({k \in 1..i : t[k][1] \in Starters}) - Cardinality({k \in 1..i : t[k][1] \in {Enders[s] : s \in Starters}})
EndOf(t, o) == Least({k \in o..Len(t) : Level(t, k) < Level(t, o)})
Around(t, p) == {o \in 1..p - 1 : Begins(t, o) /\ EndOf(t, o) > p}
BlockOf(t, p) == Least({o \in Around(t, p) : \A q \in Around(t, p) : q <= o})
Turns(t, o, names) == {k \in o..EndOf(t, o) : t[k][1] \in names /\ BlockOf(t, k) = o}
WellNested(t) ==
  /\ \A o \in DOMAIN t : Begins(t, o) => EndOf(t, o) > 0 /\ t[EndOf(t, o)][1] = Enders[t[o][1]]
  /\ \A k \in DOMAIN t : Level(t, k) >= 0
  /\ \A k \in DOMAIN t : t[k][1] \in {"else", "elseif", "empty"} =>
       BlockOf(t, k) > 0 /\ t[BlockOf(t, k)][1] = (IF t[k][1] = "empty" THEN "each" ELSE "if")
  /\ \A o \in DOMAIN t : Begins(t, o) =>
       /\ Cardinality(Turns(t, o, {"empty"})) <= 1
       /\ \A e \in Turns(t, o, {"else"}) : \A k \in Turns(t, o, {"else", "elseif"}) : k <= e
  /\ \A k \in DOMAIN t : t[k][2] = "" => t[k][1] \notin {"if", "elseif", "for", "each"}
  /\ Cardinality({k \in DOMAIN t : t[k][1] = "extends"}) <= 1
\* compile accepts a template, and JavaScript what it emits, exactly when its
\* blocks are well nested and their turns in order: no broken template passes
\* and no sound one is refused (compiler.ts:117-393).
OnlyWellNestedCompiles == Compile(grown.text).error <=> ~WellNested(grown.text)

Datas == [true : SUBSET {"p", "q"}, size : 0..2, oneShot : BOOLEAN, slot : {<<>>}]
\* How often block o shows what stands at p.
Factor(t, o, p, data) ==
  LET heads == {o} \cup Turns(t, o, {"else", "elseif"})
      mine == CHOOSE h \in heads : h < p /\ \A g \in heads : g < p => g <= h
      holds == {h \in heads : t[h][1] = "else" \/ t[h][2] \in data.true}
      again == data.size * (IF data.oneShot THEN 0 ELSE 1) IN
  CASE t[o][1] = "if" -> IF mine = Least(holds) THEN 1 ELSE 0
    [] t[o][1] = "for" -> data.size
    [] t[o][1] = "each" -> IF \E k \in Turns(t, o, {"empty"}) : k < p THEN (IF data.size = 0 THEN 1 ELSE 0) ELSE again
    [] OTHER -> 1
TextsAt(t) == {p \in DOMAIN t : t[p][1] = "text"}
Count(out, x) == Cardinality({i \in DOMAIN out : out[i] = x})
Names(t) == {t[i][1] : i \in DOMAIN t}
\* Each text of a template of conditionals and loops is shown as often as the
\* blocks around it say: the product of their turns, for any data
\* (compiler.ts:117-193; a one-shot iterable is drained by the test of @each).
EachTextAsOften(t) ==
  \A data \in Datas : LET out == Rendered(t, data).out IN
    \A p \in TextsAt(t) : Count(out, t[p][2]) = FoldSet(LAMBDA o, n : n * Factor(t, o, p, data), 1, Around(t, p))
Here == [true |-> {"p"}, size |-> 1, oneShot |-> FALSE, slot |-> <<>>]
\* What a capture at o holds: the texts that are in no capture inside it.
Body(t, o) == LET inside == {p \in DOMAIN t : t[p][1] \in {"text", "include"} /\ BlockOf(t, p) = o}
                  Shows(p) == IF t[p][1] = "text" THEN t[p][2] ELSE "P" IN
              [i \in 1..Cardinality(inside) |-> Shows(SetToSortSeq(inside, <)[i])]
Ended(t, o) == IF Begins(t, o) THEN EndOf(t, o) ELSE o
Writers(t, names) == {o \in DOMAIN t : t[o][1] \in names}
LastWriter(t) == CHOOSE o \in Writers(t, {"section", "set"}) : \A w \in Writers(t, {"section", "set"}) : Ended(t, w) <= Ended(t, o)
Bodies(t, names) == LET in == SetToSortSeq(Writers(t, names), LAMBDA o, w : Ended(t, o) < Ended(t, w)) IN
                    [i \in DOMAIN in |-> IF t[in[i]][1] = "include" THEN <<"Q">> ELSE Body(t, in[i])]
Uses(t, name, arg) == \E i \in DOMAIN t : t[i] = <<name, arg>>
SectionOf(t) == IF Writers(t, {"section", "set"}) = {} THEN <<"fallback">>
                ELSE IF t[LastWriter(t)][1] = "set" THEN <<"set">> ELSE Body(t, LastWriter(t))
StackOf(t) == FlattenSeq(Reverse(Bodies(t, {"prepend"})) \o Bodies(t, {"push", "include"}))
LayoutHolds(t, result) ==
  /\ result.error <=> Uses(t, "include", "page") \/ Uses(t, "extends", "loop")
  /\ ~result.error /\ Uses(t, "extends", "layout") => result.out = <<"L">> \o SectionOf(t) \o StackOf(t)
  /\ ~result.error /\ Uses(t, "extends", "own") => result.out = <<"O">>
\* A page's last @section or @set reaches the layout's @yield, its @pushes
\* stack behind its @prepends, the latest of these first, whatever stands
\* between them; a layout's own @section of that name wins over the page's;
\* a page that includes itself, or a layout its own layout, ends with the
\* error of the depth (view_engine.ts:297-321, 396-433).
LayoutShown(t) == LayoutHolds(t, Rendered(t, Here))
\* A component shows what it encloses between its own marks, where it stands,
\* however sections and conditions nest with it (compiler.ts:329-345).
SlotShown(t) ==
  LET shown == {p \in DOMAIN t : \A o \in Around(t, p) : t[o][1] # "section" /\ Factor(t, o, p, Here) = 1}
      Mark(p) == CASE t[p][1] = "text" -> <<t[p][2]>> [] t[p][1] = "component" -> <<"[">>
                   [] t[p][1] = "endcomponent" -> <<"]">> [] OTHER -> <<>> IN
  Rendered(t, Here).out = FlattenSeq([p \in DOMAIN t |-> IF p \in shown THEN Mark(p) ELSE <<>>])
TemplateShown ==
  LET t == grown.text IN
  /\ OnlyWellNestedCompiles
  /\ WellNested(t) =>
       /\ Names(t) \subseteq {"text", "if", "elseif", "else", "endif", "each", "empty", "endeach", "for", "endfor"} => EachTextAsOften(t)
       /\ Names(t) \cap {"component", "if", "each", "for"} = {} => LayoutShown(t)
       /\ "component" \in Names(t) => SlotShown(t)

(***************************************************************************)
(* The caches.                                                              *)
(***************************************************************************)
\* A render asked after clearCache() shows no version older than the file was
\* at the clear, unless a compilation that had read the file before the clear
\* put its result back after it (view_engine.ts:234, 340-371).
FreshAfterClear == \A r \in Render : render[r].at = "shown" => render[r].got >= render[r].since
\* No rebuild is lost: with the watchers up and nothing pending, the last build
\* read the sources as they are, unless they changed while the first build
\* was running and nothing has changed since (view_build.ts:162-228).
WatchCatchesUp ==
  watch.watching /\ ~watch.event /\ ~watch.timer /\ ~watch.running => (watch.seen = file \/ watch.late) /\ ~watch.pending
\* An address version() caches is no older than the manifest was at the last
\* reload(), unless a load() was reading it meanwhile (asset_manifest.ts:75-147).
AddressIsFresh == assets.url # {} => Only(assets.url) >= assets.since \/ assets.raced

Dotted(path) == \E i \in DOMAIN path : Len(SplitDots(path[i])) > 1
Sources == {<<[namespace |-> n, files |-> f], [namespace |-> m, files |-> g]>> :
              n, m \in {"", "about", "blog"}, f, g \in {<<a>> : a \in Paths({"about", "v1.2"}, 2)}}
Inputs == [1..2 -> ({"d", "e"} \X {"app", "admin"} \X BOOLEAN)]
\* A page without a dot in its path is rendered from its own file, and one with
\* a dot never; two pages share an address only as x and x/index; two sources
\* collide only in a namespace, or where an island without one spells the
\* other's namespace; a linked stylesheet of a basename of its own is built
\* from that input (pages.ts:122-157, view_engine.ts:373-388, 526-543,
\* build_islands.ts:129-186).
NamesMeetTheirFiles ==
  /\ \A path \in Paths(Segments, 3) : \A page \in FileToPage(path) :
       (ResolvePath(page.template) = <<"pages">> \o path) <=> ~Dotted(path)
  /\ \A a, b \in Paths({"index", "about", "[slug]"}, 3) : LET Folder(x) == "index" \notin ToSet(Front(x)) IN
       (\E x \in FileToPage(a), y \in FileToPage(b) : x.url = y.url) /\ Folder(a) /\ Folder(b)
         => a = b \/ a = Append(b, "index") \/ b = Append(a, "index")
  /\ \A s \in Sources : LET built == BuildIslands(s)
           Spelled(i) == FlattenSeq([k \in DOMAIN s[i].files[1] |-> SplitDots(s[i].files[1][k])])
           Shadows(i, j) == s[i].namespace = "" /\ Spelled(i) = <<s[j].namespace>> \o Spelled(j) IN
       built.error <=> s[1].namespace = s[2].namespace \/ Shadows(1, 2) \/ Shadows(2, 1)
  /\ \A in \in Inputs : \A i \in DOMAIN in :
       in[i][3] /\ (\A j \in DOMAIN in : j # i => in[j][2] # in[i][2]) => BuiltSheets(in)[LinkedSheets(in)[i]] = in[i]

ViewInv ==
  /\ mode = "source" => SourceTokenized
  /\ mode = "template" => TemplateShown
  /\ mode = "engine" => FreshAfterClear
  /\ mode = "watch" => WatchCatchesUp
  /\ mode = "assets" => AddressIsFresh
  /\ mode = "assets" /\ assets = NoAssets /\ file = 0 => NamesMeetTheirFiles
=============================================================================
