------------------------------ MODULE MCServices ------------------------------
(***************************************************************************)
(* The other packages: kernel, HTTP and sign-in, the wire formats of the     *)
(* models, retrieval, schemas and queries, views and storage.                *)
(* Their modules share no state, so one run checks them all, each behaviour *)
(* being of the part it starts with; the others rest in one initial state.  *)
(***************************************************************************)
EXTENDS Naturals, Sequences, TLC

CONSTANTS None, Null,
    p1, p2, p3, Root, Child,
    a1, a2, c1, c2, Caller, SignIn, MaxCalls, MaxFaults,
    r1, r2, Client

VARIABLES
    part,
    deps, providers, booted, isBooted, shuttingDown, signalHandlers, up, appCall, exited, overlapped, appCalls,
    busEntries, busKnown, emits,
    bindings, contextual, instances, objects, binds, cleared, answers,
    routes, groups, trie, added,
    kernelPc, chain, entered, built, ran, pending, terminating, sealed, status, hooked, disposed,
    suite, sessions, accessTokens, links, jar, wallet, request, nextSession, now, signedIn, grants, deletedIds, disturbed, linksRaced,
    owner, messages, last, held, chat, snapshot, chats, era,
    ragMode, vectorStore, created, source, chunks, indexing, kept, spoiled, ragTally, docs, passage,
    catalog, live, migration, applied, edits,
    table, descending, pager, steady, seen, came, clientWrites, pages,
    builders, clauses, first,
    mode, grown, template, engine, cacheDir, render, watch, assets,
    setting, shelf, fileCall, tally

appVars == <<deps, providers, booted, isBooted, shuttingDown, signalHandlers, up, appCall, exited, overlapped, appCalls>>
busVars == <<busEntries, busKnown, emits>>
containerVars == <<bindings, contextual, instances, objects, binds, cleared, answers>>
routerVars == <<routes, groups, trie, added>>
kernelVars == <<kernelPc, chain, entered, built, ran, pending, terminating, sealed, status, hooked, disposed>>
authVars == <<suite, sessions, accessTokens, links, jar, wallet, request, nextSession, now, signedIn, grants, deletedIds, disturbed, linksRaced>>
formatsVars == <<owner, messages, last, held, chat, snapshot, chats, era>>
ragVars == <<ragMode, vectorStore, created, source, chunks, indexing, kept, spoiled, ragTally, docs, passage>>
diffVars == <<catalog, live, migration, applied, edits>>
pagerVars == <<table, descending, pager, steady, seen, came, clientWrites, pages>>
queryVars == <<builders, clauses, first>>
viewVars == <<mode, grown, template, engine, cacheDir, render, watch, assets>>
storageVars == <<setting, shelf, fileCall, tally>>

(***************************************************************************)
(* The kernel.                                                             *)
(***************************************************************************)
Chain == (p1 :> {}) @@ (p2 :> {p1}) @@ (p3 :> {p2})
Graphs == {Chain,
           (p1 :> {p2, p3}) @@ (p2 :> {}) @@ (p3 :> {}),
           (p1 :> {}) @@ (p2 :> {p1}) @@ (p3 :> {p1}),
           (p1 :> {p2}) @@ (p2 :> {p1}) @@ (p3 :> {})}
\* "a" takes a "b"; "c" may be given instead.
Boot == INSTANCE Application WITH
    Provider <- {p1, p2, p3}, handlers <- signalHandlers, call <- appCall, calls <- appCalls,
    App <- Root, Containers <- {Root} \cup Child, Keys <- {"a", "b", "c"}, Deps <- [a |-> <<"b">>, b |-> <<>>, c |-> <<>>],
    MaxBinds <- 2, MaxAnswers <- 3, made <- objects

Pattern(prefix, wild) == [prefix |-> prefix, wild |-> wild]
Bus == INSTANCE EventBus WITH
    EventNames <- {<<"a", "creating">>, <<"a", "b", "c">>}, Cancelable <- {<<"a", "creating">>},
    Patterns <- {Pattern(<<"a">>, "segment"), Pattern(<<>>, "all")}, MaxEntries <- 3, MaxEmits <- 2,
    entries <- busEntries, known <- busKnown

(***************************************************************************)
(* HTTP.                                                                   *)
(***************************************************************************)
S(text) == [kind |-> "static", text |-> text]
P(name) == [kind |-> "param", text |-> name]
O(name) == [kind |-> "optional", text |-> name]
W(name) == [kind |-> "wild", text |-> name]
Paths == {<<>>, <<S("a")>>, <<P("x")>>, <<O("x")>>, <<S("a"), P("x")>>, <<P("x"), S("b")>>, <<W("r")>>,
          <<S("a"), W("r")>>, <<O("x"), S("b"), O("y")>>}
Middleware == <<[class |-> TRUE, hook |-> TRUE]>>
Web == INSTANCE Http WITH
    Methods <- {"GET", "POST"}, Patterns <- Paths, GroupPrefixes <- {<<S("a")>>}, Texts <- {"a", "b"},
    MaxRoutes <- 2, MaxGroups <- 2, MaxLength <- 3,
    Globals <- Middleware, OfRoute <- Middleware, MaxCalls <- 4, pc <- kernelPc, calls <- entered
\* Who comes in by which guard over which routes, with how many ids: one page or two of one
\* browser, two browsers of one user, two users.
Suite(kind, browsers, users, ids, ways) == [driver |-> kind, browsers |-> browsers, users |-> users, ids |-> ids, routes |-> ways]
LinkSuite == Suite("session", {a1}, {c1}, 3, {<<"sendLink">>, <<"consume", "login">>})
Sign == INSTANCE Auth WITH
    Browser <- {a1, a2}, Request <- SignIn, User <- {c1, c2}, NoUser <- None, Policies <- [lead |-> {"update"}],
    Abilities <- {"update", "admin"}, Allowed <- {c1}, Ttl <- 2, MaxTime <- 2,
    rows <- sessions, tokens <- accessTokens, nextId <- nextSession, gone <- deletedIds,
    Suites <- {LinkSuite,
        Suite("session", {a1}, {c1, c2}, 2, {<<"guest", "login">>, <<"touch", "auth">>, <<"login", "regenerate">>}),
        Suite("session", {a1}, {c1}, 3, {<<"login">>, <<"regenerate">>}),
        Suite("session", {a1, a2}, {c1}, 2, {<<"login">>, <<"auth", "killAll", "logout">>}),
        Suite("memory", {a1}, {c1, c2}, 2, {<<"login">>, <<"auth", "policy">>, <<"logout">>}),
        Suite("session", {a1}, {c1}, 3, {<<"login", "mint">>, <<"auth:api", "logout:api">>, <<"auth:api", "policy">>, <<"auth", "revokeAll">>})}

(***************************************************************************)
(* Models and retrieval.                                                   *)
(***************************************************************************)
Formats == INSTANCE BrainDrivers WITH
    Sender <- {a1, a2}, Providers <- {"anthropic", "openai", "responses", "google", "deepseek"},
    UserTurns <- {<<"image", "text">>, <<"audio">>}, ServerTools <- {{}, {"web_fetch"}},
    MaxLength <- 4, MaxRestores <- 1, call <- chat, calls <- chats
\* Two rows, the second of which may be yet to come, batches of one.
Retrieval == INSTANCE Rag WITH
    Row <- {1, 2}, Batch <- 1, Counts <- {0, 2}, Chars <- {"a", " ", ".", "nl"}, MaxWrites <- 1, MaxCalls <- 2,
    MaxDocs <- 3, MaxText <- 6, mode <- ragMode, driver <- vectorStore, row <- source, index <- chunks,
    call <- indexing, settled <- kept, text <- passage, tally <- ragTally

(***************************************************************************)
(* Schemas and queries.                                                    *)
(***************************************************************************)
Field(type, nullable, to) == [type |-> type, nullable |-> nullable, to |-> to]
Table(name, scoped, fields) == [name |-> name, tenanted |-> scoped, fields |-> fields]
TenantTables == {Table("tenant", FALSE, f) : f \in {<<>>, "r" :> Field("id", TRUE, "post")}}
PostTables == {Table("post", scoped, f) : scoped \in BOOLEAN, f \in {<<>>,
            ("x" :> Field("integer", TRUE, None)) @@ ("r" :> Field("id", TRUE, "tenant"))}}
    \cup {Table("post", FALSE, f) : f \in {"x" :> Field("bigserial", FALSE, None), "x" :> Field("text", TRUE, None)}}
Refers(p) == p.tenanted \/ "r" \in DOMAIN p.fields
Registries == {<<t, p>> : t \in TenantTables, p \in PostTables}
              \cup {<<p, t>> : t \in TenantTables, p \in {q \in PostTables : Refers(q)}} \cup {<<t>> : t \in TenantTables}
Options == {[allowDrop |-> d, allowAlter |-> a, renames |-> <<>>] : d, a \in BOOLEAN}
           \cup {[allowDrop |-> TRUE, allowAlter |-> TRUE, renames |-> << <<"post", "tenant">> >>]}

Diff == INSTANCE SchemaDiff WITH TenantTable <- "tenant", MaxEdits <- 2, registry <- catalog, file <- migration
Query == INSTANCE QueryBuilder WITH Value <- {"a", "b"}, Soft <- TRUE, MaxBuilders <- 3, MaxParts <- 2,
    Id <- 1..4, SortValue <- {1, 2}, Tick <- 1, PerPage <- 2, MaxWrites <- 1, MaxPages <- 4, writes <- clientWrites, store <- clauses

(***************************************************************************)
(* Templates and files.                                                    *)
(***************************************************************************)
Pages == INSTANCE Views WITH
    Alphabets <- {<<{"a", "@@", "{{", "}}", "{!!", "!!}"}, 5>>, <<{"@@", "{{", "}}", "--", "@if"}, 6>>,
                  <<{"@if", "@raw", "@endraw", "(", ")", "'", "a", "@@"}, 5>>, <<{"{{", "}}", "'", "esc", "@@"}, 5>>},
    Directives <- {
        <<{<<"text", "">>, <<"if", "p">>, <<"if", "">>, <<"elseif", "q">>, <<"else", "">>, <<"endif", "">>, <<"each", "x">>,
           <<"empty", "">>, <<"endeach", "">>}, 6>>,
        <<{<<"text", "">>, <<"if", "p">>, <<"endif", "">>, <<"each", "x">>, <<"endeach", "">>, <<"for", "x">>, <<"endfor", "">>}, 5>>,
        <<{<<"extends", "layout">>, <<"extends", "own">>, <<"section", "s">>, <<"endsection", "">>, <<"text", "">>, <<"set", "s">>}, 5>>,
        <<{<<"extends", "layout">>, <<"push", "k">>, <<"endpush", "">>, <<"prepend", "k">>, <<"endprepend", "">>, <<"text", "">>,
           <<"include", "part">>, <<"include", "page">>, <<"extends", "loop">>}, 5>>,
        <<{<<"component", "box">>, <<"endcomponent", "">>, <<"text", "">>, <<"section", "s">>, <<"endsection", "">>,
           <<"if", "p">>, <<"endif", "">>}, 6>>},
    Process <- {p1, p2}, Render <- {r1, r2}, ServedBy <- (r1 :> {p1}) @@ (r2 :> {p1, p2}), MaxDepth <- 3, MaxEdits <- [engine |-> 1, watch |-> 3, assets |-> 3],
    file <- template, disk <- cacheDir
Files == INSTANCE Storage WITH
    Object <- {<<"a">>, <<"a", "b">>, <<"b">>}, Content <- {"v"}, MaxCalls <- 2, MaxFaults <- 1,
    Tree <- {<<"a", "b">>, <<"a", "a">>, <<"a-">>, <<"B">>, <<"b", "a", "b">>, <<"a">>},
    disk <- shelf, call <- fileCall

Init ==
    /\ part \in {"boot", "bus", "container", "routes", "kernel", "auth", "formats", "rag", "diff", "pager", "query", "views", "storage"}
    /\ Boot!Init /\ (part # "boot" => deps = Chain)
    /\ Bus!Init /\ Boot!ContainerInit
    /\ Web!RouterInit /\ Web!KernelInit
    /\ Sign!Init /\ (part # "auth" => suite = LinkSuite)
    /\ Formats!Init /\ (part # "formats" => owner = "app")
    /\ Retrieval!Init /\ (part # "rag" => ragMode = "chunk" /\ source[2].v = 1)
    /\ Diff!Init /\ (part # "diff" => catalog = <<Table("tenant", FALSE, <<>>)>>)
    /\ Query!Init /\ (part # "pager" => ~descending /\ \A i \in 1..4 : table[i] = Query!NoRow)
    /\ Pages!Init /\ (part # "views" => mode = "watch")
    /\ Files!Init /\ (part # "storage" => setting.driver = "s3" /\ \A k \in DOMAIN shelf.at : shelf.at[k] = 0)

\* One part runs, the others keep their state.
Next ==
    /\ part' = part
    /\ IF part = "boot" THEN Boot!Next ELSE UNCHANGED appVars
    /\ IF part = "bus" THEN Bus!Next ELSE UNCHANGED busVars
    /\ IF part = "container" THEN Boot!ContainerNext ELSE UNCHANGED containerVars
    /\ IF part = "routes" THEN Web!RouterNext ELSE UNCHANGED routerVars
    /\ IF part = "kernel" THEN Web!KernelNext ELSE UNCHANGED kernelVars
    /\ IF part = "auth" THEN Sign!Next ELSE UNCHANGED authVars
    /\ IF part = "formats" THEN Formats!Next ELSE UNCHANGED formatsVars
    /\ IF part = "rag" THEN Retrieval!Next ELSE UNCHANGED ragVars
    /\ IF part = "diff" THEN Diff!Next ELSE UNCHANGED diffVars
    /\ IF part = "pager" THEN Query!PagerNext ELSE UNCHANGED pagerVars
    /\ IF part = "query" THEN Query!BuilderNext ELSE UNCHANGED queryVars
    /\ IF part = "views" THEN Pages!Next ELSE UNCHANGED viewVars
    /\ IF part = "storage" THEN Files!Next ELSE UNCHANGED storageVars

Spec == Init /\ [][Next]_<<part, appVars, busVars, containerVars, routerVars, kernelVars, authVars,
                          formatsVars, ragVars, diffVars, pagerVars, queryVars, viewVars, storageVars>>

\* The parts that rest are in one state: the part that runs tells two states apart.
PartView ==
    <<part, CASE part = "boot" -> appVars [] part = "bus" -> busVars [] part = "container" -> containerVars
              [] part = "routes" -> routerVars [] part = "kernel" -> kernelVars [] part = "auth" -> authVars
              [] part = "formats" -> formatsVars [] part = "rag" -> ragVars
              [] part = "diff" -> diffVars [] part = "pager" -> pagerVars [] part = "query" -> queryVars
              [] part = "views" -> viewVars [] part = "storage" -> storageVars>>

\* A generated migration applies, reaches the schemas and can be reversed; builders stay
\* what they were, and values stay with their conditions; paging neither skips nor repeats
\* a row that stood still.
DatabaseInv == /\ part = "diff" => Diff!SchemaDiffInv
               /\ part = "query" => Query!BuilderInv
               /\ part = "pager" => Query!PagerInv
\* Providers boot and stop in the order of their dependencies, all or none; a
\* dispatch is a snapshot, a one-shot listener fires once; a singleton is one object
\* and a scoped one an object for each scope.
KernelInv == /\ part = "boot" => Boot!ApplicationInv
             /\ part = "bus" => Bus!EventBusInv
             /\ part = "container" => Boot!ContainerInv
\* A request goes to the route that precedes, its hooks and headers are none lost; it
\* runs as who its browser signed in, and no session or token that was deleted is valid.
HttpInv == /\ part = "routes" => Web!RouterInv
           /\ part = "kernel" => Web!HttpKernelInv
           /\ part = "auth" => Sign!AuthInv
\* A conversation is sent to every provider as it was held; a row's chunks are those of its
\* last vectorize, and retrieval and chunks lose nothing (@strav/rag).  A template shows each
\* of its texts where its directives put it, a cache that was cleared serves what the files
\* then hold, the watch loop catches up; a file that is moved is at one of its two keys, and
\* what a call answered stays true until another call changes it.
ContentInv == /\ part = "formats" => Formats!BrainDriversInv
              /\ part = "rag" => Retrieval!RagInv
              /\ part = "views" => Pages!ViewInv
              /\ part = "storage" => Files!StorageInv
===============================================================================
