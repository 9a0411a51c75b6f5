-------------------------------- MODULE Http --------------------------------
(***************************************************************************)
(* @strav/http between the socket and a controller, in two parts that share *)
(* no state.  The router: routes are added under a stack of groups,         *)
(* compiled once into a trie - optional parameters are expanded into        *)
(* patterns with and without them - and matched by a walk that tries        *)
(* static, parameter and wildcard children in this order and collects all   *)
(* it finds; resolveRoute() builds the path of a named route.  The kernel:  *)
(* one request is matched and given a scope, the enrichers and the composed *)
(* middleware run, an error goes to the exception handler, the queued       *)
(* headers are put on the response, and a microtask later the terminate     *)
(* hooks are called and the scope is disposed.  A middleware may call next()*)
(* more than once, and may answer before what it called has ended - a       *)
(* timeout raced against next().                                            *)
(***************************************************************************)
EXTENDS Integers, Sequences, FiniteSets, SequencesExt

CONSTANTS Methods,
          Patterns,   \* the patterns added: sequences of [kind: "static", "param", "optional" or "wild", text]
          GroupPrefixes,   \* the prefixes of groups: sequences of static segments
          Texts,      \* the segments of the paths asked for
          MaxRoutes, MaxGroups, MaxLength, None,  \* bounds: routes, groups, segments of a path
          Globals, OfRoute,  \* the middleware, outermost first: [class: is it one, hook: has it terminate()]
          MaxCalls           \* bound: entries into middleware and handlers

VARIABLES routes,  \* added routes in order: [method, pattern, middleware]
          groups,  \* groupStack: [prefix, middleware], the outermost first
          trie,    \* None until compiled: [names, handlers]
          added    \* the middleware a group brings: its number, so that no two are alike

VARIABLES pc,          \* "matching", "enriching", "running", "reporting", "rendering", "sealing",
                       \* "answered", "ended" or "rejected"
          chain,       \* the middleware of this request
          calls,       \* dispatch(): [at: position in the chain, parent: the call whose next() it is, state,
                       \*               letGo: it ended while a next() of its was running]
          built,       \* middleware instances made for it
          ran,         \* terminating: those with a hook, in the order they were made
          pending,     \* the calls that queued a header, in order
          terminating, \* the copy the kernel took
          sealed,      \* the queued headers put on the response
          status,      \* "none", "handled", "rendered" or "fallback"
          hooked,      \* the hooks called
          disposed     \* of the scope

routerVars == <<routes, groups, trie, added>>
kernelVars == <<pc, chain, calls, built, ran, pending, terminating, sealed, status, hooked, disposed>>
request == <<chain, terminating, sealed, hooked, disposed>>

(* ------------------------------ the router ------------------------------ *)
RouterInit == routes = <<>> /\ groups = <<>> /\ trie = None /\ added = 0

CurrentGroup == IF groups = <<>> THEN [prefix |-> <<>>, middleware |-> <<>>] ELSE Last(groups)

(* group(): its prefix and middleware come after those of the enclosing ones. *)
OpenGroup(prefix) ==
  /\ trie = None /\ added < MaxGroups /\ Len(routes) < MaxRoutes /\ added' = added + 1
  /\ groups' = Append(groups, [prefix |-> CurrentGroup.prefix \o prefix,
                               middleware |-> Append(CurrentGroup.middleware, added + 1)])
  /\ UNCHANGED <<routes, trie>>

(* The callback returns or throws. *)
CloseGroup == groups # <<>> /\ groups' = Front(groups) /\ UNCHANGED <<routes, trie, added>>

(* add(): get(), post() and the others; refused once compiled. *)
Add(method, pattern) ==
  /\ trie = None /\ Len(routes) < MaxRoutes
  /\ routes' = Append(routes, [method |-> method, pattern |-> CurrentGroup.prefix \o pattern,
                               middleware |-> CurrentGroup.middleware])
  /\ UNCHANGED <<groups, trie, added>>

(***************************************************************************)
(* The trie.  A node is the sequence of the edges that lead to it.         *)
(***************************************************************************)
(* expandOptionalParams(). *)
Expand(pattern) ==
  LET With(ps, seg) == [i \in DOMAIN ps |-> Append(ps[i], seg)]
      One(ps, seg) == IF seg.kind = "optional"
                      THEN With(ps, [seg EXCEPT !.kind = "param"]) \o ps
                      ELSE With(ps, seg)
  IN FoldLeft(One, << <<>> >>, pattern)

Edge(seg) == IF seg.kind = "static" THEN seg ELSE [seg EXCEPT !.text = ""]
Node(pattern) == [i \in DOMAIN pattern |-> Edge(pattern[i])]

(* The names an expanded pattern gives the dynamic children it goes through. *)
NamesOn(pattern) ==
  {<<Node(SubSeq(pattern, 1, i)), pattern[i].text>> :
     i \in {j \in DOMAIN pattern : pattern[j].kind # "static"}}

(* What insertExpanded() throws on: an inner wildcard, two names, a duplicate. *)
Refused(t, method, pattern) ==
  \/ \E i \in 1..Len(pattern) - 1 : pattern[i].kind = "wild"
  \/ \E a \in NamesOn(pattern), b \in t.names : a[1] = b[1] /\ a[2] # b[2]
  \/ \E i \in DOMAIN t.handlers : t.handlers[i].node = Node(pattern) /\ t.handlers[i].method = method

InsertExpanded(t, method, pattern, r) ==
  IF t = None \/ Refused(t, method, pattern) THEN None
  ELSE [names |-> t.names \cup NamesOn(pattern),
        handlers |-> Append(t.handlers, [node |-> Node(pattern), method |-> method, route |-> r])]

Insert(t, r) ==
  FoldLeft(LAMBDA u, p : InsertExpanded(u, routes[r].method, p, r), t, Expand(routes[r].pattern))

Built == FoldLeft(Insert, [names |-> {}, handlers |-> <<>>], [i \in DOMAIN routes |-> i])

(* compile(), called at boot or by the first match(): it throws and leaves no trie, or keeps it. *)
Compile ==
  /\ trie = None /\ groups = <<>> /\ routes # <<>>
  /\ trie' = Built
  /\ UNCHANGED <<routes, groups, added>>

HandlersAt(node) == SelectSeq(trie.handlers, LAMBDA h : h.node = node)
ChildName(node) == (CHOOSE n \in trie.names : n[1] = node)[2]
HasChild(node) == \E n \in trie.names : n[1] = node

RECURSIVE Walk(_, _, _)

(* Mutation of Walk: a static child that exists is taken for good. *)
WalkNoBacktrack(node, path, params) ==
  LET Found(n, ps) == [i \in DOMAIN HandlersAt(n) |->
        [route |-> HandlersAt(n)[i].route, method |-> HandlersAt(n)[i].method, params |-> ps]]
      static == Append(node, [kind |-> "static", text |-> Head(path)])
      param == Append(node, [kind |-> "param", text |-> ""])
      wild == Append(node, [kind |-> "wild", text |-> ""])
  IN IF path = <<>> THEN Found(node, params)
     ELSE IF \E i \in DOMAIN trie.handlers : IsPrefix(static, trie.handlers[i].node)
     THEN Walk(static, Tail(path), params)
     ELSE (IF HasChild(param)
           THEN Walk(param, Tail(path), params \cup {<<ChildName(param), <<Head(path)>>>>}) ELSE <<>>)
          \o (IF HasChild(wild) THEN Found(wild, params \cup {<<ChildName(wild), path>>}) ELSE <<>>)
(* walk(): [route, method, params: name and value pairs] in the order they are found. *)
Walk(node, path, params) ==
  LET Found(n, ps) == [i \in DOMAIN HandlersAt(n) |->
        [route |-> HandlersAt(n)[i].route, method |-> HandlersAt(n)[i].method, params |-> ps]]
      static == Append(node, [kind |-> "static", text |-> Head(path)])
      param == Append(node, [kind |-> "param", text |-> ""])
      wild == Append(node, [kind |-> "wild", text |-> ""])
  IN IF path = <<>> THEN Found(node, params)
     ELSE (IF \E i \in DOMAIN trie.handlers : IsPrefix(static, trie.handlers[i].node)
           THEN Walk(static, Tail(path), params) ELSE <<>>)
          \o (IF HasChild(param)
              THEN Walk(param, Tail(path), params \cup {<<ChildName(param), <<Head(path)>>>>}) ELSE <<>>)
          \o (IF HasChild(wild) THEN Found(wild, params \cup {<<ChildName(wild), path>>}) ELSE <<>>)

(* match(): the first candidate with the method, else the methods of them all. *)
Match(method, path) ==
  LET found == Walk(<<>>, path, {})
      mine == SelectSeq(found, LAMBDA c : c.method = method)
  IN IF found = <<>> THEN [kind |-> "not-found"]
     ELSE IF mine # <<>> THEN [kind |-> "found", route |-> Head(mine).route, params |-> Head(mine).params]
     ELSE [kind |-> "method-not-allowed", allowed |-> {found[i].method : i \in DOMAIN found}]

(* resolveRoute(): the path of a route, given a value for each name it is to have. *)
ResolveRoute(pattern, values) ==
  FlattenSeq([i \in DOMAIN pattern |->
    CASE pattern[i].kind = "static" -> <<pattern[i].text>>
      [] OTHER -> IF pattern[i].text \in DOMAIN values THEN values[pattern[i].text] ELSE <<>>])

RouterNext ==
  \/ \E p \in GroupPrefixes : OpenGroup(p)
  \/ CloseGroup
  \/ \E m \in Methods, p \in Patterns : Add(m, p)
  \/ Compile

RouterSpec == RouterInit /\ [][RouterNext]_routerVars

-----------------------------------------------------------------------------
Paths == UNION {[1..n -> Texts] : n \in 0..MaxLength}

(* What the documents say of one pattern and one path: segment by segment, a  *)
(* wildcard taking the rest.                                                  *)
Fits(pattern, path) ==
  LET tail == pattern # <<>> /\ Last(pattern).kind = "wild"
      n == IF tail THEN Len(pattern) - 1 ELSE Len(pattern)
  IN /\ IF tail THEN Len(path) > n ELSE Len(path) = n
     /\ \A i \in 1..n : pattern[i].kind = "static" => pattern[i].text = path[i]

Rank(seg) == CASE seg.kind = "static" -> 1 [] seg.kind = "param" -> 2 [] OTHER -> 3

(* The first segment in which two patterns differ in kind decides. *)
Precedes(p, q) ==
  \E i \in DOMAIN p \cap DOMAIN q :
    Rank(p[i]) < Rank(q[i]) /\ \A j \in 1..i - 1 : Rank(p[j]) = Rank(q[j])

Candidates(path) == {<<r, p>> \in UNION {{r} \X ToSet(Expand(routes[r].pattern)) : r \in DOMAIN routes} : Fits(p, path)}

(* Once compiled, a request is answered by a route of its method that fits,   *)
(* the one no other precedes - static before parameter before wildcard at the *)
(* first segment where they differ - and with the values of its names; 405    *)
(* tells the methods of all that fit, and 404 that none does (trie.ts match). *)
MatchFollowsPrecedence ==
  trie # None =>
    \A path \in Paths, method \in Methods :
      LET c == Candidates(path)
          mine == {x \in c : routes[x[1]].method = method}
          m == Match(method, path)
      IN CASE c = {} -> m.kind = "not-found"
           [] c # {} /\ mine = {} -> m.kind = "method-not-allowed" /\ m.allowed = {routes[x[1]].method : x \in c}
           [] mine # {} ->
                /\ m.kind = "found"
                /\ \E x \in mine : x[1] = m.route /\ (\A y \in mine \ {x} : ~Precedes(y[2], x[2]))
                     /\ {n[1] : n \in m.params} = {n[2] : n \in NamesOn(x[2])}

(* The path resolveRoute() builds for a route leads back to it with the same  *)
(* values, or to a route that precedes it (route_resolver.ts).                *)
PathLeadsBack ==
  trie # None =>
    \A r \in DOMAIN routes :
      LET pattern == routes[r].pattern
          dynamic == {i \in DOMAIN pattern : pattern[i].kind # "static"}
          Needed == {pattern[i].text : i \in {j \in dynamic : pattern[j].kind # "optional"}}
          All == {pattern[i].text : i \in dynamic}
      IN \A given \in {d \in SUBSET All : Needed \subseteq d} :
           \A values \in [given -> {<<t>> : t \in Texts}] :
             LET path == ResolveRoute(pattern, values)
                 m == Match(routes[r].method, path)
             IN /\ m.kind = "found"
                /\ m.route = r => \/ m.params = {<<n, values[n]>> : n \in given}
                                  \/ Cardinality({p \in ToSet(Expand(pattern)) : Fits(p, path)}) > 1
                /\ m.route # r => \E p \in ToSet(Expand(routes[m.route].pattern)), q \in ToSet(Expand(pattern)) :
                                    Fits(p, path) /\ Fits(q, path) /\ Precedes(p, q)

RouterInv == MatchFollowsPrecedence /\ PathLeadsBack

(* ------------------------------ the kernel ------------------------------ *)
KernelInit ==
  /\ pc = "matching" /\ chain = <<>> /\ calls = <<>> /\ built = {} /\ ran = <<>> /\ pending = <<>>
  /\ terminating = <<>> /\ sealed = <<>> /\ status = "none" /\ hooked = <<>> /\ disposed = FALSE

(* match(), and the chain; a path that does not decode, or a middleware name    *)
(* nobody registered, is thrown to the caller: handle() has not reached its try. *)
Plan ==
  /\ pc = "matching"
  /\ \/ pc' = "enriching" /\ chain' \in {Globals, Globals \o OfRoute}
     \/ pc' = "rejected" /\ chain' = chain
  /\ UNCHANGED <<calls, built, ran, pending, terminating, sealed, status, hooked, disposed>>

(* dispatch(): the next in the chain is entered; a class is made when it first is, *)
(* and its constructor may throw.                                                  *)
Dispatch(parent, at) ==
  LET new == at <= Len(chain) /\ chain[at].class /\ at \notin built
      Call(state) == Append(calls, [at |-> at, parent |-> parent, state |-> state, letGo |-> FALSE])
  IN \/ /\ calls' = Call("running")
        /\ built' = IF new THEN built \cup {at} ELSE built
        /\ ran' = IF new /\ chain[at].hook THEN Append(ran, at) ELSE ran
     \/ new /\ calls' = Call("threw") /\ UNCHANGED <<built, ran>>

(* Mutation of Dispatch: instances are made, and listed, at each call. *)
DispatchMakesAgain(parent, at) ==
  /\ calls' = Append(calls, [at |-> at, parent |-> parent, state |-> "running", letGo |-> FALSE])
  /\ built' = built \cup {at}
  /\ ran' = IF at <= Len(chain) /\ chain[at].class /\ chain[at].hook THEN Append(ran, at) ELSE ran

(* The enrichers run one after the other; then the chain is invoked. *)
Enrich ==
  /\ pc = "enriching"
  /\ \/ Dispatch(0, 1) /\ pc' = IF Last(calls').state = "threw" THEN "reporting" ELSE "running"
     \/ pc' = "reporting" /\ UNCHANGED <<calls, built, ran>>
  /\ UNCHANGED <<request, pending, status>>

Running(c) == calls[c].state = "running"

(* A middleware calls next(). *)
CallNext(c) ==
  /\ Running(c) /\ calls[c].at <= Len(chain) /\ Len(calls) < MaxCalls
  /\ Dispatch(c, calls[c].at + 1)
  /\ UNCHANGED <<pc, request, pending, status>>

(* ctx.response.header() and cookie(). *)
QueueHeader(c) ==
  /\ Running(c) /\ c \notin ToSet(pending)
  /\ pending' = Append(pending, c)
  /\ UNCHANGED <<pc, calls, built, ran, request, status>>

(* A middleware or the handler answers, or throws; the first of the chain ends it. *)
End(c, state) ==
  /\ Running(c)
  /\ calls' = [calls EXCEPT ![c].state = state,
                            ![c].letGo = \E d \in DOMAIN calls : calls[d].parent = c /\ Running(d)]
  /\ IF calls[c].parent # 0 THEN UNCHANGED <<pc, status>>
     ELSE IF state = "returned" THEN pc' = "sealing" /\ status' = "handled"
     ELSE pc' = "reporting" /\ status' = status
  /\ UNCHANGED <<built, ran, request, pending>>

(* report(): its own error is logged. *)
Report == /\ pc = "reporting" /\ pc' = "rendering"
          /\ UNCHANGED <<calls, built, ran, request, pending, status>>

(* renderHttp(), or the plain 500 when that throws. *)
Render == /\ pc = "rendering" /\ pc' = "sealing" /\ status' \in {"rendered", "fallback"}
          /\ UNCHANGED <<calls, built, ran, request, pending>>

(* terminatingInstances(), applyPending(). *)
Seal == /\ pc = "sealing" /\ pc' = "answered" /\ terminating' = ran /\ sealed' = pending
        /\ UNCHANGED <<chain, calls, built, ran, pending, status, hooked, disposed>>

(* The microtask: every hook, whether or not others throw, and the scope. *)
Terminate ==
  /\ pc = "answered" /\ pc' = "ended" /\ hooked' = terminating /\ disposed' = TRUE
  /\ UNCHANGED <<chain, calls, built, ran, pending, terminating, sealed, status>>

KernelNext ==
  \/ Plan \/ Enrich \/ Report \/ Render \/ Seal \/ Terminate
  \/ \E c \in DOMAIN calls :
       CallNext(c) \/ QueueHeader(c) \/ End(c, "returned") \/ End(c, "threw")

KernelSpec == KernelInit /\ [][KernelNext]_kernelVars

-----------------------------------------------------------------------------
Orderly == \A c \in DOMAIN calls : ~calls[c].letGo

(* Each instance with a hook is terminated once, in the order they were made, *)
(* the one that threw or answered early included; and when nobody let go of a *)
(* next(), nothing is still running when its scope is disposed, so none was   *)
(* made too late to be terminated (http_kernel.ts handle, compose.ts toFn).   *)
HooksFollowTheChain ==
  /\ IsInjective(hooked) /\ ToSet(hooked) \subseteq built
  /\ pc = "ended" /\ Orderly =>
       /\ ToSet(hooked) = {at \in built : chain[at].hook}
       /\ \A c \in DOMAIN calls : ~Running(c)
       /\ \A i, j \in DOMAIN hooked : i < j => hooked[i] < hooked[j]

(* A header queued before the response was sealed is on it once, whatever     *)
(* threw since, and one response is made of each request that was planned.    *)
HeadersReachTheAnswer ==
  /\ pc \in {"answered", "ended"} =>
       /\ status # "none" /\ IsPrefix(sealed, pending) /\ IsInjective(sealed)
       /\ Orderly => sealed = pending
  /\ status = "handled" => calls[1].state = "returned"
  /\ status \in {"rendered", "fallback"} => calls = <<>> \/ calls[1].state = "threw"

HttpKernelInv == HooksFollowTheChain /\ HeadersReachTheAnswer

(* http_kernel.ts:20 says the kernel never throws past its boundary. *)
NeverRejects == pc # "rejected"
=============================================================================
