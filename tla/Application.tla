----------------------------- MODULE Application -----------------------------
(***************************************************************************)
(* The Application of @strav/kernel, a Container with a lifecycle.  The two *)
(* share no state but the object they are: the lifecycle has Init and Next, *)
(* the container ContainerInit and ContainerNext.                           *)
(*                                                                         *)
(* The lifecycle: use, start with its topological sort and its rollback,    *)
(* shutdown, and the handlers of SIGINT and SIGTERM.  start() and           *)
(* shutdown() await between their steps and are guarded by flags alone, so  *)
(* calls that overlap interleave.                                           *)
(*                                                                         *)
(* The container: bindings live in containers that form a chain - the       *)
(* application and the scopes made for requests, jobs and commands; a       *)
(* singleton is cached where it is bound, a scoped binding where it is      *)
(* resolved, and a factory not at all.  Whatever its kind, the factory runs *)
(* with the container that resolves, so its dependencies are looked up from *)
(* there.                                                                   *)
(***************************************************************************)
EXTENDS Integers, Sequences, FiniteSets, SequencesExt

CONSTANTS Provider, Caller,
          Graphs,    \* the dependencies providers may declare: a set of [Provider -> SUBSET Provider]
          MaxCalls,  \* bound: calls of start and shutdown ever made
          Containers, App,       \* the application's container, and every scope of it
          Keys, None,
          Deps,                  \* key -> the classes its constructor takes (acyclic)
          MaxBinds, MaxAnswers   \* bounds: bindings made, resolutions made

VARIABLES deps,          \* the graph this application has
          providers,     \* _providers, in the order of use()
          booted,        \* _bootedProviders
          isBooted,      \* _booted
          shuttingDown,  \* _shuttingDown
          handlers,      \* are the signal handlers installed
          up,            \* provider -> "down", "booting" or "up"
          call,          \* caller -> [op, at, todo: providers still to boot or to stop]
          exited,        \* "no", "exit" after a signal, or "timeout"
          overlapped,    \* did a call ever begin while another was going
          calls,
          bindings,    \* container -> key -> None or [kind, gen]
          contextual,  \* consumer -> dep -> the key given instead, None if no override
          instances,   \* container -> key -> object, 0 if not cached
          made,        \* objects: [key, at: the container it was built in, deps: its arguments]
          binds, cleared,  \* how many bindings were made; container -> how often it was disposed
          answers      \* what resolve() returned: [at, key, owner, kind, gen, cleared, object]

vars == <<deps, providers, booted, isBooted, shuttingDown, handlers, up, call, exited, overlapped, calls>>
containerVars == <<bindings, contextual, instances, made, binds, cleared, answers>>

Idle == [op |-> "none", at |-> "idle", todo |-> <<>>]
Quiet == \A c \in Caller : call[c] = Idle

Init == /\ deps \in Graphs /\ providers = <<>> /\ booted = <<>> /\ isBooted = FALSE /\ shuttingDown = FALSE
        /\ handlers = FALSE /\ up = [p \in Provider |-> "down"] /\ call = [c \in Caller |-> Idle]
        /\ exited = "no" /\ overlapped = FALSE /\ calls = 0

Use(p) == /\ ~isBooted /\ p \notin Range(providers) /\ calls = 0
          /\ providers' = Append(providers, p)
          /\ UNCHANGED <<deps, booted, isBooted, shuttingDown, handlers, up, call, exited, overlapped, calls>>

(***************************************************************************)
(* topologicalSort: Kahn's algorithm over the providers in use() order.     *)
(***************************************************************************)
RECURSIVE Walk(_, _)
Walk(queue, sorted) ==
  IF queue = <<>> THEN sorted
  ELSE LET done == Append(sorted, Head(queue))
           freed == SelectSeq(providers, LAMBDA p : Head(queue) \in deps[p] /\ deps[p] \subseteq Range(done))
       IN Walk(Tail(queue) \o freed, done)

TopologicalSort == Walk(SelectSeq(providers, LAMBDA p : deps[p] = {}), <<>>)

(* An unknown dependency or a cycle throws. *)
Sortable == /\ \A p \in Range(providers) : deps[p] \subseteq Range(providers)
            /\ Len(TopologicalSort) = Len(providers)

Begin(c, op, at) ==
  /\ exited = "no" /\ call[c] = Idle /\ calls < MaxCalls /\ calls' = calls + 1
  /\ call' = [call EXCEPT ![c] = [op |-> op, at |-> at, todo |-> <<>>]]
  /\ overlapped' = (overlapped \/ ~Quiet)

Go(c, at, todo) == /\ exited = "no"
                   /\ call' = [call EXCEPT ![c].at = at, ![c].todo = todo]
                   /\ UNCHANGED <<deps, providers, overlapped, calls>>
End(c) == /\ exited = "no" /\ call' = [call EXCEPT ![c] = Idle]
          /\ UNCHANGED <<deps, providers, overlapped, calls>>

(***************************************************************************)
(* start.                                                                  *)
(***************************************************************************)
Start(c) == /\ ~isBooted /\ Begin(c, "start", "starting")
            /\ UNCHANGED <<deps, providers, booted, isBooted, shuttingDown, handlers, up, exited>>

Register(c) ==
  /\ call[c].at = "starting"
  /\ IF Sortable THEN Go(c, "boot", TopologicalSort) ELSE End(c)
  /\ UNCHANGED <<booted, isBooted, shuttingDown, handlers, up, exited>>

BootBegins(c) ==
  /\ call[c].at = "boot" /\ call[c].todo # <<>>
  /\ up' = [up EXCEPT ![Head(call[c].todo)] = "booting"] /\ Go(c, "booting", call[c].todo)
  /\ UNCHANGED <<booted, isBooted, shuttingDown, handlers, exited>>

BootEnds(c) ==
  /\ call[c].at = "booting"
  /\ LET p == Head(call[c].todo) IN
     \/ /\ booted' = Append(booted, p) /\ up' = [up EXCEPT ![p] = "up"] /\ Go(c, "boot", Tail(call[c].todo))
     \/ /\ up' = [up EXCEPT ![p] = "down"] /\ Go(c, "stop", Reverse(booted)) /\ booted' = booted
  /\ UNCHANGED <<isBooted, shuttingDown, handlers, exited>>

Booted(c) == /\ call[c].at = "boot" /\ call[c].todo = <<>> /\ End(c)
             /\ isBooted' = TRUE /\ handlers' = TRUE
             /\ UNCHANGED <<booted, shuttingDown, up, exited>>

(***************************************************************************)
(* shutdown, called or run by a signal handler, which exits after it - at   *)
(* once when another shutdown is under way.                                 *)
(***************************************************************************)
Shutdown(c, op) ==
  /\ op = "signal" => handlers
  /\ IF ~shuttingDown THEN Begin(c, op, "shutdown") /\ shuttingDown' = TRUE /\ exited' = exited
     ELSE /\ op = "signal" /\ exited = "no" /\ exited' = "exit"
          /\ UNCHANGED <<call, calls, overlapped, shuttingDown>>
  /\ UNCHANGED <<deps, providers, booted, isBooted, handlers, up>>

(* Mutation of StopOrder: providers are stopped in the order they booted. *)
StopOrderOfBoot == booted
StopOrder == Reverse(booted)

ShutdownProviders(c) ==
  /\ call[c].at = "shutdown" /\ Go(c, "stop", StopOrder)
  /\ UNCHANGED <<booted, isBooted, shuttingDown, handlers, up, exited>>

(* A shutdown that throws is logged and the loop goes on. *)
Stop(c) ==
  /\ call[c].at = "stop" /\ call[c].todo # <<>>
  /\ up' = [up EXCEPT ![Head(call[c].todo)] = "down"] /\ Go(c, "stop", Tail(call[c].todo))
  /\ UNCHANGED <<booted, isBooted, shuttingDown, handlers, exited>>

Stopped(c) ==
  /\ call[c].at = "stop" /\ call[c].todo = <<>> /\ booted' = <<>>
  /\ IF call[c].op = "start" THEN End(c) /\ UNCHANGED <<isBooted, handlers>>
     ELSE Go(c, "terminated", <<>>) /\ isBooted' = FALSE /\ handlers' = FALSE
  /\ UNCHANGED <<shuttingDown, up, exited>>

Terminated(c) ==
  /\ call[c].at = "terminated" /\ End(c) /\ shuttingDown' = FALSE
  /\ exited' = IF call[c].op = "signal" THEN "exit" ELSE exited
  /\ UNCHANGED <<booted, isBooted, handlers, up>>

(* A provider hangs for SHUTDOWN_TIMEOUT_MS: the process is forced to exit. *)
TimesOut(c) == /\ call[c].at = "stop" /\ call[c].op # "start" /\ call[c].todo # <<>> /\ exited = "no"
               /\ exited' = "timeout"
               /\ UNCHANGED <<deps, providers, booted, isBooted, shuttingDown, handlers, up, call, overlapped, calls>>

Next == \/ \E p \in Provider : Use(p)
        \/ \E c \in Caller : \/ Start(c) \/ Register(c) \/ BootBegins(c) \/ BootEnds(c) \/ Booted(c)
                             \/ Shutdown(c, "shutdown") \/ Shutdown(c, "signal") \/ ShutdownProviders(c)
                             \/ Stop(c) \/ Stopped(c) \/ Terminated(c) \/ TimesOut(c)
Spec == Init /\ [][Next]_vars

(***************************************************************************)
(* The container.                                                          *)
(***************************************************************************)
ContainerInit ==
  /\ bindings = [c \in Containers |-> [k \in Keys |-> None]]
  /\ contextual = [k \in Keys |-> [d \in Keys |-> None]]
  /\ instances = [c \in Containers |-> [k \in Keys |-> 0]]
  /\ made = <<>> /\ binds = 0 /\ cleared = [c \in Containers |-> 0] /\ answers = <<>>

(* findBinding(): the scope's own, else the application's. *)
Owner(c, k) == IF bindings[c][k] # None THEN c ELSE IF bindings[App][k] # None THEN App ELSE None

(* register(), singleton(), scoped(): bindEntry(). *)
Bind(c, k, kind) ==
  /\ binds < MaxBinds /\ binds' = binds + 1
  /\ bindings' = [bindings EXCEPT ![c][k] = [kind |-> kind, gen |-> binds + 1]]
  /\ instances' = [instances EXCEPT ![c][k] = 0]
  /\ UNCHANGED <<contextual, made, cleared, answers>>

(* when(consumer).needs(dep).give(other). *)
Give(consumer, dep, other) ==
  /\ binds < MaxBinds /\ binds' = binds + 1
  /\ dep \in ToSet(Deps[consumer]) /\ consumer \notin {other} \cup ToSet(Deps[other])
  /\ contextual' = [contextual EXCEPT ![consumer][dep] = other]
  /\ UNCHANGED <<bindings, instances, made, cleared, answers>>

RECURSIVE Make(_, _, _)

(* constructFromInject(): every argument by make(), or by the override. *)
Construct(c, k, st) ==
  LET Arg(acc, d) == LET r == Make(c, IF contextual[k][d] = None THEN d ELSE contextual[k][d], acc.st)
                     IN [st |-> r.st, args |-> Append(acc.args, r.object)]
      all == FoldLeft(Arg, [st |-> st, args |-> <<>>], Deps[k])
      object == Len(all.st.made) + 1
  IN [st |-> [all.st EXCEPT !.made = Append(@, [key |-> k, at |-> c, deps |-> all.args])], object |-> object]

(* makeInternal() and resolveInternal(). *)
Make(c, k, st) ==
  LET owner == Owner(c, k)
      kind == IF owner = None THEN "factory" ELSE bindings[owner][k].kind
      cache == IF kind = "singleton" THEN owner ELSE c
      built == Construct(c, k, st)
  IN IF kind = "factory" THEN built
     ELSE IF st.instances[cache][k] # 0 THEN [st |-> st, object |-> st.instances[cache][k]]
     ELSE [built EXCEPT !.st.instances[cache][k] = built.object]

(* resolve(): a key nobody bound throws; make() builds it. *)
Resolve(c, k) ==
  /\ Len(answers) < MaxAnswers /\ Owner(c, k) # None
  /\ LET r == Make(c, k, [instances |-> instances, made |-> made]) b == bindings[Owner(c, k)][k] IN
     /\ instances' = r.st.instances /\ made' = r.st.made
     /\ answers' = Append(answers, [at |-> c, key |-> k, owner |-> Owner(c, k), kind |-> b.kind, gen |-> b.gen,
                                    cleared |-> cleared, object |-> r.object])
  /\ UNCHANGED <<bindings, contextual, binds, cleared>>

(* dispose(): the cached instances go, the bindings stay. *)
Dispose(c) ==
  /\ \E k \in Keys : instances[c][k] # 0
  /\ instances' = [instances EXCEPT ![c] = [k \in Keys |-> 0]]
  /\ cleared' = [cleared EXCEPT ![c] = @ + 1]
  /\ UNCHANGED <<bindings, contextual, made, binds, answers>>

ContainerNext ==
  \/ \E c \in Containers, k \in Keys :
       \/ Resolve(c, k)
       \/ \E kind \in {"factory", "singleton", "scoped"} : Bind(c, k, kind)
  \/ \E k, d, o \in Keys : Give(k, d, o)
  \/ \E c \in Containers : Dispose(c)

ContainerSpec == ContainerInit /\ [][ContainerNext]_containerVars

-----------------------------------------------------------------------------
TypeOK == /\ up \in [Provider -> {"down", "booting", "up"}] /\ Range(booted) \subseteq Range(providers)
          /\ isBooted \in BOOLEAN /\ exited \in {"no", "exit", "timeout"}

(* A provider boots after all it depends on, and outlives none of it: while  *)
(* it is booting or up, its dependencies are up.                             *)
DependenciesUp == \A p \in Provider : up[p] # "down" => \A d \in deps[p] : up[d] = "up"

(* What is up is listed for shutdown, so nothing that booted is forgotten.   *)
Tracked == \A p \in Provider : up[p] = "up" => p \in Range(booted)

(* Between calls an application is all up or all down, and so are the signal *)
(* handlers: a failed start left nothing behind.                             *)
AllOrNothing ==
  Quiet => /\ handlers = isBooted
           /\ \A p \in Range(providers) : up[p] = IF isBooted THEN "up" ELSE "down"

(* The lifecycle of an application whose calls did not overlap.              *)
ApplicationInv == TypeOK /\ (~overlapped => DependenciesUp /\ Tracked /\ AllOrNothing)

(* docs/kernel/api.md:161: shutdown() runs for every booted provider on      *)
(* SIGINT and SIGTERM, unless the 30 s budget ends.                          *)
GracefulExit == exited = "exit" => \A p \in Provider : up[p] = "down"

Same(a, b) == a.key = b.key /\ a.owner = b.owner /\ a.gen = b.gen

(* One binding, resolved twice: a singleton is one object wherever it is      *)
(* resolved until its owner is disposed; a scoped binding is one object in a  *)
(* scope until that scope is disposed, and another in every other scope; a    *)
(* factory never gives the same object twice (container.ts resolveInternal).  *)
KindsKeepTheirPromise ==
  \A i, j \in DOMAIN answers :
    LET a == answers[i] b == answers[j] IN
      i < j /\ Same(a, b) =>
        CASE a.kind = "factory" -> a.object # b.object
          [] a.kind = "singleton" -> (a.object = b.object) = (a.cleared[a.owner] = b.cleared[a.owner])
          [] a.kind = "scoped" -> (a.object = b.object) = (a.at = b.at /\ a.cleared[a.at] = b.cleared[a.at])

(* A binding made anew is seen at once by whoever resolves in the container   *)
(* it was made in, as a singleton also in the scopes below: no object of an   *)
(* older binding is returned (container.ts bindEntry).                        *)
RebindReplaces ==
  \A i, j \in DOMAIN answers :
    LET a == answers[i] b == answers[j] IN
      i < j /\ a.key = b.key /\ a.owner = b.owner /\ a.gen # b.gen /\ (b.kind = "singleton" \/ b.at = b.owner)
        => a.object # b.object

ContainerInv == KindsKeepTheirPromise /\ RebindReplaces
=============================================================================
