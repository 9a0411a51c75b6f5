------------------------------ MODULE MCPlatform ------------------------------
(***************************************************************************)
(* The parts whose safety is proved as well as checked: scopes and writes,   *)
(* schema migrations, the operators of the queue, cache locks and tags, the  *)
(* Redis backplane, MCP sessions, stored conversations, the two streams of   *)
(* an HTTP exchange, sagas and state machines, and what leaves the process:  *)
(* payments, social sign-in, notifications, mail.                            *)
(* They share no state, so one run checks them all, each behaviour being of  *)
(* the part it starts with; the others rest in one initial state.  Their     *)
(* constants are those of this module: PlatformProofs.tla leaves them open.  *)
(***************************************************************************)
EXTENDS UnitOfWork, TLC

CONSTANTS
    a1, a2, w1, w2, q1, q2, t1, t2,                 \* values
    JobTask, Consumer, Lane, LaneOf, Listening, Operator,      \* JobQueue
    PerJob, PerClass, ByDefault, Handled, MaxJobs, MaxJobFaults, MaxJobCrashes,
    Holder, LockDriver, MaxTokens,                  \* CacheLock
    Caller, CacheKey, Tag, TagDriver, MaxCalls, MaxFaults, \* TaggedCache
    Subscriber, MaxBufferSize, MaxMessages, MaxErrors,     \* RedisBroadcaster
    AgentRun, Servers, MaxClients,                  \* McpClients
    Conversation,                                   \* BrainThread
    Reader, MaxItems, MaxHeartbeats,                \* HttpStreams
    Runner, Migration, Versions, Tolerant, MaxRuns, \* MigrationRunner
    MaxSteps, MaxWidth, MaxEntries, MaxIterations,  \* Workflow
    Clerk, Copy, InUnit, States, Transitions, MaxRowWrites, \* Stateful
    Payer, Gateway, MethodKind, MaxIntents, MaxPayCalls, MaxPayLost,  \* PaymentDrivers
    Tab, Session, SessionOf, User, Identity, Branch, Provider, MaxFlows, MaxIssued,  \* SocialLogin
    Sending, Vias, Listener, Keys, KeyOf, QueueSize,  \* Notifications
    Transports, PeerTransports, Parsers, Mailables, MarkOf, DefaultFrom, LinePosts, MaxAttempts, MaxMailLost, MaxMails  \* Mailing

VARIABLES
    part,
    jobs, failed, lastId, uow, work, op, queueFaults, crashes, effects, discarded,
    lockDriver, slot, running, handle, nextToken, flushed,
    tagStore, entry, index, tagged, call, raced, want, settled, calls, faults,
    upstream, subscribed, closed, commands, listeners, dropping, local, published, failing,
    pooled, pool, made, conn, shakes, run, excused,
    stored, exists, pointer, sending,
    iterable, iterator, queued, answer, loop, controller, aborted, timer, gone, frames, produced,
    type, valid, stream, parsedBody, parsedForm, reader, overlapped,
    known, tracking, effect, migration, crossed, runs,
    plan, at, sagaPc, handler, iteration, results, completed, owing, compensated, failures,
    history, current, deleted, copy, clerk, open, before, rowWrites, emitted,
    gateway, order, intents, customer, payCall, payLeft, payAnswer, payLost, payMade,
    provider, tenanted, extra, session, actor, codes, issued, dead, links, flows, nextId,
    sendings, received, records, sub, registry, buckets,
    via, parser, mailJobs, mails, batch, tokens, handled, mailLost

unitVars == vars
queueVars == <<jobs, failed, lastId, uow, work, op, queueFaults, crashes, effects, discarded>>
lockVars == <<lockDriver, slot, running, handle, nextToken, flushed>>
tagVars == <<tagStore, entry, index, tagged, call, raced, want, settled, calls, faults>>
redisVars == <<upstream, subscribed, commands, listeners, dropping, closed, local, published, failing>>
mcpVars == <<pooled, pool, made, conn, shakes, run, excused>>
threadVars == <<stored, exists, pointer, sending>>
sseVars == <<iterable, iterator, queued, answer, loop, controller, aborted, timer, gone, frames, produced>>
bodyVars == <<type, valid, stream, parsedBody, parsedForm, reader, overlapped>>
runnerVars == <<known, tracking, effect, migration, crossed, runs>>
sagaVars == <<plan, at, sagaPc, handler, iteration, results, completed, owing, compensated, failures>>
machineVars == <<history, current, deleted, copy, clerk, open, before, rowWrites, emitted>>
payVars == <<gateway, order, intents, customer, payCall, payLeft, payAnswer, payLost, payMade>>
socialVars == <<provider, tenanted, extra, session, actor, codes, issued, dead, links, flows, nextId>>
notifyVars == <<sendings, received, records, sub, registry, buckets>>
mailVars == <<via, parser, mailJobs, mails, batch, tokens, handled, mailLost>>

Operators == INSTANCE JobQueue WITH
    Task <- JobTask, Worker <- Consumer, Queue <- Lane, QueueOf <- LaneOf, Listens <- Listening,
    OptAttempts <- PerJob, ClassAttempts <- PerClass, DefaultAttempts <- ByDefault, Registered <- Handled,
    NoValue <- None, MaxId <- MaxJobs, MaxFaults <- MaxJobFaults, MaxCrashes <- MaxJobCrashes, faults <- queueFaults
Lock == INSTANCE CacheLock WITH Handle <- Holder, Driver <- LockDriver, driver <- lockDriver
Tags == INSTANCE TaggedCache WITH Key <- CacheKey, driver <- tagStore
Redis == INSTANCE RedisBroadcaster WITH failed <- failing
Mcp == INSTANCE McpClients
Thread == INSTANCE BrainThread WITH Request <- Conversation, req <- sending
Streams == INSTANCE HttpStreams WITH kind <- iterable
Migrations == INSTANCE MigrationRunner WITH rows <- tracking, run <- migration
Saga == INSTANCE Workflow WITH pc <- sagaPc, called <- compensated
Machine == INSTANCE Stateful WITH Caller <- Clerk, MaxWrites <- MaxRowWrites, task <- clerk, writes <- rowWrites
Payments == INSTANCE PaymentDrivers WITH
    Caller <- Payer, Drivers <- Gateway, Kinds <- MethodKind, MaxObjects <- MaxIntents, MaxCalls <- MaxPayCalls, MaxLost <- MaxPayLost,
    driver <- gateway, objects <- intents, call <- payCall, left <- payLeft, answer <- payAnswer, lost <- payLost, made <- payMade
Social == INSTANCE SocialLogin WITH Actor <- Tab, Tenants <- Branch, Drivers <- Provider, driver <- provider, rows <- links
Notify == INSTANCE Notifications WITH Dispatch <- Sending, Subscriber <- Listener, dispatch <- sendings
Mail == INSTANCE Mailing WITH Messages <- Mailables, Batches <- LinePosts, MaxLost <- MaxMailLost, jobs <- mailJobs, lost <- mailLost

(***************************************************************************)
(* Values for the run.                                                     *)
(***************************************************************************)
Depth == (a1 :> 2) @@ (a2 :> 1)
\* Two operators race queue:retry --all and queue:flush; one statement fails, and a job is
\* dead-lettered at its first failure.
Lanes == (t1 :> q1) @@ (t2 :> q2)
Attending == (w1 :> {q1, q2}) @@ (w2 :> {q1})
NotGiven == (t1 :> None) @@ (t2 :> None)
TwoServers == <<1, 2>>
Transition(from, to, guarded, event) == [from |-> from, to |-> to, guarded |-> guarded, event |-> event]
Orders == [pay |-> Transition({"new"}, "paid", TRUE, TRUE),
           cancel |-> Transition({"new", "paid"}, "gone", FALSE, FALSE)]
\* Two tabs of one session.
OneSession == (a1 :> 1) @@ (a2 :> 1)
Two(one, other) == (a1 :> one) @@ (a2 :> other)
ChannelLists == {Two(<<"sse", "log">>, <<"sse">>), Two(<<"database", "webhook", "database">>, <<>>),
                 Two(<<"mail", "sse">>, <<>>), Two(<<"unknown", "discord", "broadcast">>, <<>>)}
Letters == {{"to", "text"}, {"to", "from", "html", "cc", "replyTo", "secondReplyTo", "headers"}, {"to", "from"},
            {"from", "text"}, {"to", "from", "text", "noCc"}, {"to", "from", "text", "attachments", "badBase64"}}
LineBatches == {<<>>, <<"text", "postback">>, <<"text", "malformed">>, <<"unfollow", "text">>}
Marks == [app |-> << <<"auto-submitted", "auto-replied">> >>,
          peer |-> << <<"precedence", "list">>, <<"precedence", "bulk">> >>]

PlatformInit ==
    /\ part \in {"unit", "operators", "lock", "tags", "redis", "mcp", "thread", "sse", "body", "migrations", "saga", "machine",
                "pay", "social", "notify", "mail"}
    /\ Init /\ \A r \in Record : rows[r] = "absent"
    /\ Operators!Init /\ Redis!Init /\ Thread!Init /\ Saga!Init /\ Machine!Init
    /\ Lock!Init /\ (part # "lock" => lockDriver = "memory")
    /\ Tags!Init /\ (part # "tags" => tagStore = "memory")
    /\ Mcp!Init /\ (part # "mcp" => pooled)
    /\ Streams!SseInit /\ (part # "sse" => iterable = "generator" /\ ~gone)
    /\ Streams!BodyInit /\ (part # "body" => type = "none" /\ valid)
    /\ Migrations!Init /\ (part # "migrations" => \A r \in Runner : known[r] = Migration)
    /\ Payments!Init /\ (part # "pay" => gateway = "mock" /\ order = CHOOSE o \in Payments!KeyedCalls : TRUE)
    /\ Social!Init /\ IF part = "social" THEN tenanted = (provider = "line")
                      ELSE provider = "mock" /\ ~tenanted /\ extra = {}
    /\ Notify!Init /\ (part # "notify" => \E d \in Sending : sendings[d].via = <<"mail", "sse">>)
    /\ Mail!Init /\ (part # "mail" => via.app = "log" /\ via.peer = "resend" /\ parser = "mailgun" /\ batch.events = <<>>)

\* One part runs, the others keep their state.
PlatformNext ==
    /\ part' = part
    /\ IF part = "unit" THEN Next ELSE UNCHANGED unitVars
    /\ IF part = "operators" THEN Operators!Next ELSE UNCHANGED queueVars
    /\ IF part = "lock" THEN Lock!Next ELSE UNCHANGED lockVars
    /\ IF part = "tags" THEN Tags!Next ELSE UNCHANGED tagVars
    /\ IF part = "redis" THEN Redis!Next ELSE UNCHANGED redisVars
    /\ IF part = "mcp" THEN Mcp!Next ELSE UNCHANGED mcpVars
    /\ IF part = "thread" THEN Thread!Next ELSE UNCHANGED threadVars
    /\ IF part = "sse" THEN Streams!SseNext ELSE UNCHANGED sseVars
    /\ IF part = "body" THEN Streams!BodyNext ELSE UNCHANGED bodyVars
    /\ IF part = "migrations" THEN Migrations!Next ELSE UNCHANGED runnerVars
    /\ IF part = "saga" THEN Saga!Next ELSE UNCHANGED sagaVars
    /\ IF part = "machine" THEN Machine!Next ELSE UNCHANGED machineVars
    /\ IF part = "pay" THEN Payments!Next ELSE UNCHANGED payVars
    /\ IF part = "social" THEN Social!Next ELSE UNCHANGED socialVars
    /\ IF part = "notify" THEN Notify!Next ELSE UNCHANGED notifyVars
    /\ IF part = "mail" THEN Mail!Next ELSE UNCHANGED mailVars

platformVars == <<part, unitVars, queueVars, lockVars, tagVars, redisVars, mcpVars, threadVars, sseVars, bodyVars,
                  runnerVars, sagaVars, machineVars, payVars, socialVars, notifyVars, mailVars>>

PlatformSpec == PlatformInit /\ [][PlatformNext]_platformVars

Symmetry == Permutations(Tenant)

\* What a scope was opened with tells scopes apart; whether run, withTenant or withoutTenant
\* opened it is a label no action and no property reads.
Bound == [a \in Task |-> [i \in DOMAIN stack[a] |-> <<stack[a][i].tenant, stack[a][i].key, stack[a][i].opened>>]]
\* The parts that rest are in one state: the part that runs tells two states apart.
PartView ==
    <<part, CASE part = "unit" -> <<Bound, tx, phase, rows, writes>> [] part = "operators" -> queueVars
              [] part = "lock" -> lockVars [] part = "tags" -> tagVars [] part = "redis" -> redisVars
              [] part = "mcp" -> mcpVars [] part = "thread" -> threadVars [] part = "sse" -> sseVars
              [] part = "body" -> bodyVars [] part = "migrations" -> runnerVars [] part = "saga" -> sagaVars
              [] part = "machine" -> machineVars [] part = "pay" -> payVars [] part = "social" -> socialVars
              [] part = "notify" -> notifyVars [] part = "mail" -> mailVars>>

\* With operators racing the queue keeps its inductive invariant and loses no job
\* (duplicates are possible here: queue_retry.ts takes no lock).
OperatorsInv == part = "operators" => Operators!QueueInv /\ Operators!NothingLost
\* No two handles hold one name within their leases (block of the cache drivers);
\* an entry is found by each of the tags it was last put with, as far as the driver
\* promises it, and in memory and Postgres by no other.
CacheInv == (part = "lock" => Lock!OneLease) /\ (part = "tags" => Tags!TaggedInv)
\* What is shared between calls has one owner and is given back: one handshake per MCP
\* client and no transport the code is not known to lose (mcp/client.ts, pool.ts); the
\* upstream of the live subscribers of the Redis backplane, whose messages come once and
\* in order (dropIfLast, deliver, close); the iterable and the timer of an event stream,
\* and a body that is read once.
ConnectionsInv == /\ part = "mcp" => Mcp!McpInv
                  /\ part = "redis" => Redis!RedisInv
                  /\ part = "sse" => Streams!SseInv
                  /\ part = "body" => Streams!BodyIsReadOnce
\* A stored conversation keeps its numbering, its order and its pointer
\* (DatabaseBrainStore.appendTurn); the tracking table tells what was applied, whoever
\* migrates (MigrationRunner).
RecordsInv == (part = "thread" => Thread!ThreadInv) /\ (part = "migrations" => Migrations!MigrationInv)
\* A saga that fails has compensated what completed, last first, and nothing else;
\* a row follows its machine as long as the copies that change it are fresh.
WorkflowInv == (part = "saga" => Saga!WorkflowInv) /\ (part = "machine" => Machine!StatefulInv)
\* Money: an order is charged once while the driver honours its key.  Sign-in: a code is
\* spent by the tab that asked for it, a row keeps its user.  A notification reaches the
\* channels it names, each answer told; a mail is delivered once for each attempt and a
\* LINE event is handled once or met again.
OutboundInv == /\ part = "pay" => Payments!PaymentDriversInv
               /\ part = "social" => Social!SocialLoginInv
               /\ part = "notify" => Notify!NotificationsInv
               /\ part = "mail" => Mail!MailingInv
===============================================================================
