# A TLA+ verification of Strav

Strav 1.x is a TypeScript framework in one monorepo: a kernel (container,
events, configuration), HTTP and sign-in, an ORM with tenancy and migrations,
and a set of packages built on them: queue, durable workflows, cache, broadcast,
payment, mail, agents, retrieval and more. This directory holds the formal side
of it: TLA+ modules translated from the source, TLC configurations that check
them on small instances, and theorems about them that TLAPS checks for every
instance.

Paths are relative to the repository; `durable_runner.ts:193` means line 193 of
`packages/durable/src/durable_runner.ts`. `PROJECT.json` lists, for every
component, its modules and what is left out (`components`); the hazards of the
code, each at its line with the properties that watch it (`hazards`); the runs;
and for the definitions that model code the lines they were translated from
(`map`; a helper whose lines lie within its caller's is not listed apart).

## 1. Inventory

The packages meet in five places: rows of Postgres (the queue's tables carry the
durable runner's tokens; every repository write goes through UnitOfWork), the
ambient transaction in AsyncLocalStorage (which decides where a dispatch is
written and when an event fires), the container (scopes per request, job and
command), the event bus, and streams (a broadcast subscription is the iterable
of an SSE response). What is hard in this code is nearly always that an `await`
stands between a check and its use: other requests, workers, timers or processes
run there, and the statement itself may fail before or after the server applied
it.

| Component | State | Operations | Hard | Correct when |
|---|---|---|---|---|
| queue: DatabaseQueue, Worker, console | `strav_jobs`, `strav_failed_jobs`, the dispatcher's transaction, what a worker holds between statements | dispatch, claim, run, delete, retry, dead-letter, `queue:retry`, `queue:flush` | workers and operators interleave between statements; a statement fails applied or unapplied; a worker dies | no job is run by two workers, lost, run past its budget, or run although its transaction rolled back; every committed job settles |
| queue: Scheduler | each server's loop and clock, `last_run_at`, an advisory lock | sleep, tick, dispatch, `scheduler:run` | clocks that disagree or jump, early timers, a death between dispatch and record | a minute of a `oneServer` entry is dispatched at most once, and the table says what was |
| durable: DurableRunner | run rows, journal, tokens in the queue | start, advance (seven node types), signal, compensate | duplicated tokens, dispatches on a second connection, signals that race a park, children of a parent that rolled back | the journal is the executed prefix, a failed run is compensated, a finished one final, none forgotten |
| payment: webhook, ledger | event claims, ledger rows | claim, tenant transaction, handlers, upsert, mark | redelivery, reordering, a handler that throws after the claim, a COMMIT whose answer is lost | a handler runs at most once for an event, the newest event wins, every event is answered |
| payment: drivers, billable | the provider's objects | charges, captures, refunds, customers, subscriptions, links | two requests behind one method, lost answers, repeated calls | one charge for a key; an answer is true; what is refused is declared |
| broadcast | event table, polling cursor, poll loops, buffers; Redis: commands under way | publish, subscribe, poll, sweep, close | ids that commit out of order, two loops, a last one that leaves while one arrives | what is owed arrives, in order, and close ends the loops |
| cache | entries, tag indexes, leases | put, forget, add, flush, lock, block, release | a lease that outlives its holder, entry and tags written apart | one owner per lease; a flushed tag takes its entries and no others |
| brain: tool loops | the conversation, calls under way | eighteen loops, suspend, resume, abort | a round cut at any await, errors of tools, a stream that is left | calls and results balanced, rounds end |
| brain: formats, threads | Message[] and its copies, provider memory | send, save, restore, change of provider | concurrent sends, failures in between, five wire formats | the model sees all of the conversation, nothing else, in order |
| brain: MCP, thread store | clients, transports, pool; rows of a thread | handshake, borrow, evict, close; append | concurrent handshakes, eviction under use; two appends | one transport per client; dense turn numbers |
| rag | rows, chunks | vectorize, reindex, retrieve, chunk | overlapping calls, failures, offset paging | the index is the last call's; chunks hold the text |
| database: UnitOfWork, tenants, repositories | scopes, transaction, event queue, locks | run, withTenant, withLock, writes | nesting, errors that are caught, listeners that write, lost COMMITs | events follow the fate of their writes; locks exclude; tenants bind |
| database: migrations, schema diff | tracking table, catalog | diff, up, down, migrate, rollback | two deploys, down() twice | the table tells what was applied; a migration converges and reverses |
| database: QueryBuilder | builders, cursors | where, with, union, cursor paging, chunk | forks of one builder, writes between two pages | placeholders stand for their values; no row skipped or repeated |
| kernel | providers, listeners, bindings and instances | start, shutdown, emit, resolve, dispose | overlapping start and shutdown, re-entrant emits, rebinding | dependencies outlive dependents; one-shot means once; one singleton |
| http | routes, trie, one request's chain, streams | group, compile, match, handle, body, SSE | backtracking, `next()` twice or let go, abort in an await | precedence, hooks and headers not lost, streams released |
| auth | sessions, tokens, links, cookies | login, regenerate, touch, logout, killAll, consume | two requests of one browser, rotation against use | nobody runs as someone else; what was ended stays ended |
| social, notification, mail, instant | flows, links, SSE registry, mail jobs, reply tokens | sign in, connect, refresh; send; deliver; reply | two tabs, a subscriber that leaves, loops of auto-replies, redelivered batches | see section 2 |
| machine, workflow | a state column; results of one call | transition; run, compensate | stale copies, late siblings | only the machine's arrows; completed work is undone once |
| view | caches in memory and on disk, watch loop, manifest | tokenize, compile, render, build | clear during a compile, changes during a build | text where its directives put it; a cleared cache is fresh |
| storage | files, objects | put, get, move, list | system calls apart, a crash between them | a moved file is at one of its keys; answers stay true |

Not modelled: `SyncQueue` (no state: the job runs inside `dispatch()`),
`CronExpression` (a pure matcher; `Scheduler` takes the minutes it matches as
the constant `Due`), the queue contract, `Job`, `JobRegistry` and the durable
builder and registry (data that the models take as constants), configuration,
logging, encryption, helpers, the Memcached client, and the `cli`, `spring` and
`testing` packages (argument parsing, scaffolding, helpers without state of
their own).

## 2. Modules

Every module models one component (or two that share no state, with a name for
each). Sequential code between two awaits, or between two statements, is one
action; where other processes can run in between it is cut. Histories (variables
no action's guard reads) are named as such where they are declared. Definitions
called "Mutation of X" stand before X and belong to no specification: each is a
plausible slip in the code of X, and the property it breaks is named in
`PROJECT.json`.

### Queue, scheduler, durable

`JobQueue`: `jobs` and `failed` are the committed rows keyed by id, `lastId`
gives rows increasing ids as `ulid()` does. `work[w]` is where a worker is in
`processOne`, with the row it read; `uow[t]` the transaction around the dispatch
of task t; `op[o]` the dead letters an operator's SELECT returned. An action is
one transaction or one autocommitted statement, except that a claim is
`ClaimSelect` (FOR UPDATE SKIP LOCKED) and `ClaimCommit`, and `queue:retry` is
`RetrySelect` and `RetryCommit`. `Write` gives each statement of a worker three
outcomes: applied, not applied, applied and yet thrown. `DeleteDone` is inside
the same `try` as the handler (worker.ts:143), so its failure goes where the
handler's goes; `MakeThrows` is `container.make` outside it. `effects` and
`discarded` are histories. Left out: payloads, the `failed()` hook, the timeout
signal, which interrupts nothing by itself.

`JobLedger` is what the queue promises a caller: one record per task, with where
it is (queued, running, dead, stranded, gone) and how often it succeeded.
`JobQueue` implements it through the mapping at its end.

`Scheduler`: `clock[s]` is a server's wall clock in minutes; `loop[p]` where a
process is; `last[n]` the run table. `LockAndRead` is BEGIN, the lock and the
SELECT; `AlreadyRan` and `RunCommits` the two ends of the callback;
`DispatchFails` any exception; `Crash` a death in the transaction;
`ClockSetBack` and the early branch of `Wake` the environment's faults.

`DurableRunner`: `runs[r]` is the row with the sub-state of the node at the
cursor, `journal[r]` the journal in the order written, `jobs` the tokens. A
handler holds the run's row lock to its COMMIT, so it is one action, built by
`Transaction(j, row, log, kinds, next)`: the new row, the new journal, the
dispatch it makes on another connection, where the worker goes. A transaction
commits, commits and stops, or rolls back, and then its dispatch remains.
`Begin` fixes `now()`. `start()` is split because its job is visible before its
COMMIT, and so is the start of a child. Of what `JobQueue` allows for a job with
one attempt it keeps the outcomes (deleted, dead-lettered, stranded); an
instance of the full queue under the runner is not attempted. Left out: results
and inputs, the replay branch of `advance` (209-218), which a journal and a
cursor that share a transaction make unreachable. `parallel` and `route` run
through the envelope of `step`, so they are steps here.

### Payment

`PaymentWebhook`: the route from the verified body to the answer, for several
requests at once. `claim` is the dedup table, `row` the ledger (the version of the
event it shows), `req[r]` a request suspended at a statement or a handler, `acked`
the events answered 200. The claim is an INSERT of its own; handlers and upsert
are inside the tenant's transaction; `Fail` is a statement that throws, the
claim's INSERT and the COMMIT also when they were applied and their answer was
lost. Histories: `runs` (how often a handler ran for an event), `reordered`
(objects of which an event did not come oldest first and alone).

`PaymentDrivers`: a method is the sequence of requests it makes, known once the
input is; a request or its answer may be lost, and the caller calls again with
the same key. What Stripe and Omise make of a request is external. `SocialLogin`,
`Notifications` and `Mailing` are built alike: the package's code in steps, the
provider external, answers that get lost.

### Brain and retrieval

`ToolLoop`: one specification of the eighteen loops (five drivers, with and
without stream and schema), told apart by what each does at its four decisions:
when to look at the signal, whether to go on, what to make of a call it cannot
parse, and how to end at the last round.
`BrainDrivers`: what each driver makes of one conversation that changes
providers; a turn is a list of blocks, a wire format the blocks it carries.
`BrainThread`: load, send, append, delete of one stored thread by concurrent
requests. `McpClients`: handshake, borrowing and eviction. `Rag`: the index of
vectorized rows over both stores, retrieval and rerankers, both chunkers on
every short text.

### Cache and broadcast

`CacheLock`: one name, several handles, four drivers; `running` is what no
process sees, the tokens whose lease has not run out. `TaggedCache`: an entry and
its tags in memory, Postgres and Redis, cut at every command.
`PostgresBroadcaster`: one process of the polled backplane; `owed` is the history
of rows committed in time for a subscriber. `RedisBroadcaster`: the upstream
subscription, with commands under way that may fail, and the buffer of the
memory driver.

### Database and what is built on it

`UnitOfWork`: `stack[a]` the open scopes of a task, `tx[a]` its transaction with
the bound tenant, the locks and the event queue, `writes` the history of what
was written and what became of its event. `SchemaDiff`: the generator over two
tables and their references, applied to a catalog that refuses what Postgres
refuses (external). `MigrationRunner`: several processes with versions of the
code that differ. `QueryBuilder`, in two parts: builders as values, compiled to conditions
and placeholders; cursor paging and `chunk()` while others write.
`Workflow`: the builder and `run()` with late siblings and compensators that
throw. `Stateful`: `transition()` cut at its awaits.

### Kernel, HTTP, sign-in

`Application`, a container with a lifecycle: two parts, two next-state relations;
`EventBus`: dispatches.
`Http`, in two parts: groups, the trie, its walk with backtracking and
`resolveRoute`; one request from match to dispose. `HttpStreams`: readers of one
body, and the loop of server-sent events. `Auth`: requests of browsers statement
by statement, tokens, links, gate; TOTP, base32 and mail verification as
functions.

### View and storage

`Views`: tokenizer, compiler and renderer as operators over sequences of tokens,
compared on every short text with what brackets and turns say; the caches, the
watch loop and the manifest as state machines. `Storage`: both drivers cut at
their system calls or requests, with a crash; `list()` page by page.

### Instances

`MCJobQueue`, `MCScheduler`, `MCDurableRunner`: constants of one module.
`MCDelivery` (payment webhook and tool loops), `MCSettles` (queue, durable,
Postgres broadcaster, under fairness), `MCServices` (thirteen parts) and
`MCPlatform` (sixteen parts) check several modules in one run. Their parts share no
state: a behaviour is of the part it starts with, the others rest in one initial
state, and `VIEW PartView` tells states apart by the part that runs. For
UnitOfWork it also drops the label of a scope (`kind`), which no guard and no
checked property reads. A sum has the states of its parts added, not multiplied,
and checks each part as it would be checked alone. `MCPlatform` has the parts that
are proved about, and so no module that declares a recursive operator: it extends
`UnitOfWork` and instantiates the others with constants and variables of its own,
which `OutboundProofs`, `PaymentProofs` and `PlatformProofs` leave open. `MCServices` has the parts that only TLC checks.

## 3. Runs

| Run | Instance | Shows |
|---|---|---|
| `queue_safety` | 2 tasks on 2 queues, 2 workers (one a specialist), 1 operator, 3 failed statements, 2 dead workers | `MutualExclusion`, `AttemptBudget`, `OutboxAtomic`, `OneHome`, `SuccessOnce`, `ReservationStable`, and that `JobQueue` implements `JobLedger` |
| `scheduler_fleet` | 2 servers, 1 console, 3 entries (two of one name), 3 minutes, 1 fault, 1 clock jump; fair | `AtMostOncePerTick`, `RunsRecorded`, `PassedIsCovered`, `FanOutOnce`, `LastRunMonotone`, `TickEnds` |
| `durable_saga` | a run of three steps (retry, two compensators), 3 tokens, 2 faults, 1 dead worker, started inside a UnitOfWork | `JournalIsPrefix`, `SagaComplete`, `FinishedIsFinal` |
| `durable_mixed` | a parent with sleep, signal, loop and child nodes, two possible children, 3 tokens, 1 fault | `IterationsJournaled`, `ChildEndsFirst`, `NoSilentOrphan`, `Undivided` |
| `settles` | the queue with 1 fault and 1 death; a parent that polls a child, 4 tokens, 1 fault; a broadcaster with 2 subscribers and 2 events; each under its own fairness | `BroadcastInv`, `CommittedSettles`, `RunSettles`, `OwedArrives`, `CloseSettles` |
| `delivery` | 3 webhook events, 2 requests, 1 handler that throws, 1 fault; eighteen tool loops of 2 rounds with 2 calls, 1 resume; fair | `WebhookInv`, `ToolLoopInv`, `PaymentAnswered`, `RunEnds` |
| `services` | thirteen parts: lifecycle, bus, container; router and kernel, sign-in; formats, retrieval; schema diff, paging, query builders; views, storage | `DatabaseInv`, `KernelInv`, `HttpInv`, `ContentInv` |
| `platform` | sixteen parts: UnitOfWork, operators of the queue; locks, tags; Redis, MCP, event streams, bodies; threads, migration runners; sagas, state machines; payments, social, notifications, mail | `UnitOfWorkInv`, `OperatorsInv`, `CacheInv`, `ConnectionsInv`, `RecordsInv`, `WorkflowInv`, `OutboundInv` |
| `queue_redelivery`, `durable_start`, `durable_resurrect`, `chunk_precision` | small | violations, section 7 |

The invariants of the sums are conjunctions, one conjunct per part, each defined
and commented in its module. What the less obvious properties say:

- `SuccessOnce`: a handler that returned is not run again unless a statement
  failed or an operator asked for it. `OneHome`: a task is in one place - a row,
  a dead letter, done or discarded. `ReservationStable`: only the holder of a
  reserved row, or a flush, changes it.
- `PassedIsCovered`: a server that went past a due `oneServer` entry left its
  minute covered, unless its own dispatch failed. `FanOutOnce`: an entry without
  `oneServer` is dispatched once per server and minute, plus once per clock jump.
- `JournalIsPrefix` is the idempotency of `advance`: with any number of
  duplicated tokens the completed rows are the nodes before the cursor, once
  each, in order. `SagaComplete`: a failed run had every completed compensable
  step undone in one walk. `NoSilentOrphan`: a live run waits for a signal or
  has a token, a dead letter or a reserved row. `Undivided`: until something
  fails, a run has one token and a node one child.
- `WebhookInv`: a handler runs at most once for an event; a ledger row appears
  only after all of its event's handlers; events without `processed_at` are
  bounded by the failures; where an object's events came in order its row is at
  the newest.
- `UnitOfWorkInv`: no event of a write that was rolled back, none missing of one
  that was committed, locks exclude, statements run under the scope's tenant.
- `BroadcastInv`: a row owed to a subscriber is ahead of the cursor or in a
  loop's hands, whatever other loops, failures and the sweep do; and with one
  loop each subscriber gets ids in order, although they commit in any.
- `OperatorsInv` is the queue's inductive invariant with two operators racing
  each other, where a job may be duplicated but is never lost.

Formulas that state what a document promises and the code does not keep, or keeps
only under conditions the module names, stand in the modules without a run
(`DeletedIsGone`, `WithoutTenantIsUnbound`, `TenantColumnKept`, `GracefulExit`,
`NeverRejects`, `AbortReleases`, `EveryReaderIsAnswered`, `SiblingsCompensated`,
`BackwardNextMovesOn`, `LocksSurviveFlush`, `AppendsDoNotCollide`,
`PendingResumes`); section 7 says what happens in each.

### Bounds

Every bound is a CONSTANT or is given where the part is instantiated. Two
workers, operators, requests or processes are the least that interleave; three
where the code tells two apart from a third (three handles of a lock: a holder,
one that outlived its lease, one that waits; three readers of a body; three
subscribers). One fault (two or three for the queue, where a recovery may fail
again) and one crash suffice where nothing in the code reacts to a fault but by
the path the first one takes. Three scheduler minutes let one clock be behind and
another ahead of the record; three entries are needed for a tick that goes on
after a skipped one and for two entries of one name. Three tokens let an original,
a duplicate and the token one of them sends be alive together. Texts and
templates are all those up to five or six tokens of small alphabets, chosen so
that every pair of constructs meets; a template draws its tokens from one of several
small sets (loops, layouts, escapes) rather than from their union. Of two
tables that refer to each other in either direction, the order of creation is
reversed only where it matters, and the turns of a user carry an image with a text,
or sound. Deadlock is not checked: a queue with
nothing to do, a run that waits for a signal, and a bound that is used up stop
rightly. Symmetry is used for tenants alone, which nothing orders.

### Fairness

- Queue: `Worker.run` loops until its signal aborts and catches what
  `processOne` throws, so a worker that can take a step takes one (WF), and delays
  elapse (WF). Nobody is obliged to dispatch, to commit or to type a command.
- Scheduler: Postgres grants an advisory lock in the order of the requests: SF on
  `LockAndRead`; the statements after it return: WF. Clocks need not advance.
- Durable: SF on each token's handler, WF on COMMIT and delays. Strong fairness is
  an artefact of `MaxJobs`: a dispatch in the model may wait for a free slot.
- Broadcast: timers fire and queries return (WF); a query tried again and again is
  answered (SF). Publishers and subscribers need do nothing.
- Payment: a request that can go on does (WF); a provider redelivers until it is
  answered 200 (SF on the delivery).
- Tool loops: a started round goes on (WF); consumers, resumes and aborts are free.

## 4. Proofs

The theorems hold for all values of the constants that satisfy the named
assumptions; TLC evaluates those in every run of a module that extends theirs.
They type the constants, and `FreshChildren` says that a child's id is new, as
`ulid()` makes it. Modules that no run extends, or that need no more, have the
typing of their bounds as a hypothesis instead (`Bounds`: numbers are naturals).
Two hypotheses that say something stand in the theorems that need them:
`OneAtATime` (at most one operator retries: `queue_retry.ts` takes no lock, and with
two of them `OneHome` is false) and `InUow = {}` (no run is started inside a
UnitOfWork whose rollback would take its token away, section 7).

**JobQueueProofs** (11 theorems). `QueueInv`: `MutualExclusion` alone is not
inductive, because `SKIP LOCKED` protects a row while the claim transaction is
open and `reserved_at` after it; so a worker past its claim holds a reserved row,
if a row at all (`HeldRowsMatch`), and no row has an id that was not handed out
(`IdsFresh`). `DeliveryInv` adds that what workers and operators hold is backed
by what they read (`Backed`, `ReadsMatch`, `DoneWhenDeleting`); with it
`OutboxAtomic` and `NothingLost` are inductive for any number of operators, and
so is `ReservationStable`. `HomeInv` adds `SingleCopy`, `Alone` (a task's row,
worker and dead letter are never two) and `Once`, under `OneAtATime`; it gives
`OneHome` and `SuccessOnce`. `LedgerInv` adds `MissingRowExplained`: a row that is
gone was flushed, was deleted by its worker, or is a dead letter. With it every
action is a step of `JobLedger` or a stutter; `Implementation` is the safety part
of the refinement (`JobLedger` has no fairness).

**SchedulerProofs** (6). The holder of a name's lock dispatches minute m only if it
read less than m; the read is still in the table (`ReadIsFresh`), because one
process holds the lock (`LockHeldOnce`); no dispatch is above the table; so m was
not dispatched before. Nothing is assumed of the clocks. `PassedIsCovered` adds
that a run leaves the table at its minute or later and the table never falls
(`LastGrows`). For `FanOutOnce` an entry's dispatches by one server are counted
against the turns of its clock (`FanOutBudget`): a tick visits an entry once, and
ticks of one minute are separated by a jump.

**DurableRunnerProofs** (9). A run's row, journal and undo history are related by
`RunOK`, one run at a time. Every step moves every run by one of nine moves
(`Move`: it stands still, starts, completes a node, fails, iterates, parks or
retries, finishes, is undone in part or in full). `MoveKeepsRun` shows once that
each move keeps `RunOK`; the `...Outcome` lemmas show, action by action, which
move it makes. The strengthening is `SubstateAtCursor` (a stale loop counter would
make the next loop skip iterations) and `SpawningHoldsRow` (a parent whose child
is being started is not moved by another token). `NothingOrphaned`: each
unfinished run that waits for no signal is carried by a job, which moves it on or
which an operator can retry, in every state of every handler (`OrphanInv`).
`NothingDoubled`: while nothing failed, a run has one token, and the token of a
finished or waiting one is gone.

**OutboundProofs** (9) has the parts of `MCPlatform` that end outside the process: the
outbox, the operators' commands, and the conversations with providers. Its last theorem,
`OutboundSafe`, is the run's `OutboundInv`: it joins `LinksStayWhole`,
`ChannelsAreAnswered` and `MailIsAnsweredOnce` with `ChargedOncePerKey` of
`PaymentProofs`, and shows that a behaviour of the run is one of each of the four parts. `ScopeInv` (the
outermost scope opened the transaction, a keyed scope's lock is its own, a transaction
bound once has scopes of one tenant) is inductive by itself; on it `EventInv`: a queue
tells of writes of its own transaction, a write of an open transaction waits in its queue
or has been heard of because the transaction is flushing. `HonestOutbox` and
`LocksExclude` follow, and `ScopesSafe` states both for the run.

- *Operators* (`OperatorsSafe`): the queue's part of `platform` is an instance of
  `JobQueueProofs` with other names, whose lemmas are cited: with operators that race
  `queue:retry` and `queue:flush` the queue keeps `QueueInv` and loses no job. Its
  hypothesis `JobsGiven` is `JobQueue`'s own assumption.
- *Notifications* (`ChannelsAreAnswered`, invariant `NotifyIInv`): a send is at the channel
  behind those it has answered; what was taken in has an answer that says so or lets one
  fear it (`Took`); what a stream got is, in order, some of what was pushed to it, the rest
  being counted as lost (`StreamHolds`); the registry's bucket of a key has the open
  streams of that key and no other (`Registered`).
- *Mail* (`MailIsAnsweredOnce`): `MailIInv` relates each mail to the job it was made of,
  counts a job's copies against the deliveries its worker did not hear of
  (`TriesCounted`) and the answers of a mail against those of its webhook
  (`AnswersCounted`); `BatchIInv` has everything of a LINE batch handled that lies before
  what was touched.
- *Social sign-in* (`LinksStayWhole`, invariant `SocialIInv`): the two tokens of a link,
  and of every tab that is about to write one, belong to one identity, and where the
  refresh token is dead the access token is too (`Paired`); what a tab read of the table is
  still so when it writes (`ActorsHold`); codes used up are counted against the tabs that
  hold an answer (`CodesUsedUp`).

The hypotheses `SendingsBounded`, `MailGiven` and `SocialGiven` type the constants; `MailGiven`
also says that the mark a side puts on an automatic answer is one its own filter
knows.

**PaymentProofs** (1) proves `ChargedOncePerKey`, all of `PaymentDriversInv`, for any
callers and any number of calls, retries and losses. Its hypothesis `PayGiven`: the
drivers are among Stripe, Omise and the mock, the payment methods have a card among
them, the callers are finitely many. The inductive invariant is `PayIInv`; it and
the facts it rests on:

- What a driver does for a call is a refusal or a plan of one or two requests
  (`PlanKnown`), one lemma over every method of the three drivers; a plan that makes
  something starts with that, and carries the caller's key where the driver honours it.
- What a provider holds only moves on (`Moves`): an object stays in its place with its
  key, and money that was taken is later taken, given back or reversed, never untaken.
  So an answer that was true when it was given stays true (`AnswerFits`).
- A caller's next request is about an object that exists and may be asked that
  (`CallersHold`); with it no two objects of one family have the key (`KeyedOnce`),
  since a request with a key the provider knows gets the object that is there.
- A source without a charge is a request that was lost or a caller between its two
  requests (`SourcesCounted`), a count of finite sets.

**DeliveryProofs** (4). Of the webhook: `ClaimInv` is `WebhookInv` with `ClaimHeld` (one
request holds a claimed event that is not finished), `Progress` (its handlers
before its place ran once, those behind it not at all) and `InTurn` (where an
object's events were not reordered, the request that may still change the ledger
is alone with the object's newest event). Events left without `processed_at` are
counted: each left by a throw or by a server death, which takes at most every
request with it.

Of the tool loops: `ConversationInv`: each turn of calls but the last is followed
by its results (`Answered`), the loop asks only behind results and runs the calls of
the last turn (`LastTurn`), what it went past has its result (`Passed`), and the
counters of this leg and of the earlier ones are those of the conversation at every
moment (`Totals`), not only at the end. The eighteen loops share a dozen steps: one
lemma per step, with the kinds of calls and the ways to end as parameters; a loop is
then a list of its steps.

**PostgresBroadcasterProofs** (2). `BroadcastInv` needs two strengthenings. `Ahead`:
an owed row is in the table, above the cursor, above the bound of every query under
way, and in every batch that has a newer row - so a batch whose oldest row moves the
cursor cannot step over it, whichever loop fans it out. `OneReader`: while a single
subscribe() has started the poller, its query starts at the cursor, the rows it holds
are above the cursor, and no subscriber has got an id above it. `BatchIsOldest` is
the fact about `ORDER BY id LIMIT n` both rest on.

**PlatformProofs** (14) is about the other parts of `MCPlatform`. A part has an
inductive invariant and a theorem about every behaviour of the part; the last section
(`PartsStart`, `PartsStep`) shows that a behaviour of the run is a behaviour of each
part, which gives `CacheSafe`, `ConnectionsSafe`, `RecordsSafe` and `WorkflowSafe`, the
run's invariants as they stand in the configuration. The hypotheses type the
constants (`TagsBounded`, `McpBounded`, `RedisBounded`, which wants a buffer of one
message at least, `MigrationsAreOrdered`, bounds in `Nat`), or say that "none" is not
a value (`BodyHypothesis`, `None \notin Clerk`).

- *Locks* (`LeasesExclude`): tokens are new and each handle that may still release has
  its own (`TokensApart`); the only lease that runs is the slot's (`LeaseInSlot`). For
  the drivers that compare the owner as they delete: Memcached, and Redis after a
  flush, are outside, as section 7 tells.
- *Tags* (`TagsFindEntries`): what a call under way has written so far (`CallsHold`) and,
  for each driver, how entry and index agree between its commands; a put that is
  overtaken between two commands marks its key as unsettled (`PutUnsettles`).
- *Threads* (`ThreadsKeepOrder`): a request that inserts has seen no more turns than are
  stored, and an answer follows its question. *Migrations* (`TrackingTellsTheSchema`):
  a later migration is of no earlier batch, a rollback that met no other command takes
  back exactly the last one, and while no two runners cross, what is applied has no gap.
- *MCP* (`SessionsHaveOneOwner`): a client that lives is the pool's, or of a run that
  closes it, or one of those whose loss the code is known for. *Redis*
  (`BackplaneDelivers`): the commands on their way are a subscription, the end of one,
  or the end of one and the next, and the upstream is what they will leave.
- *Streams* (`StreamsGiveBack`, `BodiesAreReadOnce`): the iterable, the reader and the
  timer of an event stream by the phase of its loop; readers of a body that do not
  overlap find the value the first one parsed.
- *Sagas* (`SagasCompensate`): while it compensates, each compensator a saga has to
  call was called or is owed, those called before those owed (`Owed`). *State machines*
  (`RowsFollowTheMachine`): a guard's verdict stands for the state the copy showed
  (`CheckedStands`), and a write or an event that stands was made by a call
  (`WritesStand`).

How the proofs are laid out: a lemma says what an action does to the tables and to
its own process (the `...Effect` lemmas), generic lemmas say what such a change
keeps, and one lemma per action joins them; the theorems at the end are temporal
glue.

Only model-checked:

- the liveness properties (`CommittedSettles`, `TickEnds`, `RunSettles`, `OwedArrives`,
  `CloseSettles`, `PaymentAnswered`, `RunEnds`), which need fairness and ENABLED;
- the invariants of `services`. `ContentInv`, `HttpInv` and `DatabaseInv` compare
  recursive functions (renderer and parser, chunkers, listing, the walk of the trie,
  the compiler of queries, the order of tables) with reference definitions for every
  short input: for all inputs this is induction over data, whose theorems take an
  operator as their parameter and cannot be instantiated by the installed provers.
  Their modules, and those of `KernelInv`, declare RECURSIVE operators, in whose scope
  `tlapm` has no SMT backend.

Every invariant and action property of the other passing runs is proved.

## 5. Running

    tlc -workers 2 -config queue_safety.cfg MCJobQueue.tla
    tlapm JobQueueProofs.tla

The module of each run is in `PROJECT.json`. The longest runs (`services`,
`platform`) take about three minutes on two workers, the longest proofs
(`PlatformProofs`, `OutboundProofs`) a quarter of an hour each.

## 6. Plan

1. Proofs: `Application` and `EventBus` (`KernelInv`) once the order of providers is a fold.
2. Modules: `Cron` (fields, ranges, steps, day-of-month against day-of-week) against
   a reference definition; the Memcached client's pipelined replies.
3. Breadth: built-in middleware of HTTP, joins and eager loading of the
   QueryBuilder, the session payloads of auth.

## 7. Where code and documents disagree

Four disagreements have a run that shows the violation.

- `queue_redelivery`: the claim takes rows with `reserved_at IS NULL` and nothing
  clears the reservation of a dead worker (worker.ts:245), so its job is never run
  again; the durable package counts on redelivery (journal_schema.ts:6,
  docs/durable/guides/handlers.md:130).
- `durable_start`: `start()` dispatches on another connection (durable_runner.ts:164),
  so the job can run before the run's row exists and is dead-lettered with its one
  attempt; docs/durable/api.md:133 says the two commit together.
- `durable_resurrect`: `advance()` does not turn away the token of a compensating
  run (durable_runner.ts:193); a step whose attempts are exhausted runs again, and
  the run goes on.
- `chunk_precision`: a cursor keeps a timestamp to the millisecond
  (query_builder.ts:94), the column to the microsecond; `chunk()` repeats or skips
  rows.

The others were met while translating. They are part of the models, which say what
the code does; where a formula states the document's claim its name is given.

**Queue and scheduler.** `opts.attempts` is documented (docs/queue/api.md:101) but a
class's static attempts win (worker.ts:170). The timeout only aborts a signal
(worker.ts:133). `queue:retry` takes no lock, so two of them duplicate a job
(queue_retry.ts:43); `queue:flush` deletes rows that are running. Exactly once per tick
(docs/queue/README.md:39) is at most once: a server that dies before its tick, or
whose dispatch fails, loses the minute (scheduler.ts:159, 182). Two entries of one
class share a name, and with `oneServer` one of them never runs (scheduler.ts:100).

**Durable.** The unique index of the journal (docs/durable/README.md:150, api.md:255)
is created nowhere (durable_provider.ts:82). `compensate()` orders by `completed_at`,
which is BEGIN's time (durable_runner.ts:301; lifecycle.md:76). The compensator of the
step that failed is not run (docs/durable/README.md:94; code 305). A loop's ceiling is
tested before its `until` (469). A failing `start` of a child is not retried. A
`delay` or `signalName` function that throws dead-letters the token. `start()` in a
UnitOfWork that rolls back leaves a pending run without a job (157), which is why
`NothingOrphaned` assumes `InUow = {}`. Each start, signal and child start holds one
pool connection and asks for another; a full pool of them waits for itself (164).

**Payment.** `applyEvent` returns before its switch when an event has no fields, so
such a deletion removes nothing (`DeletedIsGone`, payment_ledger.ts:71). Handlers run
before the upsert, while docs/payment/README.md:116 says the ledger is up to date by
then. An older event that is delivered late puts the row back. The header says a
500 makes the provider retry, but the retry is answered as a duplicate. The upsert of
a subscription leaves out `price_provider_id`. A handler that reads the ledger uses
the pool and does not see the uncommitted row. Stripe: `capture: false` makes an
unconfirmed intent whose id `charges.capture` does not take; the id of a pending charge
is an intent's, which retrieve and refund do not take; create may throw after the
payment. Omise: a source drops `capture`; a pending `charge.create` and a failed
`charge.complete` are both reported as succeeded (omise_webhook.ts:46); cancel at period
end cancels now. The mock driver declares idempotency and honours it in one method.

**Social.** A second consent of Google has no refresh token, and `connect()` writes
null over the stored one (social_account_repository.ts:93; docs/social/guides/google.md:71
warns). The unique index has no tenant, and the race of two links ends as a raw
violation instead of `SocialAccountAlreadyLinkedError`. `disconnect` does not revoke. A
forgotten `expectedState` skips the check.

**Notification, mail, instant.** The SSE driver answers `delivered: true` when all
targets left during the hook's await, and a bucket that was dropped and made again
meanwhile misses the new subscriber. 408 is retryable for webhooks and not for Discord.
The same channel twice in `via()` is a duplicate key. Alibaba drops custom headers, so
the mark of an auto-reply is lost and two auto-repliers may loop; docs/mail/api.md:282
says it throws. A retried mail job sends again. One malformed LINE event fails its
batch, and in the documented route an event whose reply was lost blocks those behind it
at every redelivery.

**Brain.** OpenAI drops the media of a turn that also has tool results. A turn of
compaction or MCP blocks alone is an empty message after a change of provider. A
chat that throws leaves the user's turn in the thread, and concurrent sends interleave.
Responses sends the whole history and `previous_response_id`, so turns are seen twice
(docs/brain/guides/openai-responses.md:152); a stream of it that fails ends as an
ordinary stop. A suspended round is resumed by answering its pending calls (`PendingResumes`,
suspended_run.ts:21), but OpenAI's finish `length` leaves calls without results. The
budget of `maxIterations` starts again at each resume. `AgentRunner.stream()` ignores
`suspend`. `close()` during a handshake leaks the client. Two appends to a thread collide
(`AppendsDoNotCollide`, brain_message_repository.ts:44).

**Rag.** `vectorize` deletes before it embeds, so a failed embed leaves the row out of
the index, and two overlapping calls duplicate chunks. `rag:reindex` runs outside a
tenant, pages by offset and so skips rows. `retrieve()` without a collection uses the
store's name. A recursive chunk may exceed its size by the overlap. Memory compares
array filters by identity, pgvector by containment.

**Cache.** A flush removes locks (`LocksSurviveFlush`, docs/cache/README.md:145).
`remember` stores a value computed before a later put (cache.ts:90). A half-failed
flush leaves entries no tag reaches; in Postgres a put beside a flush fails on the
foreign key. The comment of the Redis `forget` is wrong once the key was put again.

**Broadcast.** The poller of Postgres does not stop at zero subscribers
(postgres_broadcaster.ts:24). Two concurrent first subscribes start two loops; a
subscribe after close never ends; a sweep timer that starts late survives close; an id
that commits below the cursor is skipped. Redis: a failed UNSUBSCRIBE leaves a second
listener, and a SUBSCRIBE answered after close leaks.

**UnitOfWork, repositories.** The comment says a listener's throw rolls back
(unit_of_work.ts:14, 46, 68), but these events are not cancelable and the throw is
swallowed (event_bus.ts:77; docs/database/guides/repositories.md:148 agrees with the
code). A caught SQL error aborts the transaction: events are flushed and COMMIT rolls
back. A failed COMMIT comes after the flush. `withoutTenant` inside a scope that bound one joins its
transaction and stays bound (`WithoutTenantIsUnbound`, docs/database/api.md:911). A hard
delete emits `deleted` for a row that was not there.

**Schema, queries.** A self-referencing schema is a "circular FK". A tenanted table may
be made before the registry it references. `_strav_tenant_sequences` would be dropped
under `allowDrop`, and of a database in step with its schemas the tenant's column
(`TenantColumnKept`, docs/database/guides/migration_generator.md:115). Renames are emitted every time. A
NOT NULL column fails on a table with rows. Cursor paging skips NULLs, and the next
cursor of a backward page points back (`BackwardNextMovesOn`, query_builder.ts:720,
737). `where(col, value)` with a value spelled like an operator is read as one
(1109). `count()` and `exists()` ignore CTEs and unions; ORDER BY before UNION is
invalid SQL.

**Workflow, machine.** The finished siblings of a failed parallel entry are not
compensated (`SiblingsCompensated`, docs/workflow/guides/sagas.md:34). A transition's
event is emitted at once, also inside a UnitOfWork that rolls back (stateful.ts:107); a
failed update leaves the object ahead of its row; stale copies lose updates; the guard
is run once in apply and not in `availableTransitions` (lifecycle.md:39).

**Kernel.** `start` sets its flag at its end, so two overlap; a shutdown during start
and a provider added meanwhile are lost; a second signal exits at once
(`GracefulExit`, docs/kernel/api.md:161). A once-listener is removed before the
dispatch and lost if an earlier one cancels. The comment of `emitParallel`
(event_bus.ts:189) says one failure rejects; the code and docs/kernel/api.md:225 say
all. A singleton keeps a captive scoped dependency (docs/kernel/guides/container.md:159);
dispose keeps bindings, and later resolves build instances anew.

**HTTP.** The kernel rejects, and its scope is not disposed, for an undecodable path
parameter (trie.ts:166), an unknown middleware and a missing Logger (`NeverRejects`,
http_kernel.ts:20). A scope is disposed while a stream's body still runs. Plans made by
`precompile()` are keyed by objects that are never looked up. Two optional parameters
in a row conflict although trie.ts:186 supports them. CORS with `*` and credentials
sends Allow-Credentials (docs/http/api.md:480). An abort releases the iterable of an SSE
response only at its next value (`AbortReleases`, sse_response.ts:17); a second reader
of a body may get `{}` (`EveryReaderIsAnswered`, docs/http/api.md:224,
form_request.ts:159).

**Auth.** In the documented login, `login` then `regenerate`, the latter reads the
request's cookie and rotates the previous session (docs/auth/guides/sessions.md:120).
Two consumes of one magic link succeed (magic_link_manager.ts:107, docs/auth/api.md:404
says atomically). A regenerate across `killAllForUser` leaves a session. A touch that
races a regenerate throws, or puts the retired cookie back. Policies look at the
default guard even after `auth:api`. A verification id with a '.' never verifies.

**View.** A page `[...path].strav` is not found at render, as its dots become slashes
(docs/view/guides/pages.md:14). The layout's own section overwrites the child's
(view_engine.ts:411 says otherwise; api.md:223 agrees with the code). `@each` drains an
iterable that can be read once. Clearing the cache during a compile puts the stale
entry back. Changes during the first build are missed. Disk entries are not written
atomically, and their key lacks the compiler's version. `version()` during a load
caches the unversioned URL.

**Storage.** The visitor of `LocalStorage.list` answers "stop" for an entry it only
wants to skip (local_storage.ts:271, 341), so pages after the first are empty and the
erasure loop of docs/storage/guides/multi_tenancy.md:246 deletes one page. S3 `move` of a
key onto itself deletes it; a put between its copy and its delete is lost. Two
overlapping S3 deletes both answer true (api.md:40). Local writes are torn by a crash.
Metadata given to an S3 put is dropped.

**Not modelled, noted.** The Memcached client pipelines requests although its header
says the next one waits, so a late answer goes to the next request
(memcached_client.ts:9). In `cron.ts` day-of-month and day-of-week must both match,
where classic cron takes either.
