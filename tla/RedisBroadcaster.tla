--------------------------- MODULE RedisBroadcaster ---------------------------
(***************************************************************************)
(* One channel of the Redis backplane in one process (redis_broadcaster.ts) *)
(* with the local subscriptions it fans out to (memory_broadcaster.ts): one *)
(* upstream SUBSCRIBE is shared by the local subscribers, made by the first *)
(* and undone by the last.  Commands go to Redis in order on one connection *)
(* and may fail; a call is cut where the code awaits.                       *)
(***************************************************************************)
EXTENDS Integers, Sequences, FiniteSets

CONSTANTS
    Subscriber,
    MaxBufferSize,  \* of a local subscription
    MaxMessages,    \* bound: messages published
    MaxErrors       \* bound: commands that fail

VARIABLES
    upstream,   \* upstream.get(channel): "none", "pending" or "ready" (the promise)
    subscribed, \* subscribed.has(channel)
    closed,
    commands,   \* sent and not answered: sequence of "sub", "unsub"
    listeners,  \* callbacks the client holds for the channel
    dropping,   \* callers between detach() and the rest of dropIfLast()
    local,      \* subscriptions: [state, buffer, waiting, last read, newest delivered]
    published,  \* messages so far: message n is the n-th
    failed      \* commands that failed: [sub, unsub]

shared == <<upstream, subscribed, commands, listeners, dropping>>
vars == <<shared, closed, local, published, failed>>

Fresh == [state |-> "new", buffer |-> <<>>, waiting |-> FALSE, last |-> 0, newest |-> 0]

TypeOK ==
    /\ upstream \in {"none", "pending", "ready"} /\ subscribed \in BOOLEAN /\ closed \in BOOLEAN
    /\ commands \in Seq({"sub", "unsub"}) /\ listeners \in Nat
    /\ dropping \subseteq Subscriber
    /\ \A s \in Subscriber :
        /\ local[s].state \in {"new", "open", "closed"} /\ local[s].waiting \in BOOLEAN
        /\ Len(local[s].buffer) <= MaxBufferSize /\ local[s].last \in 0..MaxMessages
    /\ published \in 0..MaxMessages /\ failed.sub + failed.unsub <= MaxErrors

Init ==
    /\ upstream = "none" /\ subscribed = FALSE /\ closed = FALSE
    /\ commands = <<>> /\ listeners = 0 /\ dropping = {}
    /\ local = [s \in Subscriber |-> Fresh]
    /\ published = 0 /\ failed = [sub |-> 0, unsub |-> 0]

Open == {s \in Subscriber : local[s].state = "open"}

(* -------------------------- local subscriptions --------------------------- *)
\* n copies of a message come after what is buffered; a full buffer gives up its
\* oldest for each.
Fits(n) == IF n > MaxBufferSize THEN MaxBufferSize ELSE n
Buffered(buffer, m, n) ==
    LET all == Len(buffer) + n
    IN  [k \in 1..Fits(all) |->
            LET i == all - Fits(all) + k IN IF i <= Len(buffer) THEN buffer[i] ELSE m]

\* deliver(), n times: a waiting next() takes the first past the buffer.
Delivered(b, m, n) ==
    IF b.state # "open" \/ n = 0 THEN b
    ELSE IF b.waiting
         THEN [b EXCEPT !.waiting = FALSE, !.last = m, !.newest = m, !.buffer = Buffered(@, m, n - 1)]
         ELSE [b EXCEPT !.buffer = Buffered(@, m, n), !.newest = m]

\* Each callback the client holds publishes the message locally.
Publish ==
    /\ published < MaxMessages
    /\ published' = published + 1
    /\ local' = [s \in Subscriber |->
          IF closed THEN local[s] ELSE Delivered(local[s], published + 1, listeners)]
    /\ UNCHANGED <<shared, closed, failed>>

\* A consumer that calls next() again once the last call has settled.
ConsumerNext(s) ==
    /\ local[s].state # "new" /\ ~local[s].waiting
    /\ IF local[s].buffer # <<>>
       THEN local' = [local EXCEPT ![s].last = Head(local[s].buffer), ![s].buffer = Tail(@)]
       ELSE local[s].state = "open" /\ local' = [local EXCEPT ![s].waiting = TRUE]
    /\ UNCHANGED <<shared, closed, published, failed>>

\* detach(): a pending next() is told the end; what is buffered can be read.
Detached(b) == [b EXCEPT !.state = "closed", !.waiting = FALSE]

(* ---------------------- the shared upstream subscription ------------------- *)
\* subscribe(): ensureUpstream() runs to its first await, and the first caller
\* sends the command.
Subscribe(s) ==
    /\ local[s].state = "new" /\ ~closed
    /\ local' = [local EXCEPT ![s].state = "open"]
    /\ IF upstream = "none"
       THEN upstream' = "pending" /\ commands' = Append(commands, "sub")
       ELSE UNCHANGED <<upstream, commands>>
    /\ UNCHANGED <<subscribed, listeners, dropping, closed, published, failed>>

\* Redis answers a SUBSCRIBE.
SubAnswered ==
    /\ commands # <<>> /\ Head(commands) = "sub"
    /\ commands' = Tail(commands)
    /\ listeners' = listeners + 1
    /\ subscribed' = TRUE
    /\ upstream' = IF upstream = "pending" THEN "ready" ELSE upstream
    /\ UNCHANGED <<dropping, closed, local, published, failed>>

\* A SUBSCRIBE fails: the next subscribe() will try again.
SubFails ==
    /\ commands # <<>> /\ Head(commands) = "sub"
    /\ failed.sub + failed.unsub < MaxErrors
    /\ failed' = [failed EXCEPT !.sub = @ + 1]
    /\ commands' = Tail(commands)
    /\ upstream' = "none"
    /\ UNCHANGED <<subscribed, listeners, dropping, closed, local, published>>

Unsubscribe(s) ==
    /\ local[s].state = "open"
    /\ local' = [local EXCEPT ![s] = Detached(@)]
    /\ dropping' = dropping \cup {s}
    /\ UNCHANGED <<upstream, subscribed, commands, listeners, closed, published, failed>>

IsLast == ~closed /\ Open = {} /\ subscribed

\* dropIfLast() after the await: who may have subscribed in between counts.
DropIfLast(s) ==
    /\ s \in dropping
    /\ dropping' = dropping \ {s}
    /\ IF IsLast
       THEN subscribed' = FALSE /\ upstream' = "none" /\ commands' = Append(commands, "unsub")
       ELSE UNCHANGED <<subscribed, upstream, commands>>
    /\ UNCHANGED <<listeners, closed, local, published, failed>>

UnsubAnswered ==
    /\ commands # <<>> /\ Head(commands) = "unsub"
    /\ commands' = Tail(commands)
    /\ listeners' = 0
    /\ UNCHANGED <<upstream, subscribed, dropping, closed, local, published, failed>>

\* The error is swallowed; the client keeps its callback.
UnsubFails ==
    /\ commands # <<>> /\ Head(commands) = "unsub"
    /\ failed.sub + failed.unsub < MaxErrors
    /\ failed' = [failed EXCEPT !.unsub = @ + 1]
    /\ commands' = Tail(commands)
    /\ UNCHANGED <<upstream, subscribed, listeners, dropping, closed, local, published>>

Settled(b) == Detached(b)

\* close(), with its UNSUBSCRIBE as the last command and the local close after it.
\* (It awaits the answer before it closes the local subscriptions; a message that
\* comes meanwhile is refused by the callback, so the two are one step here.)
Close ==
    /\ ~closed
    /\ closed' = TRUE
    /\ commands' = IF subscribed THEN Append(commands, "unsub") ELSE commands
    /\ subscribed' = FALSE /\ upstream' = "none"
    /\ local' = [s \in Subscriber |-> IF s \in Open THEN Settled(local[s]) ELSE local[s]]
    /\ UNCHANGED <<listeners, dropping, published, failed>>

Answered == SubAnswered \/ UnsubAnswered
Dropped == \E s \in Subscriber : DropIfLast(s)

Next ==
    \/ Publish \/ SubAnswered \/ SubFails \/ UnsubAnswered \/ UnsubFails \/ Close
    \/ \E s \in Subscriber :
        Subscribe(s) \/ ConsumerNext(s) \/ Unsubscribe(s) \/ DropIfLast(s)

Spec == Init /\ [][Next]_vars

(* ------------------------------- properties ------------------------------- *)
\* Once Redis has answered, a live subscriber has its upstream: neither the
\* last one leaving while another arrives nor a command still on its way undoes
\* it, and only a SUBSCRIBE that failed leaves it without (ensureUpstream,
\* dropIfLast).
LiveHasUpstream ==
    commands = <<>> /\ dropping = {} /\ ~closed /\ Open # {} /\ failed.sub = 0
        => listeners > 0 /\ subscribed /\ upstream = "ready"

\* The channel has one callback, so that a message is delivered once; each
\* UNSUBSCRIBE that failed may leave one more behind.
OneListener == listeners <= 1 + failed.unsub

\* A slow consumer misses old messages and never the newest; what it reads comes
\* in order; and nobody waits while there is something to read or once its
\* subscription is over (deliver, detach, close).
NewestKept ==
    \A s \in Subscriber :
        LET b == local[s] IN
        /\ b.newest = IF b.buffer = <<>> THEN b.last ELSE b.buffer[Len(b.buffer)]
        /\ failed.unsub = 0 => \A k \in DOMAIN b.buffer :
              b.buffer[k] > IF k = 1 THEN b.last ELSE b.buffer[k - 1]
        /\ b.waiting => b.buffer = <<>> /\ b.state = "open" /\ ~closed

\* The types, and the three invariants above.
RedisInv == TypeOK /\ LiveHasUpstream /\ OneListener /\ NewestKept
================================================================================
