------------------------------- MODULE CacheLock -------------------------------
(***************************************************************************)
(* cache.lock(name, ttl) of the four cache drivers: one name, several       *)
(* handles that block() for it, hold it for a lease and release it by the   *)
(* owner token they were given.  A lease runs out by itself, a holder may   *)
(* outlive its lease or die, and flush() may come at any time.              *)
(* `running' is what no process can see: the tokens whose lease has not run *)
(* out.                                                                     *)
(***************************************************************************)
EXTENDS Naturals, FiniteSets

CONSTANTS
    Handle,
    Driver,     \* the drivers to check: of "memory", "postgres", "redis", "memcached"
    MaxTokens   \* bound: acquisitions

VARIABLES
    driver,     \* the driver in use
    slot,       \* the stored owner, or Nobody
    running,    \* tokens whose lease has not run out
    handle,     \* handles: [pc, owner]
    nextToken,  \* ulid() and randomToken()
    flushed     \* flush() has been called

vars == <<driver, slot, running, handle, nextToken, flushed>>

Nobody == 0
Phase == {"idle", "blocked", "critical", "releasing", "deleting", "done", "timedout", "dead"}

TypeOK ==
    /\ driver \in Driver
    /\ nextToken \in 1..(MaxTokens + 1)
    /\ slot \in 0..MaxTokens /\ running \subseteq 1..MaxTokens
    /\ handle \in [Handle -> [pc : Phase, owner : 0..MaxTokens]]
    /\ flushed \in BOOLEAN

Init ==
    /\ driver \in Driver
    /\ slot = Nobody /\ running = {} /\ nextToken = 1 /\ flushed = FALSE
    /\ handle = [h \in Handle |-> [pc |-> "idle", owner |-> Nobody]]

At(h, pc) == handle[h].pc = pc
Goto(h, pc) == handle' = [handle EXCEPT ![h].pc = pc]

\* block(timeoutMs, fn) starts to poll.
Block(h) ==
    /\ At(h, "idle")
    /\ Goto(h, "blocked")
    /\ UNCHANGED <<driver, slot, running, nextToken, flushed>>

\* Redis and Memcached drop a value whose time is over; the row of Postgres and
\* the entry in memory stay and are overwritten.
Free == slot \notin running

\* One poll that succeeds: the slot takes a new token, the callback starts.
TryAcquire(h) ==
    /\ At(h, "blocked")
    /\ Free
    /\ nextToken <= MaxTokens
    /\ nextToken' = nextToken + 1
    /\ slot' = nextToken
    /\ running' = running \cup {nextToken}
    /\ handle' = [handle EXCEPT ![h] = [pc |-> "critical", owner |-> nextToken]]
    /\ UNCHANGED <<driver, flushed>>

\* The deadline passes after a poll that failed.
TimeOut(h) ==
    /\ At(h, "blocked")
    /\ ~Free
    /\ Goto(h, "timedout")
    /\ UNCHANGED <<driver, slot, running, nextToken, flushed>>

\* fn returns or throws; the finally clause releases.
Return(h) ==
    /\ At(h, "critical")
    /\ Goto(h, "releasing")
    /\ UNCHANGED <<driver, slot, running, nextToken, flushed>>

\* The stored owner is the handle's token: for the row of Postgres and the entry
\* in memory also after the lease has run out.
Owns(h) ==
    /\ slot = handle[h].owner
    /\ driver \in {"memory", "postgres"} \/ slot \in running

\* Compare and delete in one statement, script or turn of the event loop.
Release(h) ==
    /\ At(h, "releasing")
    /\ driver # "memcached"
    /\ IF Owns(h) THEN slot' = Nobody /\ running' = running \ {handle[h].owner}
                  ELSE UNCHANGED <<slot, running>>
    /\ Goto(h, "done")
    /\ UNCHANGED <<driver, nextToken, flushed>>

\* Memcached reads the owner, then deletes the key in a second request.
ReleaseRead(h) ==
    /\ At(h, "releasing")
    /\ driver = "memcached"
    /\ Goto(h, IF Owns(h) THEN "deleting" ELSE "done")
    /\ UNCHANGED <<driver, slot, running, nextToken, flushed>>

ReleaseDelete(h) ==
    /\ At(h, "deleting")
    /\ slot' = Nobody
    /\ Goto(h, "done")
    /\ UNCHANGED <<driver, running, nextToken, flushed>>

\* A lease runs out, wherever its holder is.
Expire(t) ==
    /\ t \in running
    /\ running' = running \ {t}
    /\ UNCHANGED <<driver, slot, handle, nextToken, flushed>>

\* sweepLocksOnce deletes rows that have expired.
Swept == slot # Nobody /\ slot \notin running
Sweep ==
    /\ driver = "postgres"
    /\ Swept
    /\ slot' = Nobody
    /\ UNCHANGED <<driver, running, handle, nextToken, flushed>>

\* flush(): Postgres and memory keep locks apart; Redis deletes every key with
\* the prefix, Memcached everything, lock keys included.
Flush ==
    /\ ~flushed
    /\ flushed' = TRUE
    /\ slot' = IF driver \in {"redis", "memcached"} THEN Nobody ELSE slot
    /\ UNCHANGED <<driver, running, handle, nextToken>>

\* The process of a holder dies.
Crash(h) ==
    /\ At(h, "critical")
    /\ Goto(h, "dead")
    /\ UNCHANGED <<driver, slot, running, nextToken, flushed>>

Next ==
    \/ \E h \in Handle :
        \/ Block(h) \/ TryAcquire(h) \/ TimeOut(h) \/ Return(h) \/ Release(h)
        \/ ReleaseRead(h) \/ ReleaseDelete(h) \/ Crash(h)
    \/ \E t \in running : Expire(t)
    \/ Sweep \/ Flush

Spec == Init /\ [][Next]_vars

(* ------------------------------ properties ------------------------------ *)
Holders == {h \in Handle : handle[h].pc \in {"critical", "releasing"} /\ handle[h].owner \in running}

\* Two handles never hold the name within their leases: whoever outlives its
\* lease, dies, is swept or releases late harms nobody's newer lease.  Memcached,
\* whose release is two requests, is excepted; so is Redis after a flush.
OneLease ==
    driver \in {"memory", "postgres"} \/ (driver = "redis" /\ ~flushed)
        => /\ Cardinality(Holders) <= 1
           /\ running \subseteq {slot}

\* README.md of the cache, line 145: locks survive flush(), with every driver that
\* compares the owner.
LocksSurviveFlush == driver # "memcached" => Cardinality(Holders) <= 1
================================================================================
