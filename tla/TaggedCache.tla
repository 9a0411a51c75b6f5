------------------------------ MODULE TaggedCache ------------------------------
(***************************************************************************)
(* cache.tags(...).put / flush and the untagged operations around them, in  *)
(* the drivers that support tags.  Memory works in one turn of the event    *)
(* loop; Postgres and Redis send one statement or command after another,    *)
(* and other callers' commands come in between.                             *)
(*                                                                          *)
(* `index' is tag -> keys (tagKeys, the strav_cache_tags rows, the tag:     *)
(* sets), `tagged' is key -> tags (keyTags, the tagged: sets; Postgres      *)
(* reads the same rows the other way).  `want' and `settled' are what the   *)
(* callers know: the tags of the last put of a key, and whether that put    *)
(* returned without a call that races with it.                              *)
(***************************************************************************)
EXTENDS Naturals, FiniteSets

CONSTANTS
    Caller, Key, Tag,
    TagDriver,   \* of "memory", "postgres", "redis"
    MaxCalls,    \* bound: calls
    MaxFaults    \* bound: commands that fail

VARIABLES
    driver,      \* the driver in use
    entry,       \* keys that have a value
    index,       \* tag -> keys
    tagged,      \* key -> tags
    call,        \* per caller the call it is in
    raced,       \* callers whose call overlapped one it races with
    want, settled,
    calls, faults

vars == <<driver, entry, index, tagged, call, raced, want, settled, calls, faults>>
store == <<entry, index, tagged>>
known == <<want, settled>>

NoCall == [op |-> "none", key |-> {}, tags |-> {}, pc |-> "idle", rest |-> {}]
Op == {"none", "put", "flush", "forget"}
Phase == {"idle", "old", "unindex", "untag", "tag", "index", "collect", "drop", "dropTagged"}

TypeOK ==
    /\ driver \in TagDriver /\ entry \subseteq Key
    /\ index \in [Tag -> SUBSET Key] /\ tagged \in [Key -> SUBSET Tag]
    /\ call \in [Caller -> [op : Op, key : SUBSET Key, tags : SUBSET Tag, pc : Phase,
                            rest : SUBSET (Key \cup Tag)]]
    /\ raced \subseteq Caller
    /\ want \in [Key -> SUBSET Tag] /\ settled \subseteq Key
    /\ calls \in 0..MaxCalls /\ faults \in 0..MaxFaults

Init ==
    /\ driver \in TagDriver /\ entry = {}
    /\ index = [t \in Tag |-> {}] /\ tagged = [k \in Key |-> {}]
    /\ call = [c \in Caller |-> NoCall] /\ raced = {}
    /\ want = [k \in Key |-> {}] /\ settled = {}
    /\ calls = 0 /\ faults = 0

(* ------------------------------- the calls ------------------------------ *)
\* Which calls race: two puts of one key; in Redis also a put with a flush or a
\* forget.  (In Postgres these two end in a foreign key error of the put.)
Races(a, b) ==
    \/ a.op = "put" /\ b.op = "put" /\ a.key = b.key
    \/ driver = "redis" /\ {a.op, b.op} \in {{"put", "flush"}, {"put", "forget"}}

Begin(c, r) ==
    LET others == {d \in Caller \ {c} : Races(r, call[d])}
    IN  /\ call[c] = NoCall /\ calls < MaxCalls /\ calls' = calls + 1
        /\ call' = [call EXCEPT ![c] = r]
        /\ raced' = (raced \ {c}) \cup others \cup IF others = {} THEN {} ELSE {c}
        /\ UNCHANGED <<driver, faults>>

Step(c, pc, rest) ==
    /\ call' = [call EXCEPT ![c].pc = pc, ![c].rest = rest]
    /\ UNCHANGED <<driver, raced, calls, faults>>

Return(c) ==
    /\ call' = [call EXCEPT ![c] = NoCall]
    /\ UNCHANGED <<driver, raced, calls, faults>>

\* The put returns: the caller may rely on its tags unless it was raced.
Settle(c) ==
    LET k == call[c].key
    IN  IF c \in raced THEN UNCHANGED known
        ELSE /\ settled' = settled \cup (k \cap entry)
             /\ want' = [j \in Key |-> IF j \in k THEN call[c].tags ELSE want[j]]

\* A put leaves the entry with tags nobody can rely on until it settles.
Unsettle(ks) == settled' = settled \ ks /\ UNCHANGED want

\* The two directions without the keys ks, and with exactly the tags ts for k.
Without(ks) ==
    /\ index' = [t \in Tag |-> index[t] \ ks]
    /\ tagged' = [k \in Key |-> IF k \in ks THEN {} ELSE tagged[k]]
Retag(k, ts) ==
    /\ index' = [t \in Tag |-> IF t \in ts THEN index[t] \cup {k} ELSE index[t] \ {k}]
    /\ tagged' = [tagged EXCEPT ![k] = ts]

(* -------------------------------- memory -------------------------------- *)
MemoryPut(c) == \E k \in Key, ts \in SUBSET Tag :
    /\ driver = "memory" /\ call[c] = NoCall /\ calls < MaxCalls
    /\ calls' = calls + 1
    /\ entry' = entry \cup {k}
    /\ Retag(k, ts)
    /\ want' = [want EXCEPT ![k] = ts] /\ settled' = settled \cup {k}
    /\ UNCHANGED <<driver, call, raced, faults>>

MemoryFlush == \E ts \in SUBSET Tag :
    LET gone == UNION {index[t] : t \in ts}
    IN  /\ driver = "memory" /\ gone # {}
        /\ entry' = entry \ gone
        /\ Without(gone) /\ Unsettle(gone)
        /\ UNCHANGED <<driver, call, raced, calls, faults>>

(* ----------------------- untagged operations, expiry -------------------- *)
\* put, add and increment without tags: the tags of the key stay.
Write(k) ==
    /\ k \notin entry
    /\ entry' = entry \cup {k}
    /\ UNCHANGED <<driver, index, tagged, call, raced, want, settled, calls, faults>>

\* The time of an entry is over and it is evicted by a get, the sweep or Redis.
\* In memory and in Postgres (by the foreign key) its tags go with it.
Expire(k) ==
    /\ k \in entry
    /\ entry' = entry \ {k}
    /\ IF driver = "redis" THEN UNCHANGED <<index, tagged>> ELSE Without({k})
    /\ Unsettle({k})
    /\ UNCHANGED <<driver, call, raced, calls, faults>>

\* flush() of the whole cache; in Redis its SCAN is taken as one step.
FlushAll ==
    /\ entry # {} /\ entry' = {}
    /\ Without(Key) /\ Unsettle(Key)
    /\ raced' = IF driver = "redis" THEN {c \in Caller : call[c].op = "put"} \cup raced ELSE raced
    /\ UNCHANGED <<driver, call, calls, faults>>

\* forget(key): in Redis the value first, the key's tag set in a second command.
Forget(c, k) ==
    /\ k \in entry
    /\ entry' = entry \ {k} /\ Unsettle({k})
    /\ IF driver = "redis"
       THEN /\ Begin(c, [NoCall EXCEPT !.op = "forget", !.key = {k}, !.pc = "dropTagged"])
            /\ UNCHANGED <<index, tagged>>
       ELSE /\ Without({k})
            /\ UNCHANGED <<driver, call, raced, calls, faults>>

(* ------------------------------- Postgres ------------------------------- *)
\* _putWithTags: the entry, then DELETE of its tag rows, then their INSERT.
PostgresPut(c) == \E k \in Key, ts \in SUBSET Tag :
    /\ driver = "postgres"
    /\ Begin(c, [NoCall EXCEPT !.op = "put", !.key = {k}, !.tags = ts, !.pc = "untag"])
    /\ entry' = entry \cup {k}
    /\ Unsettle({k})
    /\ UNCHANGED <<index, tagged>>

PostgresUntag(c) ==
    /\ driver = "postgres" /\ call[c].pc = "untag"
    /\ Without(call[c].key)
    /\ IF call[c].tags = {} THEN Return(c) /\ Settle(c)
                            ELSE Step(c, "tag", {}) /\ UNCHANGED known
    /\ UNCHANGED entry

\* The rows refer to the entry: the insert fails when it has gone meanwhile.
PostgresTag(c) ==
    /\ driver = "postgres" /\ call[c].pc = "tag"
    /\ IF call[c].key \subseteq entry
       THEN /\ \E k \in call[c].key : Retag(k, tagged[k] \cup call[c].tags)
            /\ Settle(c)
       ELSE UNCHANGED <<index, tagged, want, settled>>
    /\ Return(c)
    /\ UNCHANGED entry

\* _flushTags: one DELETE; the rows of the tags cascade.
PostgresFlush == \E ts \in SUBSET Tag :
    LET gone == UNION {index[t] : t \in ts}
    IN  /\ driver = "postgres" /\ gone # {}
        /\ entry' = entry \ gone
        /\ Without(gone) /\ Unsettle(gone)
        /\ UNCHANGED <<driver, call, raced, calls, faults>>

(* --------------------------------- Redis -------------------------------- *)
\* _putWithTags: SET; then SMEMBERS of the key's old tags, SREM of each, DEL,
\* SADD of the new tags, SADD to each tag.
RedisPut(c) == \E k \in Key, ts \in SUBSET Tag :
    /\ driver = "redis"
    /\ Begin(c, [NoCall EXCEPT !.op = "put", !.key = {k}, !.tags = ts,
                               !.pc = IF ts = {} THEN "untag" ELSE "old"])
    /\ entry' = entry \cup {k}
    /\ Unsettle({k})
    /\ UNCHANGED <<index, tagged>>

RedisOld(c) ==
    /\ call[c].pc = "old"
    /\ LET old == UNION {tagged[k] : k \in call[c].key}
       IN  Step(c, IF old = {} THEN "tag" ELSE "unindex", old)
    /\ UNCHANGED <<entry, index, tagged, want, settled>>

RedisUnindex(c) == \E t \in call[c].rest :
    /\ call[c].pc = "unindex"
    /\ index' = [index EXCEPT ![t] = @ \ call[c].key]
    /\ Step(c, IF call[c].rest = {t} THEN "untag" ELSE "unindex", call[c].rest \ {t})
    /\ UNCHANGED <<entry, tagged, want, settled>>

RedisUntag(c) ==
    /\ driver = "redis" /\ call[c].pc = "untag"
    /\ tagged' = [k \in Key |-> IF k \in call[c].key THEN {} ELSE tagged[k]]
    /\ IF call[c].tags = {} THEN Return(c) /\ Settle(c)
                            ELSE Step(c, "tag", {}) /\ UNCHANGED known
    /\ UNCHANGED <<entry, index>>

RedisTag(c) ==
    /\ driver = "redis" /\ call[c].pc = "tag"
    /\ tagged' = [k \in Key |-> IF k \in call[c].key THEN tagged[k] \cup call[c].tags ELSE tagged[k]]
    /\ Step(c, "index", call[c].tags)
    /\ UNCHANGED <<entry, index, want, settled>>

RedisIndex(c) == \E t \in call[c].rest :
    /\ call[c].pc = "index"
    /\ index' = [index EXCEPT ![t] = @ \cup call[c].key]
    /\ IF call[c].rest = {t} THEN Return(c) /\ Settle(c)
       ELSE Step(c, "index", call[c].rest \ {t}) /\ UNCHANGED known
    /\ UNCHANGED <<entry, tagged>>

\* _flushTags: SMEMBERS and DEL of each tag, DEL of the keys collected, DEL of
\* their tag sets.  (SMEMBERS and the DEL after it are one step here: a put in
\* between races with this call either way.)
RedisFlush(c) == \E ts \in SUBSET Tag \ {{}} :
    /\ driver = "redis"
    /\ Begin(c, [NoCall EXCEPT !.op = "flush", !.tags = ts, !.pc = "collect", !.rest = ts])
    /\ UNCHANGED <<entry, index, tagged, want, settled>>

RedisCollect(c) == \E t \in call[c].rest :
    LET r == call[c]  keys == r.key \cup index[t]
    IN  /\ r.pc = "collect"
        /\ index' = [index EXCEPT ![t] = {}]
        /\ call' = [call EXCEPT ![c] =
             IF r.rest # {t} THEN [r EXCEPT !.key = keys, !.rest = r.rest \ {t}]
             ELSE IF keys = {} THEN NoCall
             ELSE [r EXCEPT !.key = keys, !.rest = {}, !.pc = "drop"]]
        /\ UNCHANGED <<driver, entry, tagged, raced, want, settled, calls, faults>>

\* Mutation of RedisDrop: the keys collected last are not deleted.
RedisDropNone(c) ==
    /\ call[c].pc = "drop"
    /\ Step(c, "dropTagged", {})
    /\ UNCHANGED <<entry, index, tagged, want, settled>>
RedisDrop(c) ==
    /\ call[c].pc = "drop"
    /\ entry' = entry \ call[c].key /\ Unsettle(call[c].key)
    /\ Step(c, "dropTagged", {})
    /\ UNCHANGED <<index, tagged>>

RedisDropTagged(c) ==
    /\ call[c].pc = "dropTagged"
    /\ tagged' = [k \in Key |-> IF k \in call[c].key THEN {} ELSE tagged[k]]
    /\ Return(c)
    /\ UNCHANGED <<entry, index, want, settled>>

\* A command fails and the call rejects where it stands.  A flush that fails after
\* it has dropped the index leaves the entries it collected out of any tag's reach.
Reject(c) ==
    /\ call[c] # NoCall /\ faults < MaxFaults
    /\ faults' = faults + 1
    /\ call' = [call EXCEPT ![c] = NoCall]
    /\ settled' = settled \ call[c].key
    /\ UNCHANGED <<driver, entry, index, tagged, raced, want, calls>>

Next ==
    \/ \E c \in Caller :
        \/ MemoryPut(c) \/ PostgresPut(c) \/ PostgresUntag(c) \/ PostgresTag(c)
        \/ RedisPut(c) \/ RedisOld(c) \/ RedisUnindex(c) \/ RedisUntag(c) \/ RedisTag(c)
        \/ RedisIndex(c) \/ RedisFlush(c) \/ RedisCollect(c) \/ RedisDrop(c)
        \/ RedisDropTagged(c) \/ Reject(c)
        \/ \E k \in Key : Forget(c, k)
    \/ MemoryFlush \/ PostgresFlush \/ FlushAll
    \/ \E k \in Key : Write(k) \/ Expire(k)

Spec == Init /\ [][Next]_vars

(* ------------------------------ properties ------------------------------ *)
Flushing(k) == \E c \in Caller : call[c].op = "flush" /\ k \in call[c].key

\* An entry whose last put returned, and did not race with another call, is found
\* by each of the tags it was put with: a flush of any of them takes it.  In Redis
\* an entry that a flush has collected is on its way out.
Reachable == \A k \in settled : k \in entry /\ (~Flushing(k) => \A t \in want[k] : k \in index[t])

\* In memory and in Postgres the two directions agree, no tag refers to an entry
\* that does not exist, and an entry has no tag but those it was last put with:
\* a flush takes nothing else.
Exact == driver \in {"memory", "postgres"} =>
    /\ \A k \in Key, t \in Tag : k \in index[t] <=> t \in tagged[k]
    /\ \A t \in Tag : index[t] \subseteq entry
    /\ \A k \in settled : tagged[k] \subseteq want[k]

\* The types, and the two invariants above.
TaggedInv == TypeOK /\ Reachable /\ Exact
================================================================================
