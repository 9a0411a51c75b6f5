---------------------------- MODULE PlatformProofs ----------------------------
(***************************************************************************)
(* Proofs about the parts MCPlatform puts side by side, for all values of    *)
(* its constants but what a hypothesis names: cache locks and tags, stored   *)
(* conversations, migrations, MCP sessions, the Redis backplane, the two     *)
(* streams of an HTTP exchange, sagas and state machines on rows.  (Scopes,  *)
(* the operators of the queue and what leaves the process are in             *)
(* OutboundProofs.tla.)                                                      *)
(*                                                                           *)
(* A part has an inductive invariant (LeaseInv, TagsIInv, ...), a lemma that *)
(* it holds at first, one lemma or several for each action, and one that     *)
(* puts the actions together; its theorem is about any behaviour of the      *)
(* part.  The last section states the properties of the run: a behaviour of  *)
(* PlatformSpec is a behaviour of each part.                                 *)
(***************************************************************************)
EXTENDS MCPlatform, FiniteSetTheorems, SequenceTheorems, TLAPS

(***************************************************************************)
(* Cache locks.                                                            *)
(***************************************************************************)
\* The drivers for which the property is stated.
Compares == lockDriver \in {"memory", "postgres"} \/ (lockDriver = "redis" /\ ~flushed)

\* Tokens are new; a handle that may still release holds one of its own, and only
\* Memcached deletes what it read before.
TokensApart ==
    /\ slot < nextToken /\ running \subseteq 1..(nextToken - 1)
    /\ \A h \in Holder : handle[h].owner < nextToken
    /\ \A g, h \in Holder :
        /\ handle[g].pc \in {"critical", "releasing"}
        /\ handle[h].pc \in {"critical", "releasing"}
        /\ handle[g].owner = handle[h].owner
        => g = h
    /\ \A h \in Holder : handle[h].pc = "deleting" => lockDriver = "memcached"

\* A lease that runs is the one in the slot.
LeaseInSlot == Compares => running \subseteq {slot}

LeaseInv == Lock!TypeOK /\ TokensApart /\ LeaseInSlot

\* At first nobody holds anything.
LEMMA LeaseInit == ASSUME MaxTokens \in Nat, Lock!Init PROVE LeaseInv
<1>1. handle \in [Holder -> [pc : Lock!Phase, owner : 0..MaxTokens]] BY DEF Lock!Init, Lock!Phase, Lock!Nobody
<1>2. nextToken \in 1..(MaxTokens + 1) /\ slot \in 0..MaxTokens BY DEF Lock!Init, Lock!Nobody
<1>3. lockDriver \in LockDriver /\ running = {} /\ flushed \in BOOLEAN BY DEF Lock!Init
<1>4. Lock!TypeOK BY <1>1, <1>2, <1>3 DEF Lock!TypeOK
<1>5. TokensApart /\ LeaseInSlot BY DEF Lock!Init, TokensApart, LeaseInSlot, Lock!Nobody
<1>. QED BY <1>4, <1>5 DEF LeaseInv

\* One action after the other keeps the invariant.
LEMMA LeaseKept == ASSUME MaxTokens \in Nat, LeaseInv, [Lock!Next]_lockVars PROVE LeaseInv'
<1> USE DEF LeaseInv, Lock!TypeOK, TokensApart, LeaseInSlot, Compares, Lock!Phase, Lock!Nobody, Lock!At, Lock!Goto
<1>1. ASSUME NEW h \in Holder, Lock!Block(h) PROVE LeaseInv' BY <1>1 DEF Lock!Block
<1>2. ASSUME NEW h \in Holder, Lock!TryAcquire(h) PROVE LeaseInv'
  <2>1. Lock!TypeOK' BY <1>2 DEF Lock!TryAcquire
  <2>2. TokensApart' BY <1>2 DEF Lock!TryAcquire
  <2>3. LeaseInSlot' BY <1>2 DEF Lock!TryAcquire, Lock!Free
  <2>. QED BY <2>1, <2>2, <2>3
<1>3. ASSUME NEW h \in Holder, Lock!TimeOut(h) PROVE LeaseInv' BY <1>3 DEF Lock!TimeOut
<1>4. ASSUME NEW h \in Holder, Lock!Return(h) PROVE LeaseInv' BY <1>4 DEF Lock!Return
<1>5. ASSUME NEW h \in Holder, Lock!Release(h) PROVE LeaseInv' BY <1>5 DEF Lock!Release, Lock!Owns
<1>6. ASSUME NEW h \in Holder, Lock!ReleaseRead(h) PROVE LeaseInv' BY <1>6 DEF Lock!ReleaseRead
<1>7. ASSUME NEW h \in Holder, Lock!ReleaseDelete(h) PROVE LeaseInv' BY <1>7 DEF Lock!ReleaseDelete
<1>8. ASSUME NEW h \in Holder, Lock!Crash(h) PROVE LeaseInv' BY <1>8 DEF Lock!Crash
<1>9. ASSUME NEW t \in running, Lock!Expire(t) PROVE LeaseInv' BY <1>9 DEF Lock!Expire
<1>10. CASE Lock!Sweep BY <1>10 DEF Lock!Sweep, Lock!Swept
<1>11. CASE Lock!Flush BY <1>11 DEF Lock!Flush
<1>12. CASE UNCHANGED lockVars BY <1>12 DEF lockVars
<1>. QED BY <1>1, <1>2, <1>3, <1>4, <1>5, <1>6, <1>7, <1>8, <1>9, <1>10, <1>11, <1>12 DEF Lock!Next

\* The instance counts as this module does.
LEMMA LockCounts == ASSUME NEW S PROVE Lock!Cardinality(S) = Cardinality(S)
BY DEF Lock!Cardinality, Cardinality

\* Where the leases that run are the slot's, no two handles hold one.
LEMMA LeaseIsOne == ASSUME LeaseInv PROVE Lock!OneLease
<1> SUFFICES ASSUME Compares PROVE Lock!Cardinality(Lock!Holders) <= 1 /\ running \subseteq {slot}
  BY DEF Lock!OneLease, Compares
<1>1. running \subseteq {slot} BY DEF LeaseInv, LeaseInSlot
<1>2. \A g, h \in Lock!Holders : g = h BY <1>1 DEF LeaseInv, TokensApart, Lock!Holders
<1>3. CASE Lock!Holders = {} BY <1>1, <1>3, FS_EmptySet, LockCounts
<1>4. CASE Lock!Holders # {}
  <2>1. PICK h \in Lock!Holders : TRUE BY <1>4
  <2>2. Lock!Holders = {h} BY <1>2, <2>1
  <2>3. Cardinality(Lock!Holders) = 1 BY <2>2, FS_Singleton
  <2>. QED BY <1>1, <2>3, LockCounts
<1>. QED BY <1>3, <1>4

\* block() of the cache drivers: with the memory, Postgres and (until a flush) Redis drivers no
\* two handles hold one name within their leases, whoever outlives its lease, is swept or
\* releases late.
THEOREM LeasesExclude ==
  ASSUME MaxTokens \in Nat
  PROVE  Lock!Init /\ [][Lock!Next]_lockVars => []Lock!OneLease
<1>1. Lock!Init => LeaseInv BY LeaseInit
<1>2. LeaseInv /\ [Lock!Next]_lockVars => LeaseInv' BY LeaseKept
<1>3. LeaseInv => Lock!OneLease BY LeaseIsOne
<1>. QED BY <1>1, <1>2, <1>3, PTL

(***************************************************************************)
(* Cache tags.                                                             *)
(***************************************************************************)
\* The drivers with tags.
TagsBounded == TagDriver \subseteq {"memory", "postgres", "redis"} /\ MaxCalls \in Nat /\ MaxFaults \in Nat

\* A call in flight, by what it does and how far it is.
TagCall == [op : Tags!Op, key : SUBSET CacheKey, tags : SUBSET Tag, pc : Tags!Phase, rest : SUBSET (CacheKey \cup Tag)]
PutCall(r) ==
    /\ r.op = "put" /\ r.pc \in {"old", "unindex", "untag", "tag", "index"} /\ \E k \in CacheKey : r.key = {k}
    /\ r.pc \in {"unindex", "index"} => r.rest \subseteq Tag
FlushCall(r) == r.op = "flush" /\ r.pc \in {"collect", "drop", "dropTagged"} /\ (r.pc = "collect" => r.rest \subseteq Tag)
ForgetCall(r) == r.op = "forget" /\ r.pc = "dropTagged"
CallHolds(r) ==
    /\ r \in TagCall
    /\ r # Tags!NoCall =>
         /\ PutCall(r) \/ FlushCall(r) \/ ForgetCall(r)
         /\ tagStore # "memory"
         /\ tagStore = "postgres" => r.op = "put" /\ r.pc \in {"untag", "tag"}

\* Of two calls that race both know it.
CallsHold ==
    /\ tagStore \in TagDriver /\ calls \in 0..MaxCalls /\ faults \in 0..MaxFaults
    /\ call \in [Caller -> TagCall] /\ raced \subseteq Caller
    /\ \A c \in Caller : CallHolds(call[c])
    /\ \A c, d \in Caller : c # d /\ Tags!Races(call[c], call[d]) => c \in raced /\ d \in raced

StoreTyped ==
    /\ entry \subseteq CacheKey /\ index \in [Tag -> SUBSET CacheKey] /\ tagged \in [CacheKey -> SUBSET Tag]
    /\ want \in [CacheKey -> SUBSET Tag] /\ settled \subseteq CacheKey

\* In memory and in Postgres the two directions agree and an entry that is settled has the
\* tags of its last put.
Agrees ==
    /\ \A k \in CacheKey, t \in Tag : k \in index[t] <=> t \in tagged[k]
    /\ \A t \in Tag : index[t] \subseteq entry
    /\ \A k \in settled : k \in entry /\ tagged[k] = want[k]

\* While a put of a key is under way the key is not settled.
PutUnsettles == \A c \in Caller : call[c].op = "put" => call[c].key \cap settled = {}

\* In Postgres a put that nothing races with inserts its rows where it has deleted them all.
PostgresTagsAnew ==
    \A c \in Caller \ raced : call[c].op = "put" /\ call[c].pc = "tag" => \A k \in call[c].key : tagged[k] = {}

\* In Redis such a put is in the index of each tag it has passed, and what a flush or a forget
\* has deleted is not settled.
RedisIndexes ==
    \A c \in Caller \ raced : call[c].op = "put" /\ call[c].pc = "index" =>
        \A k \in call[c].key, t \in call[c].tags \ call[c].rest : k \in index[t]
RedisDropped == \A c \in Caller : call[c].pc = "dropTagged" => call[c].key \cap settled = {}

TagsIInv ==
    /\ CallsHold /\ StoreTyped
    /\ tagStore # "redis" => Agrees
    /\ PutUnsettles
    /\ tagStore = "postgres" => PostgresTagsAnew
    /\ tagStore = "redis" => RedisIndexes /\ RedisDropped /\ Tags!Reachable

\* Nothing is cached and nobody calls.
LEMMA TagsStart == ASSUME TagsBounded, Tags!Init PROVE TagsIInv
<1>1. Tags!NoCall \in TagCall BY DEF TagCall, Tags!NoCall, Tags!Op, Tags!Phase
<1>2. \A c \in Caller : call[c] = Tags!NoCall BY DEF Tags!Init
<1>3. \A c, d \in Caller : ~Tags!Races(call[c], call[d]) BY <1>2 DEF Tags!Races, Tags!NoCall
<1>4. \A c \in Caller : call[c].op = "none" /\ call[c].pc = "idle" /\ call[c].key = {} BY <1>2 DEF Tags!NoCall
<1>5. call \in [Caller -> TagCall] BY <1>1 DEF Tags!Init
<1>6. CallsHold BY <1>1, <1>2, <1>3, <1>5 DEF TagsBounded, Tags!Init, CallsHold, CallHolds
<1>7. StoreTyped /\ Agrees BY DEF Tags!Init, StoreTyped, Agrees
<1>8. PutUnsettles /\ PostgresTagsAnew /\ RedisIndexes /\ RedisDropped
  BY <1>4 DEF PutUnsettles, PostgresTagsAnew, RedisIndexes, RedisDropped
<1>9. Tags!Reachable BY DEF Tags!Init, Tags!Reachable
<1>. QED BY <1>6, <1>7, <1>8, <1>9 DEF TagsIInv

\* Who calls races with the calls under way.
LEMMA BeginHolds ==
  ASSUME TagsBounded, CallsHold, NEW c \in Caller, NEW r, CallHolds(r), Tags!Begin(c, r)
  PROVE  /\ CallsHold' /\ tagStore' = tagStore /\ call[c] = Tags!NoCall /\ call' = [call EXCEPT ![c] = r]
         /\ \A d \in Caller \ {c} : d \in raced \/ Tags!Races(r, call[d]) => d \in raced'
         /\ \A d \in Caller : Tags!Races(r, call[d]) => c \in raced'
<1> DEFINE others == {d \in Caller \ {c} : Tags!Races(r, call[d])}
<1>1. /\ call[c] = Tags!NoCall /\ calls < MaxCalls /\ calls' = calls + 1 /\ call' = [call EXCEPT ![c] = r]
      /\ raced' = (raced \ {c}) \cup others \cup (IF others = {} THEN {} ELSE {c})
      /\ UNCHANGED <<tagStore, faults>>
  BY DEF Tags!Begin
<1>2. /\ call \in [Caller -> TagCall] /\ r \in TagCall /\ raced \subseteq Caller /\ calls \in 0..MaxCalls
      /\ \A d \in Caller : call'[d] = IF d = c THEN r ELSE call[d]
  BY <1>1 DEF CallsHold, CallHolds
<1>3. \A d \in Caller \ {c} : d \in raced \/ Tags!Races(r, call[d]) => d \in raced' BY <1>1
<1>4. \A d \in Caller \ {c} : Tags!Races(r, call[d]) => c \in raced' BY <1>1
<1>5. \A d \in Caller : Tags!Races(call[d], r) <=> Tags!Races(r, call[d]) BY DEF Tags!Races
<1>6. ~Tags!Races(r, call[c]) BY <1>1 DEF Tags!Races, Tags!NoCall
<1> HIDE DEF others
<1>7. \A d, e \in Caller : d # e /\ Tags!Races(call'[d], call'[e]) => d \in raced' /\ e \in raced'
  BY <1>2, <1>3, <1>4, <1>5 DEF CallsHold
<1>9. \A d, e \in Caller : (Tags!Races(call[d], call[e]))' = Tags!Races(call'[d], call'[e]) BY <1>1 DEF Tags!Races
<1>10. \A d \in Caller : (CallHolds(call[d]))' BY <1>1, <1>2 DEF CallsHold, CallHolds, PutCall, FlushCall, ForgetCall
<1>11. raced' \subseteq Caller BY <1>1, <1>2 DEF others
<1>12. calls' \in 0..MaxCalls BY <1>1, <1>2 DEF TagsBounded
<1>13. CallsHold' BY <1>1, <1>2, <1>7, <1>9, <1>10, <1>11, <1>12 DEF CallsHold
<1>. QED BY <1>1, <1>3, <1>4, <1>6, <1>13

\* A call goes on or returns: it races with no one it did not race with.
LEMMA MoveHolds ==
  ASSUME CallsHold, NEW c \in Caller, NEW v, CallHolds(v), call' = [call EXCEPT ![c] = v],
         v = Tags!NoCall \/ (v.op = call[c].op /\ (v.op = "put" => v.key = call[c].key)),
         raced' = raced, tagStore' = tagStore, calls' = calls, faults' \in 0..MaxFaults
  PROVE  CallsHold'
<1>1. /\ call \in [Caller -> TagCall] /\ v \in TagCall
      /\ \A d \in Caller : call'[d] = IF d = c THEN v ELSE call[d]
  BY DEF CallsHold, CallHolds
<1>2. \A d \in Caller : /\ Tags!Races(v, call[d]) => Tags!Races(call[c], call[d])
                        /\ Tags!Races(call[d], v) => Tags!Races(call[d], call[c])
  BY DEF Tags!Races, Tags!NoCall
<1>3. \A d, e \in Caller : d # e /\ Tags!Races(call'[d], call'[e]) => d \in raced /\ e \in raced
  BY <1>1, <1>2 DEF CallsHold
<1>4. \A d, e \in Caller : (Tags!Races(call[d], call[e]))' = Tags!Races(call'[d], call'[e]) BY DEF Tags!Races
<1>5. \A d \in Caller : (CallHolds(call[d]))' BY <1>1 DEF CallsHold, CallHolds, PutCall, FlushCall, ForgetCall
<1>. QED BY <1>1, <1>3, <1>4, <1>5 DEF CallsHold

\* Step, Return and the calls begun.
LEMMA StepMoves ==
  ASSUME CallsHold, NEW c \in Caller, NEW pc, NEW rest, Tags!Step(c, pc, rest),
         CallHolds([call[c] EXCEPT !.pc = pc, !.rest = rest])
  PROVE  /\ CallsHold' /\ call' = [call EXCEPT ![c] = [call[c] EXCEPT !.pc = pc, !.rest = rest]]
         /\ UNCHANGED <<tagStore, raced, calls, faults>>
<1> DEFINE v == [call[c] EXCEPT !.pc = pc, !.rest = rest]
<1>1. call \in [Caller -> TagCall] /\ faults \in 0..MaxFaults BY DEF CallsHold
<1>2. call' = [call EXCEPT ![c] = v] /\ UNCHANGED <<tagStore, raced, calls, faults>> BY <1>1 DEF Tags!Step, TagCall
<1>3. v.op = call[c].op /\ v.key = call[c].key BY <1>1 DEF TagCall
<1> HIDE DEF v
<1>4. CallHolds(v) BY DEF v
<1>. QED BY <1>1, <1>2, <1>3, <1>4, MoveHolds DEF v

\* No call is a call that holds.
LEMMA NoCallHolds == CallHolds(Tags!NoCall)
BY DEF CallHolds, TagCall, Tags!NoCall, Tags!Op, Tags!Phase

\* A put that settles has the tags of its key to itself.
LEMMA SettleHolds ==
  ASSUME CallsHold, StoreTyped, NEW c \in Caller, call[c].op = "put", NEW k \in CacheKey, call[c].key = {k}, Tags!Settle(c)
  PROVE  \/ c \in raced /\ settled' = settled /\ want' = want
         \/ /\ c \notin raced /\ settled' = settled \cup ({k} \cap entry) /\ want' \in [CacheKey -> SUBSET Tag]
            /\ \A j \in CacheKey : want'[j] = IF j = k THEN call[c].tags ELSE want[j]
            /\ \A d \in Caller \ {c} : call[d].op = "put" => k \notin call[d].key
            /\ tagStore = "redis" => \A d \in Caller \ {c} : call[d].op \notin {"flush", "forget"}
<1>1. CASE c \in raced BY <1>1 DEF Tags!Settle, Tags!known
<1>2. CASE c \notin raced
  <2>1. /\ settled' = settled \cup ({k} \cap entry)
        /\ want' = [j \in CacheKey |-> IF j \in {k} THEN call[c].tags ELSE want[j]]
    BY <1>2 DEF Tags!Settle
  <2>2. call[c].tags \subseteq Tag BY DEF CallsHold, TagCall
  <2>3. \A d \in Caller \ {c} : ~Tags!Races(call[c], call[d]) BY <1>2 DEF CallsHold
  <2>4. \A d \in Caller \ {c} : call[d].op = "put" => k \notin call[d].key
    <3> SUFFICES ASSUME NEW d \in Caller \ {c}, call[d].op = "put", k \in call[d].key PROVE FALSE OBVIOUS
    <3>1. CallHolds(call[d]) /\ call[d] # Tags!NoCall BY DEF CallsHold, Tags!NoCall
    <3>2. call[d].key = {k} BY <3>1 DEF CallHolds, PutCall, FlushCall, ForgetCall
    <3>. QED BY <2>3, <3>2 DEF Tags!Races
  <2>5. tagStore = "redis" => \A d \in Caller \ {c} : call[d].op \notin {"flush", "forget"} BY <2>3 DEF Tags!Races
  <2>6. want' \in [CacheKey -> SUBSET Tag] BY <2>1, <2>2 DEF StoreTyped
  <2>. QED BY <1>2, <2>1, <2>4, <2>5, <2>6
<1>. QED BY <1>1, <1>2

\* Keys go, in memory and in Postgres, and their tags with them.
LEMMA RemovalHolds ==
  ASSUME TagsIInv, tagStore # "redis", NEW ks \in SUBSET CacheKey, Tags!Without(ks), Tags!Unsettle(ks),
         entry' = entry \ ks, UNCHANGED <<tagStore, call, raced, calls, faults>>
  PROVE  TagsIInv'
<1>1. CallsHold /\ StoreTyped /\ Agrees /\ PutUnsettles BY DEF TagsIInv
<1>2. /\ \A t \in Tag : index'[t] = index[t] \ ks
      /\ \A k \in CacheKey : tagged'[k] = IF k \in ks THEN {} ELSE tagged[k]
      /\ settled' = settled \ ks /\ want' = want
  BY DEF Tags!Without, Tags!Unsettle
<1>3. CallsHold' BY <1>1 DEF CallsHold, CallHolds, PutCall, FlushCall, ForgetCall, Tags!Races
<1>4. index' \in [Tag -> SUBSET CacheKey] /\ tagged' \in [CacheKey -> SUBSET Tag]
  BY <1>1 DEF StoreTyped, Tags!Without
<1>5. StoreTyped' BY <1>1, <1>2, <1>4 DEF StoreTyped
<1>6. Agrees'
  <2>1. \A k \in CacheKey, t \in Tag : k \in index'[t] <=> t \in tagged'[k] BY <1>1, <1>2 DEF Agrees
  <2>2. \A t \in Tag : index'[t] \subseteq entry' BY <1>1, <1>2 DEF Agrees
  <2>3. \A k \in settled' : k \in entry' /\ tagged'[k] = want'[k] BY <1>1, <1>2 DEF Agrees, StoreTyped
  <2>. QED BY <2>1, <2>2, <2>3 DEF Agrees
<1>7. PutUnsettles' BY <1>1, <1>2 DEF PutUnsettles
<1>8. tagStore = "postgres" => PostgresTagsAnew'
  <2> SUFFICES ASSUME tagStore = "postgres", NEW c \in Caller \ raced, call[c].op = "put", call[c].pc = "tag", NEW k \in call[c].key
               PROVE  tagged'[k] = {}
    BY DEF PostgresTagsAnew
  <2>1. tagged[k] = {} BY DEF TagsIInv, PostgresTagsAnew
  <2>2. k \in CacheKey BY <1>1 DEF CallsHold, TagCall
  <2>. QED BY <1>2, <2>1, <2>2
<1>. QED BY <1>3, <1>5, <1>6, <1>7, <1>8 DEF TagsIInv

\* One key goes.
LEMMA OneKeyGoes ==
  ASSUME TagsIInv, tagStore # "redis", NEW k \in CacheKey, Tags!Without({k}), Tags!Unsettle({k}),
         entry' = entry \ {k}, UNCHANGED <<tagStore, call, raced, calls, faults>>
  PROVE  TagsIInv'
<1>1. {k} \in SUBSET CacheKey OBVIOUS
<1>. QED BY <1>1, RemovalHolds

\* Every step in memory and in Postgres.
LEMMA PlainHolds == ASSUME TagsBounded, TagsIInv, tagStore # "redis", Tags!Next PROVE TagsIInv'
<1>1. CallsHold /\ StoreTyped /\ Agrees /\ PutUnsettles /\ (tagStore = "postgres" => PostgresTagsAnew) BY DEF TagsIInv
<1>2. \A c \in Caller : \/ call[c] = Tags!NoCall
                        \/ /\ tagStore = "postgres" /\ call[c].op = "put" /\ call[c].pc \in {"untag", "tag"}
                           /\ \E k \in CacheKey : call[c].key = {k}
  BY <1>1 DEF TagsBounded, CallsHold, CallHolds, PutCall, FlushCall, ForgetCall
<1>3. \A c \in Caller : /\ call[c].pc \in {"idle", "untag", "tag"} /\ call[c].op \in {"none", "put"}
                        /\ call[c].op = "put" => tagStore = "postgres"
  BY <1>2 DEF Tags!NoCall
<1>4. /\ index \in [Tag -> SUBSET CacheKey] /\ tagged \in [CacheKey -> SUBSET Tag] /\ entry \subseteq CacheKey
      /\ want \in [CacheKey -> SUBSET Tag] /\ settled \subseteq CacheKey /\ call \in [Caller -> TagCall]
      /\ MaxCalls \in Nat /\ MaxFaults \in Nat /\ calls \in 0..MaxCalls /\ faults \in 0..MaxFaults /\ tagStore \in TagDriver
  BY <1>1 DEF StoreTyped, CallsHold, TagsBounded
<1>5. ASSUME NEW c \in Caller, Tags!MemoryPut(c) PROVE TagsIInv'
  <2>1. PICK k \in CacheKey, ts \in SUBSET Tag :
          /\ tagStore = "memory" /\ calls < MaxCalls /\ calls' = calls + 1 /\ entry' = entry \cup {k} /\ Tags!Retag(k, ts)
          /\ want' = [want EXCEPT ![k] = ts] /\ settled' = settled \cup {k} /\ UNCHANGED <<tagStore, call, raced, faults>>
    BY <1>5 DEF Tags!MemoryPut
  <2>2. /\ \A t \in Tag : index'[t] = IF t \in ts THEN index[t] \cup {k} ELSE index[t] \ {k}
        /\ \A j \in CacheKey : tagged'[j] = IF j = k THEN ts ELSE tagged[j]
        /\ \A j \in CacheKey : want'[j] = IF j = k THEN ts ELSE want[j]
        /\ index' \in [Tag -> SUBSET CacheKey] /\ tagged' \in [CacheKey -> SUBSET Tag] /\ want' \in [CacheKey -> SUBSET Tag]
    BY <1>4, <2>1 DEF Tags!Retag
  <2>3. calls' \in 0..MaxCalls BY <1>4, <2>1
  <2>4. CallsHold' BY <1>1, <2>1, <2>3 DEF CallsHold, CallHolds, PutCall, FlushCall, ForgetCall, Tags!Races
  <2>5. StoreTyped' BY <1>4, <2>1, <2>2 DEF StoreTyped
  <2>6. Agrees'
    <3>1. \A j \in CacheKey, t \in Tag : j \in index'[t] <=> t \in tagged'[j] BY <1>1, <2>2 DEF Agrees
    <3>2. \A t \in Tag : index'[t] \subseteq entry' BY <1>1, <2>1, <2>2 DEF Agrees
    <3>3. \A j \in settled' : j \in entry' /\ tagged'[j] = want'[j] BY <1>1, <1>4, <2>1, <2>2 DEF Agrees
    <3>. QED BY <3>1, <3>2, <3>3 DEF Agrees
  <2>7. PutUnsettles' BY <1>3, <2>1 DEF PutUnsettles
  <2>. QED BY <2>1, <2>4, <2>5, <2>6, <2>7 DEF TagsIInv
<1>6. ASSUME NEW c \in Caller, Tags!PostgresPut(c) PROVE TagsIInv'
  <2>1. PICK k \in CacheKey, ts \in SUBSET Tag :
          /\ tagStore = "postgres" /\ Tags!Begin(c, [Tags!NoCall EXCEPT !.op = "put", !.key = {k}, !.tags = ts, !.pc = "untag"])
          /\ entry' = entry \cup {k} /\ settled' = settled \ {k} /\ want' = want /\ UNCHANGED <<index, tagged>>
    BY <1>6 DEF Tags!PostgresPut, Tags!Unsettle
  <2> DEFINE r == [Tags!NoCall EXCEPT !.op = "put", !.key = {k}, !.tags = ts, !.pc = "untag"]
  <2>2. r.op = "put" /\ r.key = {k} /\ r.pc = "untag" /\ r \in TagCall
    BY DEF Tags!NoCall, TagCall, Tags!Op, Tags!Phase
  <2> HIDE DEF r
  <2>3. CallHolds(r) BY <2>1, <2>2 DEF CallHolds, PutCall
  <2>4. /\ CallsHold' /\ tagStore' = tagStore /\ call' = [call EXCEPT ![c] = r]
        /\ \A d \in Caller \ {c} : d \in raced => d \in raced'
    BY <1>1, <2>1, <2>3, BeginHolds DEF r
  <2>5. \A d \in Caller : call'[d] = IF d = c THEN r ELSE call[d] BY <1>4, <2>4
  <2>6. StoreTyped' BY <1>4, <2>1 DEF StoreTyped
  <2>7. Agrees' BY <1>1, <2>1 DEF Agrees
  <2>8. PutUnsettles' BY <1>1, <2>1, <2>2, <2>5 DEF PutUnsettles
  <2>9. PostgresTagsAnew' BY <1>1, <2>1, <2>2, <2>4, <2>5 DEF PostgresTagsAnew
  <2>. QED BY <2>1, <2>4, <2>6, <2>7, <2>8, <2>9 DEF TagsIInv
<1>7. ASSUME NEW c \in Caller, Tags!PostgresUntag(c) PROVE TagsIInv'
  <2>1. PICK k \in CacheKey : call[c].key = {k} /\ call[c].op = "put" /\ call[c] # Tags!NoCall /\ tagStore = "postgres"
    BY <1>2, <1>7 DEF Tags!PostgresUntag, Tags!NoCall
  <2>2. /\ entry' = entry
        /\ \A t \in Tag : index'[t] = index[t] \ {k}
        /\ \A j \in CacheKey : tagged'[j] = IF j = k THEN {} ELSE tagged[j]
        /\ index' \in [Tag -> SUBSET CacheKey] /\ tagged' \in [CacheKey -> SUBSET Tag]
    BY <1>4, <1>7, <2>1 DEF Tags!PostgresUntag, Tags!Without
  <2>3. k \notin settled BY <1>1, <2>1 DEF PutUnsettles
  <2>4. CASE call[c].tags = {}
    <3>1. Tags!Return(c) /\ Tags!Settle(c) BY <1>7, <2>4 DEF Tags!PostgresUntag
    <3>2. call' = [call EXCEPT ![c] = Tags!NoCall] /\ UNCHANGED <<tagStore, raced, calls, faults>> BY <3>1 DEF Tags!Return
    <3>3. CallsHold' BY <1>1, <1>4, <3>2, MoveHolds, NoCallHolds
    <3>4. \/ c \in raced /\ settled' = settled /\ want' = want
          \/ /\ c \notin raced /\ settled' = settled \cup ({k} \cap entry) /\ want' \in [CacheKey -> SUBSET Tag]
             /\ \A j \in CacheKey : want'[j] = IF j = k THEN call[c].tags ELSE want[j]
             /\ \A d \in Caller \ {c} : call[d].op = "put" => k \notin call[d].key
      BY <1>1, <2>1, <3>1, SettleHolds
    <3>5. \A d \in Caller : call'[d] = IF d = c THEN Tags!NoCall ELSE call[d] BY <1>4, <3>2
    <3>6. StoreTyped' BY <1>4, <2>2, <3>4 DEF StoreTyped
    <3>7. Agrees'
      <4>1. \A j \in CacheKey, t \in Tag : j \in index'[t] <=> t \in tagged'[j] BY <1>1, <2>2 DEF Agrees
      <4>2. \A t \in Tag : index'[t] \subseteq entry' BY <1>1, <2>2 DEF Agrees
      <4>3. ASSUME NEW j \in settled' PROVE j \in entry' /\ tagged'[j] = want'[j]
        <5>1. CASE j = k BY <1>4, <2>2, <2>3, <2>4, <3>4, <5>1
        <5>2. CASE j # k BY <1>1, <1>4, <2>2, <3>4, <5>2 DEF Agrees
        <5>. QED BY <5>1, <5>2
      <4>. QED BY <4>1, <4>2, <4>3 DEF Agrees
    <3>8. PutUnsettles' BY <1>1, <2>1, <3>4, <3>5 DEF PutUnsettles, Tags!NoCall
    <3>9. PostgresTagsAnew'
      <4> SUFFICES ASSUME NEW d \in Caller \ raced, call'[d].op = "put", call'[d].pc = "tag", NEW j \in call'[d].key
                   PROVE  tagged'[j] = {}
        BY <3>2 DEF PostgresTagsAnew
      <4>1. call'[d] = call[d] BY <3>5 DEF Tags!NoCall
      <4>2. tagged[j] = {} /\ j \in CacheKey BY <1>1, <1>4, <2>1, <4>1 DEF PostgresTagsAnew, TagCall
      <4>. QED BY <2>2, <4>2
    <3>. QED BY <2>1, <3>2, <3>3, <3>6, <3>7, <3>8, <3>9 DEF TagsIInv
  <2>5. CASE call[c].tags # {}
    <3>1. Tags!Step(c, "tag", {}) /\ settled' = settled /\ want' = want
      BY <1>7, <2>5 DEF Tags!PostgresUntag, Tags!known
    <3> DEFINE v == [call[c] EXCEPT !.pc = "tag", !.rest = {}]
    <3>2. v \in TagCall /\ v.op = "put" /\ v.key = {k} /\ v.pc = "tag" BY <1>4, <2>1 DEF TagCall, Tags!Phase
    <3> HIDE DEF v
    <3>3. CallHolds(v) BY <2>1, <3>2 DEF CallHolds, PutCall
    <3>4. CallsHold' /\ call' = [call EXCEPT ![c] = v] /\ UNCHANGED <<tagStore, raced, calls, faults>>
      BY <1>1, <3>1, <3>3, StepMoves DEF v
    <3>5. \A d \in Caller : call'[d] = IF d = c THEN v ELSE call[d] BY <1>4, <3>4
    <3>6. StoreTyped' BY <1>4, <2>2, <3>1 DEF StoreTyped
    <3>7. Agrees'
      <4>1. \A j \in CacheKey, t \in Tag : j \in index'[t] <=> t \in tagged'[j] BY <1>1, <2>2 DEF Agrees
      <4>2. \A t \in Tag : index'[t] \subseteq entry' BY <1>1, <2>2 DEF Agrees
      <4>3. \A j \in settled' : j \in entry' /\ tagged'[j] = want'[j] BY <1>1, <1>4, <2>2, <2>3, <3>1 DEF Agrees
      <4>. QED BY <4>1, <4>2, <4>3 DEF Agrees
    <3>8. PutUnsettles' BY <1>1, <2>1, <2>3, <3>1, <3>2, <3>5 DEF PutUnsettles
    <3>9. PostgresTagsAnew'
      <4> SUFFICES ASSUME NEW d \in Caller \ raced, call'[d].op = "put", call'[d].pc = "tag", NEW j \in call'[d].key
                   PROVE  tagged'[j] = {}
        BY <3>4 DEF PostgresTagsAnew
      <4>1. CASE d = c BY <2>2, <3>2, <3>5, <4>1
      <4>2. CASE d # c
        <5>1. tagged[j] = {} /\ j \in CacheKey BY <1>1, <1>4, <2>1, <3>5, <4>2 DEF PostgresTagsAnew, TagCall
        <5>. QED BY <2>2, <5>1
      <4>. QED BY <4>1, <4>2
    <3>. QED BY <2>1, <3>4, <3>6, <3>7, <3>8, <3>9 DEF TagsIInv
  <2>. QED BY <2>4, <2>5
<1>8. ASSUME NEW c \in Caller, Tags!PostgresTag(c) PROVE TagsIInv'
  <2>1. PICK k \in CacheKey : call[c].key = {k} /\ call[c].op = "put" /\ call[c].pc = "tag" /\ tagStore = "postgres"
    BY <1>2, <1>8 DEF Tags!PostgresTag, Tags!NoCall
  <2>2. call' = [call EXCEPT ![c] = Tags!NoCall] /\ UNCHANGED <<tagStore, raced, calls, faults>> /\ entry' = entry
    BY <1>8 DEF Tags!PostgresTag, Tags!Return
  <2>3. CallsHold' BY <1>1, <1>4, <2>2, MoveHolds, NoCallHolds
  <2>4. \A d \in Caller : call'[d] = IF d = c THEN Tags!NoCall ELSE call[d] BY <1>4, <2>2
  <2>5. k \notin settled BY <1>1, <2>1 DEF PutUnsettles
  <2>6. CASE k \in entry
    <3> DEFINE ts == tagged[k] \cup call[c].tags
    <3>1. Tags!Retag(k, ts) /\ Tags!Settle(c) BY <1>8, <2>1, <2>6 DEF Tags!PostgresTag
    <3>2. ts \subseteq Tag BY <1>4 DEF TagCall
    <3>3. c \notin raced => ts = call[c].tags BY <1>1, <2>1 DEF PostgresTagsAnew
    <3> HIDE DEF ts
    <3>4. /\ \A t \in Tag : index'[t] = IF t \in ts THEN index[t] \cup {k} ELSE index[t] \ {k}
          /\ \A j \in CacheKey : tagged'[j] = IF j = k THEN ts ELSE tagged[j]
          /\ index' \in [Tag -> SUBSET CacheKey] /\ tagged' \in [CacheKey -> SUBSET Tag]
      BY <1>4, <3>1, <3>2 DEF Tags!Retag
    <3>5. \/ c \in raced /\ settled' = settled /\ want' = want
          \/ /\ c \notin raced /\ settled' = settled \cup ({k} \cap entry) /\ want' \in [CacheKey -> SUBSET Tag]
             /\ \A j \in CacheKey : want'[j] = IF j = k THEN call[c].tags ELSE want[j]
             /\ \A d \in Caller \ {c} : call[d].op = "put" => k \notin call[d].key
      BY <1>1, <2>1, <3>1, SettleHolds
    <3>6. StoreTyped' BY <1>4, <2>2, <3>4, <3>5 DEF StoreTyped
    <3>7. Agrees'
      <4>1. \A j \in CacheKey, t \in Tag : j \in index'[t] <=> t \in tagged'[j] BY <1>1, <3>4 DEF Agrees
      <4>2. \A t \in Tag : index'[t] \subseteq entry' BY <1>1, <2>2, <2>6, <3>4 DEF Agrees
      <4>3. \A j \in settled' : j \in entry' /\ tagged'[j] = want'[j]
        BY <1>1, <1>4, <2>2, <2>5, <3>3, <3>4, <3>5 DEF Agrees
      <4>. QED BY <4>1, <4>2, <4>3 DEF Agrees
    <3>8. PutUnsettles' BY <1>1, <2>1, <2>4, <3>5 DEF PutUnsettles, Tags!NoCall
    <3>9. PostgresTagsAnew'
      <4> SUFFICES ASSUME NEW d \in Caller \ raced, call'[d].op = "put", call'[d].pc = "tag", NEW j \in call'[d].key
                   PROVE  tagged'[j] = {}
        BY <2>2 DEF PostgresTagsAnew
      <4>1. d # c /\ call'[d] = call[d] BY <2>4 DEF Tags!NoCall
      <4>2. tagged[j] = {} /\ j \in CacheKey BY <1>1, <1>4, <2>1, <4>1 DEF PostgresTagsAnew, TagCall
      <4>3. j # k
        <5>1. ~Tags!Races(call[c], call[d]) BY <1>1, <4>1 DEF CallsHold
        <5>2. call[d].key = {k} \/ k \notin call[d].key BY <1>2, <4>1 DEF Tags!NoCall
        <5>. QED BY <2>1, <4>1, <5>1, <5>2 DEF Tags!Races
      <4>. QED BY <3>4, <4>2, <4>3
    <3>. QED BY <2>1, <2>2, <2>3, <3>6, <3>7, <3>8, <3>9 DEF TagsIInv
  <2>7. CASE k \notin entry
    <3>1. UNCHANGED <<index, tagged, want, settled>> BY <1>8, <2>1, <2>7 DEF Tags!PostgresTag
    <3>2. StoreTyped' /\ Agrees' BY <1>1, <2>2, <3>1 DEF StoreTyped, Agrees
    <3>3. PutUnsettles' BY <1>1, <2>4, <3>1 DEF PutUnsettles, Tags!NoCall
    <3>4. PostgresTagsAnew' BY <1>1, <2>1, <2>2, <2>4, <3>1 DEF PostgresTagsAnew, Tags!NoCall
    <3>. QED BY <2>1, <2>2, <2>3, <3>2, <3>3, <3>4 DEF TagsIInv
  <2>. QED BY <2>6, <2>7
<1>9. ASSUME NEW c \in Caller, Tags!Reject(c) PROVE TagsIInv'
  <2>1. /\ faults < MaxFaults /\ faults' = faults + 1 /\ call' = [call EXCEPT ![c] = Tags!NoCall]
        /\ settled' = settled \ call[c].key /\ UNCHANGED <<tagStore, entry, index, tagged, raced, want, calls>>
    BY <1>9 DEF Tags!Reject
  <2>f. faults' \in 0..MaxFaults BY <1>4, <2>1
  <2>2. CallsHold' BY <1>1, <2>1, <2>f, MoveHolds, NoCallHolds
  <2>3. \A d \in Caller : call'[d] = IF d = c THEN Tags!NoCall ELSE call[d] BY <1>4, <2>1
  <2>4. StoreTyped' /\ Agrees' BY <1>1, <2>1 DEF StoreTyped, Agrees
  <2>5. PutUnsettles' BY <1>1, <2>1, <2>3 DEF PutUnsettles, Tags!NoCall
  <2>6. tagStore = "postgres" => PostgresTagsAnew' BY <1>1, <2>1, <2>3 DEF PostgresTagsAnew, Tags!NoCall
  <2>. QED BY <2>1, <2>2, <2>4, <2>5, <2>6 DEF TagsIInv
<1>10. ASSUME NEW k \in CacheKey, Tags!Write(k) PROVE TagsIInv'
  <2>1. entry' = entry \cup {k} /\ UNCHANGED <<tagStore, index, tagged, call, raced, want, settled, calls, faults>>
    BY <1>10 DEF Tags!Write
  <2>2. CallsHold' BY <1>1, <2>1 DEF CallsHold, CallHolds, PutCall, FlushCall, ForgetCall, Tags!Races
  <2>3. StoreTyped' /\ Agrees' BY <1>1, <2>1 DEF StoreTyped, Agrees
  <2>4. PutUnsettles' /\ (tagStore = "postgres" => PostgresTagsAnew') BY <1>1, <2>1 DEF PutUnsettles, PostgresTagsAnew
  <2>. QED BY <2>1, <2>2, <2>3, <2>4 DEF TagsIInv
<1>11. ASSUME NEW ts \in SUBSET Tag, NEW ks, ks = UNION {index[t] : t \in ts} PROVE ks \in SUBSET CacheKey
  BY <1>4, <1>11
<1>12. CASE Tags!MemoryFlush
  <2>1. PICK ts \in SUBSET Tag : LET ks == UNION {index[t] : t \in ts} IN
          entry' = entry \ ks /\ Tags!Without(ks) /\ Tags!Unsettle(ks) /\ UNCHANGED <<tagStore, call, raced, calls, faults>>
    BY <1>12 DEF Tags!MemoryFlush
  <2>. QED BY <1>11, <2>1, RemovalHolds
<1>13. CASE Tags!PostgresFlush
  <2>1. PICK ts \in SUBSET Tag : LET ks == UNION {index[t] : t \in ts} IN
          entry' = entry \ ks /\ Tags!Without(ks) /\ Tags!Unsettle(ks) /\ UNCHANGED <<tagStore, call, raced, calls, faults>>
    BY <1>13 DEF Tags!PostgresFlush
  <2>. QED BY <1>11, <2>1, RemovalHolds
<1>14. CASE Tags!FlushAll
  <2>1. entry' = entry \ CacheKey BY <1>4, <1>14 DEF Tags!FlushAll
  <2>2. Tags!Without(CacheKey) /\ Tags!Unsettle(CacheKey) /\ UNCHANGED <<tagStore, call, raced, calls, faults>>
    BY <1>14 DEF Tags!FlushAll
  <2>. QED BY <2>1, <2>2, RemovalHolds
<1>15. ASSUME NEW k \in CacheKey, Tags!Expire(k) PROVE TagsIInv'
  <2>1. Tags!Without({k}) /\ UNCHANGED <<tagStore, call, raced, calls, faults>> BY <1>3, <1>15 DEF Tags!Expire
  <2>2. entry' = entry \ {k} /\ Tags!Unsettle({k}) BY <1>15 DEF Tags!Expire
  <2>. QED BY <2>1, <2>2, OneKeyGoes
<1>16. ASSUME NEW c \in Caller, NEW k \in CacheKey, Tags!Forget(c, k) PROVE TagsIInv'
  <2>1. Tags!Without({k}) /\ UNCHANGED <<tagStore, call, raced, calls, faults>> BY <1>16, Zenon DEF Tags!Forget
  <2>2. entry' = entry \ {k} /\ Tags!Unsettle({k}) BY <1>16, Zenon DEF Tags!Forget
  <2>. QED BY <2>1, <2>2, OneKeyGoes
<1>17. ASSUME NEW c \in Caller
       PROVE  ~(Tags!RedisPut(c) \/ Tags!RedisOld(c) \/ Tags!RedisUnindex(c) \/ Tags!RedisUntag(c) \/ Tags!RedisTag(c)
                \/ Tags!RedisIndex(c) \/ Tags!RedisFlush(c) \/ Tags!RedisCollect(c) \/ Tags!RedisDrop(c)
                \/ Tags!RedisDropTagged(c))
  BY <1>3 DEF Tags!RedisPut, Tags!RedisOld, Tags!RedisUnindex, Tags!RedisUntag, Tags!RedisTag, Tags!RedisIndex,
              Tags!RedisFlush, Tags!RedisCollect, Tags!RedisDrop, Tags!RedisDropTagged
<1>. QED BY <1>5, <1>6, <1>7, <1>8, <1>9, <1>10, <1>12, <1>13, <1>14, <1>15, <1>16, <1>17 DEF Tags!Next

\* In Redis: no key is settled that was not, and what is in reach stays in reach or is being flushed.
LEMMA ReachableStays ==
  ASSUME StoreTyped, Tags!Reachable, call \in [Caller -> TagCall], settled' \subseteq settled, want' = want,
         settled' \subseteq entry',
         \A k \in settled', t \in Tag : k \in index[t] => k \in index'[t] \/ (Tags!Flushing(k))',
         \A k \in settled' : Tags!Flushing(k) => (Tags!Flushing(k))'
  PROVE  Tags!Reachable'
<1> SUFFICES ASSUME NEW k \in settled', ~(Tags!Flushing(k))', NEW t \in want[k] PROVE k \in index'[t] BY DEF Tags!Reachable
<1>1. k \in settled /\ k \in CacheKey /\ t \in Tag BY DEF StoreTyped
<1>2. k \in index[t] BY <1>1 DEF Tags!Reachable
<1>. QED BY <1>1, <1>2

\* A call other than a flush moves: what is being flushed is the same.
LEMMA FlushingStays ==
  ASSUME call \in [Caller -> TagCall], NEW c \in Caller, NEW v \in TagCall, call' = [call EXCEPT ![c] = v],
         NEW k, (call[c].op = "flush" /\ k \in call[c].key) => (v.op = "flush" /\ k \in v.key), Tags!Flushing(k)
  PROVE  (Tags!Flushing(k))'
<1>1. PICK d \in Caller : call[d].op = "flush" /\ k \in call[d].key BY DEF Tags!Flushing
<1>2. call'[d] = IF d = c THEN v ELSE call[d] OBVIOUS
<1>3. call'[d].op = "flush" /\ k \in call'[d].key BY <1>1, <1>2
<1>. QED BY <1>3 DEF Tags!Flushing

\* A call begins in Redis: it unsettles its key and takes no index away.
LEMMA RedisBegins ==
  ASSUME TagsBounded, TagsIInv, tagStore = "redis", NEW c \in Caller, NEW r, CallHolds(r), Tags!Begin(c, r),
         r.op \in {"put", "flush", "forget"}, r.op = "put" => r.pc # "index",
         index' = index, want' = want, settled' = settled \ r.key, tagged' = tagged,
         entry' \subseteq CacheKey, entry \ r.key \subseteq entry'
  PROVE  TagsIInv'
<1>1. CallsHold /\ StoreTyped /\ PutUnsettles /\ RedisIndexes /\ RedisDropped /\ Tags!Reachable BY DEF TagsIInv
<1>2. /\ CallsHold' /\ tagStore' = tagStore /\ call[c] = Tags!NoCall /\ call' = [call EXCEPT ![c] = r]
      /\ \A d \in Caller \ {c} : d \in raced => d \in raced'
  BY <1>1, BeginHolds
<1>3. call \in [Caller -> TagCall] /\ r \in TagCall BY <1>1 DEF CallsHold, CallHolds
<1>4. \A d \in Caller : call'[d] = IF d = c THEN r ELSE call[d] BY <1>2, <1>3
<1>5. StoreTyped' BY <1>1 DEF StoreTyped
<1>6. PutUnsettles' BY <1>1, <1>4 DEF PutUnsettles
<1>7. RedisDropped' BY <1>1, <1>4 DEF RedisDropped
<1>8. RedisIndexes' BY <1>1, <1>2, <1>4 DEF RedisIndexes
<1>9. \A k \in settled : k \in entry BY <1>1 DEF Tags!Reachable
<1>10. settled' \subseteq entry' BY <1>9
<1>11. \A k : Tags!Flushing(k) => (Tags!Flushing(k))'
  <2>1. call[c].op # "flush" BY <1>2 DEF Tags!NoCall
  <2>. QED BY <1>2, <1>3, <2>1, FlushingStays
<1>12. Tags!Reachable' BY <1>1, <1>3, <1>10, <1>11, ReachableStays
<1>. QED BY <1>2, <1>5, <1>6, <1>7, <1>8, <1>12 DEF TagsIInv

\* A put in Redis moves on without settling.
LEMMA RedisPutMoves ==
  ASSUME TagsIInv, tagStore = "redis", NEW c \in Caller, call[c].op = "put", NEW k \in CacheKey, call[c].key = {k},
         NEW pc, NEW rest, Tags!Step(c, pc, rest), CallHolds([call[c] EXCEPT !.pc = pc, !.rest = rest]),
         UNCHANGED <<entry, want, settled>>, tagged' \in [CacheKey -> SUBSET Tag], index' \in [Tag -> SUBSET CacheKey],
         \A t \in Tag, j \in CacheKey : j # k /\ j \in index[t] => j \in index'[t],
         call[c].pc # "unindex" => \A t \in Tag : k \in index[t] => k \in index'[t],
         pc = "index" /\ c \notin raced => \A t \in call[c].tags \ rest : k \in index'[t]
  PROVE  TagsIInv'
<1>1. CallsHold /\ StoreTyped /\ PutUnsettles /\ RedisIndexes /\ RedisDropped /\ Tags!Reachable BY DEF TagsIInv
<1> DEFINE v == [call[c] EXCEPT !.pc = pc, !.rest = rest]
<1>2. /\ CallsHold' /\ call' = [call EXCEPT ![c] = v] /\ UNCHANGED <<tagStore, raced, calls, faults>>
  BY <1>1, StepMoves
<1>3. call \in [Caller -> TagCall] BY <1>1 DEF CallsHold
<1>4. v.op = "put" /\ v.key = {k} /\ v.pc = pc /\ v.rest = rest /\ v.tags = call[c].tags /\ v \in TagCall
  BY <1>3 DEF TagCall, CallHolds
<1> HIDE DEF v
<1>5. \A d \in Caller : call'[d] = IF d = c THEN v ELSE call[d] BY <1>2, <1>3
<1>6. StoreTyped' BY <1>1 DEF StoreTyped
<1>7. PutUnsettles' BY <1>1, <1>4, <1>5 DEF PutUnsettles
<1>8. pc # "dropTagged" BY <1>4 DEF CallHolds, PutCall, FlushCall, ForgetCall, Tags!NoCall, v
<1>9. RedisDropped' BY <1>1, <1>4, <1>5, <1>8 DEF RedisDropped
<1>10. RedisIndexes'
  <2> SUFFICES ASSUME NEW d \in Caller \ raced, call'[d].op = "put", call'[d].pc = "index", NEW j \in call'[d].key,
                      NEW t \in call'[d].tags \ call'[d].rest
               PROVE  j \in index'[t]
    BY <1>2 DEF RedisIndexes
  <2>1. CASE d = c BY <1>4, <1>5, <2>1
  <2>2. CASE d # c
    <3>1. call'[d] = call[d] /\ j \in index[t] /\ t \in Tag /\ j \in CacheKey BY <1>1, <1>3, <1>5, <2>2 DEF RedisIndexes, TagCall
    <3>2. j # k
      <4>1. ~Tags!Races(call[d], call[c]) BY <1>1, <2>2 DEF CallsHold
      <4>2. CallHolds(call[d]) /\ call[d] # Tags!NoCall BY <1>1, <3>1 DEF CallsHold, Tags!NoCall
      <4>3. call[d].key = {j} BY <3>1, <4>2 DEF CallHolds, PutCall, FlushCall, ForgetCall
      <4>. QED BY <3>1, <4>1, <4>3 DEF Tags!Races
    <3>. QED BY <3>1, <3>2
  <2>. QED BY <2>1, <2>2
<1>11. settled' \subseteq entry' BY <1>1 DEF Tags!Reachable
<1>12. \A j : Tags!Flushing(j) => (Tags!Flushing(j))' BY <1>2, <1>3, <1>4, FlushingStays
<1>13. k \notin settled BY <1>1 DEF PutUnsettles
<1>14. \A j \in settled', t \in Tag : j \in index[t] => j \in index'[t] BY <1>1, <1>13 DEF StoreTyped
<1>15. Tags!Reachable' BY <1>1, <1>3, <1>11, <1>12, <1>14, ReachableStays
<1>. QED BY <1>2, <1>6, <1>7, <1>9, <1>10, <1>15 DEF TagsIInv

\* A put in Redis returns: what it settles is in the index of each of its tags.
LEMMA RedisPutSettles ==
  ASSUME TagsIInv, tagStore = "redis", NEW c \in Caller, call[c].op = "put", NEW k \in CacheKey, call[c].key = {k},
         Tags!Return(c), Tags!Settle(c), entry' = entry, tagged' \in [CacheKey -> SUBSET Tag],
         index' \in [Tag -> SUBSET CacheKey], \A t \in Tag : index[t] \subseteq index'[t],
         c \notin raced => \A t \in call[c].tags : k \in index'[t]
  PROVE  TagsIInv'
<1>1. CallsHold /\ StoreTyped /\ PutUnsettles /\ RedisIndexes /\ RedisDropped /\ Tags!Reachable BY DEF TagsIInv
<1>2. call' = [call EXCEPT ![c] = Tags!NoCall] /\ UNCHANGED <<tagStore, raced, calls, faults>> BY DEF Tags!Return
<1>3. call \in [Caller -> TagCall] /\ faults \in 0..MaxFaults BY <1>1 DEF CallsHold
<1>4. CallsHold' BY <1>1, <1>2, <1>3, MoveHolds, NoCallHolds
<1>5. \A d \in Caller : call'[d] = IF d = c THEN Tags!NoCall ELSE call[d] BY <1>2, <1>3
<1>6. \/ c \in raced /\ settled' = settled /\ want' = want
      \/ /\ c \notin raced /\ settled' = settled \cup ({k} \cap entry) /\ want' \in [CacheKey -> SUBSET Tag]
         /\ \A j \in CacheKey : want'[j] = IF j = k THEN call[c].tags ELSE want[j]
         /\ \A d \in Caller \ {c} : call[d].op = "put" => k \notin call[d].key
         /\ \A d \in Caller \ {c} : call[d].op \notin {"flush", "forget"}
  BY <1>1, SettleHolds
<1>7. StoreTyped' BY <1>1, <1>6 DEF StoreTyped
<1>8. PutUnsettles' BY <1>1, <1>5, <1>6 DEF PutUnsettles, Tags!NoCall
<1>9. \A d \in Caller : call[d].pc = "dropTagged" => call[d].op \in {"flush", "forget"}
  BY <1>1 DEF CallsHold, CallHolds, PutCall, FlushCall, ForgetCall, Tags!NoCall
<1>10. RedisDropped' BY <1>1, <1>5, <1>6, <1>9 DEF RedisDropped, Tags!NoCall
<1>11. RedisIndexes'
  <2> SUFFICES ASSUME NEW d \in Caller \ raced, call'[d].op = "put", call'[d].pc = "index", NEW j \in call'[d].key,
                      NEW t \in call'[d].tags \ call'[d].rest
               PROVE  j \in index'[t]
    BY <1>2 DEF RedisIndexes
  <2>1. call'[d] = call[d] BY <1>5 DEF Tags!NoCall
  <2>2. j \in index[t] /\ t \in Tag BY <1>1, <1>3, <2>1 DEF RedisIndexes, TagCall
  <2>. QED BY <2>2
<1>12. \A j : Tags!Flushing(j) => (Tags!Flushing(j))' BY <1>2, <1>3, FlushingStays, NoCallHolds DEF CallHolds
<1>13. Tags!Reachable'
  <2> SUFFICES ASSUME NEW j \in settled' PROVE j \in entry /\ (~(Tags!Flushing(j))' => \A t \in want'[j] : j \in index'[t])
    BY DEF Tags!Reachable
  <2>1. CASE j \in settled /\ (j # k \/ (settled' = settled /\ want' = want))
    <3>1. j \in entry /\ (~Tags!Flushing(j) => \A t \in want[j] : j \in index[t]) BY <1>1, <2>1 DEF Tags!Reachable
    <3>2. j \in CacheKey /\ want'[j] = want[j] /\ want[j] \subseteq Tag BY <1>1, <1>6, <2>1 DEF StoreTyped
    <3>. QED BY <1>12, <3>1, <3>2
  <2>2. CASE j = k /\ c \notin raced
    <3>1. j \in entry BY <1>1, <1>6, <2>2 DEF Tags!Reachable
    <3>2. want'[j] = call[c].tags BY <1>6, <2>2
    <3>. QED BY <2>2, <3>1, <3>2
  <2>. QED BY <1>6, <2>1, <2>2
<1>. QED BY <1>2, <1>4, <1>7, <1>8, <1>10, <1>11, <1>13 DEF TagsIInv

\* A flush, a forget or a rejected call goes on in Redis: the keys it lets go of are not settled.
LEMMA RedisDeletes ==
  ASSUME TagsIInv, tagStore = "redis", NEW c \in Caller, NEW v, CallHolds(v), call' = [call EXCEPT ![c] = v],
         v = Tags!NoCall \/ (v.op = "flush" /\ call[c].op = "flush"),
         call[c].op = "flush" => call[c].key \subseteq v.key \/ call[c].key \cap settled' = {},
         v.pc = "dropTagged" => v.key \cap settled' = {},
         UNCHANGED <<tagStore, raced, calls, want>>, faults' \in 0..MaxFaults,
         settled' \subseteq settled, entry' \subseteq CacheKey, settled' \subseteq entry',
         tagged' \in [CacheKey -> SUBSET Tag], index' \in [Tag -> SUBSET CacheKey],
         index' = index \/ call[c].op = "flush",
         \A k \in CacheKey, t \in Tag : k \in index[t] => k \in index'[t] \/ (v.op = "flush" /\ k \in v.key)
  PROVE  TagsIInv'
<1>1. CallsHold /\ StoreTyped /\ PutUnsettles /\ RedisIndexes /\ RedisDropped /\ Tags!Reachable BY DEF TagsIInv
<1>2. call \in [Caller -> TagCall] /\ v \in TagCall BY <1>1 DEF CallsHold, CallHolds
<1>3. \A d \in Caller : call'[d] = IF d = c THEN v ELSE call[d] BY <1>2
<1>4. CallsHold' BY <1>1, MoveHolds
<1>5. StoreTyped' BY <1>1 DEF StoreTyped
<1>6. v.op # "put" BY DEF Tags!NoCall
<1>7. PutUnsettles' BY <1>1, <1>3, <1>6 DEF PutUnsettles
<1>8. RedisDropped' BY <1>1, <1>3 DEF RedisDropped
<1>9. RedisIndexes'
  <2> SUFFICES ASSUME NEW d \in Caller \ raced, call'[d].op = "put", call'[d].pc = "index", NEW j \in call'[d].key,
                      NEW t \in call'[d].tags \ call'[d].rest
               PROVE  j \in index'[t]
    BY DEF RedisIndexes
  <2>1. d # c /\ call'[d] = call[d] BY <1>3, <1>6
  <2>2. j \in index[t] BY <1>1, <2>1 DEF RedisIndexes
  <2>3. call[c].op = "flush" => Tags!Races(call[d], call[c]) BY <2>1 DEF Tags!Races
  <2>4. call[c].op # "flush" BY <1>1, <2>1, <2>3 DEF CallsHold
  <2>. QED BY <2>2, <2>4
<1>10. ASSUME NEW k \in settled', Tags!Flushing(k) PROVE (Tags!Flushing(k))'
  <2>1. PICK d \in Caller : call[d].op = "flush" /\ k \in call[d].key BY <1>10 DEF Tags!Flushing
  <2>2. CASE d # c
    <3>1. call'[d].op = "flush" /\ k \in call'[d].key BY <1>3, <2>1, <2>2
    <3>. QED BY <3>1 DEF Tags!Flushing
  <2>3. CASE d = c
    <3>1. k \in v.key BY <1>10, <2>1, <2>3
    <3>2. v.op = "flush" BY <3>1 DEF Tags!NoCall
    <3>3. call'[c].op = "flush" /\ k \in call'[c].key BY <1>3, <3>1, <3>2
    <3>. QED BY <3>3 DEF Tags!Flushing
  <2>. QED BY <2>2, <2>3
<1>11. ASSUME NEW k \in settled', NEW t \in Tag, k \in index[t] PROVE k \in index'[t] \/ (Tags!Flushing(k))'
  <2>1. k \in CacheKey BY <1>1 DEF StoreTyped
  <2>2. CASE v.op = "flush" /\ k \in v.key
    <3>1. call'[c].op = "flush" /\ k \in call'[c].key BY <1>3, <2>2
    <3>. QED BY <3>1 DEF Tags!Flushing
  <2>. QED BY <1>11, <2>1, <2>2
<1>12. Tags!Reachable' BY <1>1, <1>2, <1>10, <1>11, ReachableStays
<1>. QED BY <1>4, <1>5, <1>7, <1>8, <1>9, <1>12 DEF TagsIInv

\* Every step in Redis.
LEMMA RedisHolds == ASSUME TagsBounded, TagsIInv, tagStore = "redis", Tags!Next PROVE TagsIInv'
<1>1. CallsHold /\ StoreTyped /\ PutUnsettles /\ RedisIndexes /\ RedisDropped /\ Tags!Reachable BY DEF TagsIInv
<1>2. /\ index \in [Tag -> SUBSET CacheKey] /\ tagged \in [CacheKey -> SUBSET Tag] /\ entry \subseteq CacheKey
      /\ want \in [CacheKey -> SUBSET Tag] /\ settled \subseteq CacheKey /\ call \in [Caller -> TagCall]
      /\ MaxCalls \in Nat /\ MaxFaults \in Nat /\ calls \in 0..MaxCalls /\ faults \in 0..MaxFaults
      /\ settled \subseteq entry
  BY <1>1 DEF StoreTyped, CallsHold, TagsBounded, Tags!Reachable
<1>3. \A c \in Caller : call[c].pc # "idle" =>
        /\ call[c] # Tags!NoCall /\ (PutCall(call[c]) \/ FlushCall(call[c]) \/ ForgetCall(call[c]))
  BY <1>1 DEF CallsHold, CallHolds, Tags!NoCall
<1>p. ASSUME NEW c \in Caller, call[c].pc \in {"old", "unindex", "untag", "tag", "index"}
      PROVE  call[c].op = "put" /\ \E k \in CacheKey : call[c].key = {k}
  BY <1>3, <1>p DEF PutCall, FlushCall, ForgetCall
<1>q. ASSUME NEW c \in Caller, call[c].pc \in {"old", "unindex", "untag", "tag", "index"} PROVE PutCall(call[c])
  <2>1. PutCall(call[c]) \/ FlushCall(call[c]) \/ ForgetCall(call[c]) BY <1>3, <1>q
  <2>. QED BY <1>q, <2>1 DEF FlushCall, ForgetCall
<1>v. ASSUME NEW c \in Caller, call[c].op = "put", PutCall(call[c]), NEW rest \in SUBSET Tag,
             NEW pc \in {"old", "unindex", "untag", "tag", "index"}
      PROVE  CallHolds([call[c] EXCEPT !.pc = pc, !.rest = rest])
  <2> DEFINE v == [call[c] EXCEPT !.pc = pc, !.rest = rest]
  <2>1. v \in TagCall /\ v.op = "put" /\ v.key = call[c].key /\ v.pc = pc /\ v.rest = rest
    BY <1>2, <1>v DEF TagCall, Tags!Phase
  <2> HIDE DEF v
  <2>2. PutCall(v) BY <1>v, <2>1 DEF PutCall
  <2>3. CallHolds(v) BY <2>1, <2>2 DEF CallHolds
  <2>. QED BY <2>3 DEF v
<1>4. ASSUME NEW c \in Caller, Tags!RedisPut(c) PROVE TagsIInv'
  <2>1. PICK k \in CacheKey, ts \in SUBSET Tag :
          /\ Tags!Begin(c, [Tags!NoCall EXCEPT !.op = "put", !.key = {k}, !.tags = ts,
                                               !.pc = IF ts = {} THEN "untag" ELSE "old"])
          /\ entry' = entry \cup {k} /\ settled' = settled \ {k} /\ want' = want /\ UNCHANGED <<index, tagged>>
    BY <1>4 DEF Tags!RedisPut, Tags!Unsettle
  <2> DEFINE r == [Tags!NoCall EXCEPT !.op = "put", !.key = {k}, !.tags = ts, !.pc = IF ts = {} THEN "untag" ELSE "old"]
  <2>2. r.op = "put" /\ r.key = {k} /\ r.pc \in {"untag", "old"} /\ r \in TagCall
    BY DEF Tags!NoCall, TagCall, Tags!Op, Tags!Phase
  <2>3. Tags!Begin(c, r) BY <2>1
  <2> HIDE DEF r
  <2>4. CallHolds(r) BY <2>2 DEF CallHolds, PutCall
  <2>5. entry' \subseteq CacheKey /\ entry \ r.key \subseteq entry' /\ settled' = settled \ r.key BY <1>2, <2>1, <2>2
  <2>. QED BY <2>1, <2>2, <2>3, <2>4, <2>5, RedisBegins
<1>5. ASSUME NEW c \in Caller, Tags!RedisOld(c) PROVE TagsIInv'
  <2> DEFINE old == UNION {tagged[k] : k \in call[c].key}
             pc == IF old = {} THEN "tag" ELSE "unindex"
  <2>1. call[c].pc = "old" /\ Tags!Step(c, pc, old) /\ UNCHANGED <<entry, index, tagged, want, settled>>
    BY <1>5 DEF Tags!RedisOld
  <2>2. PICK k \in CacheKey : call[c].key = {k} /\ call[c].op = "put" BY <1>p, <2>1
  <2>3. old \subseteq Tag /\ pc \in {"tag", "unindex"} BY <1>2, <2>2
  <2> HIDE DEF old, pc
  <2>4. PutCall(call[c]) BY <1>q, <2>1
  <2>5. CallHolds([call[c] EXCEPT !.pc = pc, !.rest = old]) BY <1>v, <2>2, <2>3, <2>4, Zenon
  <2>. QED BY <1>2, <2>1, <2>2, <2>3, <2>5, RedisPutMoves
<1>6. ASSUME NEW c \in Caller, Tags!RedisUnindex(c) PROVE TagsIInv'
  <2>1. PICK t \in call[c].rest :
          /\ call[c].pc = "unindex" /\ index' = [index EXCEPT ![t] = index[t] \ call[c].key]
          /\ Tags!Step(c, IF call[c].rest = {t} THEN "untag" ELSE "unindex", call[c].rest \ {t})
          /\ UNCHANGED <<entry, tagged, want, settled>>
    BY <1>2, <1>6 DEF Tags!RedisUnindex
  <2> DEFINE rest == call[c].rest \ {t}
             pc == IF call[c].rest = {t} THEN "untag" ELSE "unindex"
  <2>2. PICK k \in CacheKey : call[c].key = {k} /\ call[c].op = "put" BY <1>p, <2>1
  <2>3. PutCall(call[c]) BY <1>q, <2>1
  <2>4. rest \in SUBSET Tag /\ pc \in {"untag", "unindex"} /\ Tags!Step(c, pc, rest)
    <3>1. call[c].rest \subseteq Tag BY <2>1, <2>3 DEF PutCall
    <3>. QED BY <2>1, <3>1
  <2> HIDE DEF rest, pc
  <2>5. CallHolds([call[c] EXCEPT !.pc = pc, !.rest = rest]) BY <1>v, <2>2, <2>3, <2>4, Zenon
  <2>6. \A s \in Tag : index'[s] = IF s = t THEN index[s] \ {k} ELSE index[s] BY <1>2, <2>1, <2>2
  <2>7. index' \in [Tag -> SUBSET CacheKey] BY <1>2, <2>1
  <2>8. \A s \in Tag, j \in CacheKey : j # k /\ j \in index[s] => j \in index'[s] BY <2>6
  <2>. QED BY <1>2, <2>1, <2>2, <2>4, <2>5, <2>7, <2>8, RedisPutMoves
<1>7. ASSUME NEW c \in Caller, Tags!RedisUntag(c) PROVE TagsIInv'
  <2>1. /\ call[c].pc = "untag" /\ entry' = entry /\ index' = index
        /\ tagged' = [k \in CacheKey |-> IF k \in call[c].key THEN {} ELSE tagged[k]]
    BY <1>7 DEF Tags!RedisUntag
  <2>2. PICK k \in CacheKey : call[c].key = {k} /\ call[c].op = "put" BY <1>p, <2>1
  <2>3. tagged' \in [CacheKey -> SUBSET Tag] BY <1>2, <2>1
  <2>4. CASE call[c].tags = {}
    <3>1. Tags!Return(c) /\ Tags!Settle(c) BY <1>7, <2>4 DEF Tags!RedisUntag
    <3>. QED BY <1>2, <2>1, <2>2, <2>3, <2>4, <3>1, RedisPutSettles
  <2>5. CASE call[c].tags # {}
    <3>1. Tags!Step(c, "tag", {}) /\ UNCHANGED <<want, settled>> BY <1>7, <2>5 DEF Tags!RedisUntag, Tags!known
    <3>2. PutCall(call[c]) BY <1>q, <2>1
    <3>3. CallHolds([call[c] EXCEPT !.pc = "tag", !.rest = {}]) BY <1>v, <2>2, <3>2, Zenon
    <3>. QED BY <1>2, <2>1, <2>2, <2>3, <3>1, <3>3, RedisPutMoves
  <2>. QED BY <2>4, <2>5
<1>8. ASSUME NEW c \in Caller, Tags!RedisTag(c) PROVE TagsIInv'
  <2>1. /\ call[c].pc = "tag" /\ Tags!Step(c, "index", call[c].tags) /\ UNCHANGED <<entry, index, want, settled>>
        /\ tagged' = [k \in CacheKey |-> IF k \in call[c].key THEN tagged[k] \cup call[c].tags ELSE tagged[k]]
    BY <1>8 DEF Tags!RedisTag
  <2>2. PICK k \in CacheKey : call[c].key = {k} /\ call[c].op = "put" BY <1>p, <2>1
  <2>3. call[c].tags \in SUBSET Tag BY <1>2 DEF TagCall
  <2>4. tagged' \in [CacheKey -> SUBSET Tag] BY <1>2, <2>1, <2>3
  <2>5. PutCall(call[c]) BY <1>q, <2>1
  <2>6. CallHolds([call[c] EXCEPT !.pc = "index", !.rest = call[c].tags]) BY <1>v, <2>2, <2>3, <2>5, Zenon
  <2>. QED BY <1>2, <2>1, <2>2, <2>4, <2>6, RedisPutMoves
<1>9. ASSUME NEW c \in Caller, Tags!RedisIndex(c) PROVE TagsIInv'
  <2>1. PICK t \in call[c].rest :
          /\ call[c].pc = "index" /\ index' = [index EXCEPT ![t] = index[t] \cup call[c].key]
          /\ UNCHANGED <<entry, tagged>>
          /\ IF call[c].rest = {t} THEN Tags!Return(c) /\ Tags!Settle(c)
             ELSE Tags!Step(c, "index", call[c].rest \ {t}) /\ UNCHANGED <<want, settled>>
    BY <1>2, <1>9 DEF Tags!RedisIndex, Tags!known
  <2>2. PICK k \in CacheKey : call[c].key = {k} /\ call[c].op = "put" BY <1>p, <2>1
  <2>3. PutCall(call[c]) BY <1>q, <2>1
  <2>4. t \in Tag /\ call[c].rest \subseteq Tag /\ call[c].tags \subseteq Tag BY <1>2, <2>1, <2>3 DEF PutCall, TagCall
  <2>5. index' \in [Tag -> SUBSET CacheKey] /\ \A s \in Tag : index[s] \subseteq index'[s] BY <1>2, <2>1, <2>2
  <2>6. k \in index'[t] BY <1>2, <2>1, <2>2, <2>4
  <2>7. c \notin raced => \A s \in call[c].tags \ (call[c].rest \ {t}) : k \in index'[s]
    <3> SUFFICES ASSUME c \notin raced, NEW s \in call[c].tags, s \notin call[c].rest \/ s = t PROVE k \in index'[s] OBVIOUS
    <3>1. CASE s = t BY <2>6, <3>1
    <3>2. CASE s # t
      <4>1. k \in index[s] BY <1>1, <2>1, <2>2, <3>2 DEF RedisIndexes
      <4>. QED BY <2>4, <2>5, <4>1
    <3>. QED BY <3>1, <3>2
  <2>8. CASE call[c].rest = {t}
    <3>1. c \notin raced => \A s \in call[c].tags : k \in index'[s] BY <2>7, <2>8
    <3>. QED BY <1>2, <2>1, <2>2, <2>5, <2>8, <3>1, RedisPutSettles
  <2>9. CASE call[c].rest # {t}
    <3> DEFINE rest == call[c].rest \ {t}
    <3>1. CallHolds([call[c] EXCEPT !.pc = "index", !.rest = rest]) BY <1>v, <2>2, <2>3, <2>4, Zenon
    <3>2. Tags!Step(c, "index", rest) /\ UNCHANGED <<entry, want, settled>> BY <2>1, <2>9
    <3>3. c \notin raced => \A s \in call[c].tags \ rest : k \in index'[s] BY <2>7
    <3>4. tagged' \in [CacheKey -> SUBSET Tag] BY <1>2, <2>1
    <3>5. \A s \in Tag, j \in CacheKey : j # k /\ j \in index[s] => j \in index'[s] BY <2>5
    <3>6. \A s \in Tag : k \in index[s] => k \in index'[s] BY <2>5
    <3>7. index' \in [Tag -> SUBSET CacheKey] BY <2>5
    <3> HIDE DEF rest
    <3>. QED BY <2>2, <3>1, <3>2, <3>3, <3>4, <3>5, <3>6, <3>7, RedisPutMoves
  <2>. QED BY <2>8, <2>9
<1>10. ASSUME NEW c \in Caller, Tags!RedisFlush(c) PROVE TagsIInv'
  <2>1. PICK ts \in SUBSET Tag \ {{}} :
          /\ Tags!Begin(c, [Tags!NoCall EXCEPT !.op = "flush", !.tags = ts, !.pc = "collect", !.rest = ts])
          /\ UNCHANGED <<entry, index, tagged, want, settled>>
    BY <1>10 DEF Tags!RedisFlush
  <2> DEFINE r == [Tags!NoCall EXCEPT !.op = "flush", !.tags = ts, !.pc = "collect", !.rest = ts]
  <2>2. r.op = "flush" /\ r.key = {} /\ r.pc = "collect" /\ r.rest \subseteq Tag /\ r \in TagCall
    BY DEF Tags!NoCall, TagCall, Tags!Op, Tags!Phase
  <2>3. Tags!Begin(c, r) BY <2>1
  <2> HIDE DEF r
  <2>4. CallHolds(r) BY <2>2 DEF CallHolds, FlushCall
  <2>. QED BY <1>2, <2>1, <2>2, <2>3, <2>4, RedisBegins
<1>11. ASSUME NEW c \in Caller, Tags!RedisCollect(c) PROVE TagsIInv'
  <2>1. PICK t \in call[c].rest :
          /\ call[c].pc = "collect" /\ index' = [index EXCEPT ![t] = {}]
          /\ call' = [call EXCEPT ![c] =
               IF call[c].rest # {t} THEN [call[c] EXCEPT !.key = call[c].key \cup index[t], !.rest = call[c].rest \ {t}]
               ELSE IF call[c].key \cup index[t] = {} THEN Tags!NoCall
               ELSE [call[c] EXCEPT !.key = call[c].key \cup index[t], !.rest = {}, !.pc = "drop"]]
          /\ UNCHANGED <<tagStore, entry, tagged, raced, want, settled, calls, faults>>
    BY <1>11 DEF Tags!RedisCollect
  <2> DEFINE keys == call[c].key \cup index[t]
             v == IF call[c].rest # {t} THEN [call[c] EXCEPT !.key = keys, !.rest = call[c].rest \ {t}]
                  ELSE IF keys = {} THEN Tags!NoCall
                  ELSE [call[c] EXCEPT !.key = keys, !.rest = {}, !.pc = "drop"]
  <2>2. FlushCall(call[c]) /\ call[c].op = "flush" BY <1>3, <2>1 DEF PutCall, FlushCall, ForgetCall
  <2>3. t \in Tag /\ call[c].rest \subseteq Tag /\ index[t] \subseteq CacheKey /\ call[c].key \subseteq CacheKey
    BY <1>2, <2>1, <2>2 DEF FlushCall, TagCall
  <2>k. keys \in SUBSET CacheKey BY <2>3
  <2>x. call[c] \in TagCall BY <1>2
  <2>p. tagStore = "redis" BY <1>2
  <2>4. /\ CallHolds(v) /\ v.key = keys /\ v.pc # "dropTagged"
        /\ (v = Tags!NoCall /\ keys = {}) \/ v.op = "flush"
    <3>1. CASE call[c].rest # {t}
      <4>1. v = [call[c] EXCEPT !.key = keys, !.rest = call[c].rest \ {t}] BY <3>1
      <4> HIDE DEF v, keys
      <4>2. v = [op |-> "flush", key |-> keys, tags |-> call[c].tags, pc |-> "collect", rest |-> call[c].rest \ {t}]
        BY <2>1, <2>2, <2>x, <4>1 DEF TagCall
      <4>3. v \in TagCall BY <2>x, <2>3, <2>k, <4>2 DEF TagCall, Tags!Op, Tags!Phase
      <4>4. v.op = "flush" /\ v.pc = "collect" /\ v.rest \subseteq Tag /\ v.key = keys BY <2>3, <4>2
      <4>. QED BY <2>p, <4>3, <4>4 DEF CallHolds, FlushCall
    <3>2. CASE call[c].rest = {t} /\ keys = {}
      <4>1. v = Tags!NoCall BY <3>2
      <4>. QED BY <3>2, <4>1, NoCallHolds DEF Tags!NoCall
    <3>3. CASE call[c].rest = {t} /\ keys # {}
      <4>1. v = [call[c] EXCEPT !.key = keys, !.rest = {}, !.pc = "drop"] BY <3>3
      <4> HIDE DEF v, keys
      <4>2. v = [op |-> "flush", key |-> keys, tags |-> call[c].tags, pc |-> "drop", rest |-> {}]
        BY <2>2, <2>x, <4>1 DEF TagCall
      <4>3. v \in TagCall BY <2>x, <2>k, <4>2 DEF TagCall, Tags!Op, Tags!Phase
      <4>4. v.op = "flush" /\ v.pc = "drop" /\ v.key = keys BY <4>2
      <4>. QED BY <2>p, <4>3, <4>4 DEF CallHolds, FlushCall
    <3>. QED BY <3>1, <3>2, <3>3
  <2>5. call' = [call EXCEPT ![c] = v] BY <2>1
  <2> HIDE DEF v
  <2>6. index' \in [Tag -> SUBSET CacheKey] /\ \A s \in Tag : index'[s] = IF s = t THEN {} ELSE index[s] BY <1>2, <2>1
  <2>7. \A k \in CacheKey, s \in Tag : k \in index[s] => k \in index'[s] \/ (v.op = "flush" /\ k \in v.key) BY <2>4, <2>6
  <2>8. call[c].key \subseteq v.key BY <2>4
  <2>. QED BY <1>2, <2>1, <2>2, <2>4, <2>5, <2>6, <2>7, <2>8, RedisDeletes
<1>12. ASSUME NEW c \in Caller, Tags!RedisDrop(c) PROVE TagsIInv'
  <2>1. /\ call[c].pc = "drop" /\ entry' = entry \ call[c].key /\ settled' = settled \ call[c].key /\ want' = want
        /\ Tags!Step(c, "dropTagged", {}) /\ UNCHANGED <<index, tagged>>
    BY <1>12 DEF Tags!RedisDrop, Tags!Unsettle
  <2> DEFINE v == [call[c] EXCEPT !.pc = "dropTagged", !.rest = {}]
  <2>2. call[c].op = "flush" BY <1>3, <2>1 DEF PutCall, FlushCall, ForgetCall
  <2>3. v \in TagCall /\ v.op = "flush" /\ v.pc = "dropTagged" /\ v.key = call[c].key BY <1>2, <2>2 DEF TagCall, Tags!Phase
  <2>4. call' = [call EXCEPT ![c] = v] /\ UNCHANGED <<tagStore, raced, calls, faults>> BY <1>2, <2>1 DEF Tags!Step, TagCall
  <2> HIDE DEF v
  <2>5. CallHolds(v) BY <2>3 DEF CallHolds, FlushCall
  <2>6. settled' \subseteq entry' BY <1>2, <2>1
  <2>. QED BY <1>2, <2>1, <2>2, <2>3, <2>4, <2>5, <2>6, RedisDeletes
<1>13. ASSUME NEW c \in Caller, Tags!RedisDropTagged(c) PROVE TagsIInv'
  <2>1. /\ call[c].pc = "dropTagged" /\ UNCHANGED <<entry, index, want, settled>>
        /\ tagged' = [k \in CacheKey |-> IF k \in call[c].key THEN {} ELSE tagged[k]]
        /\ call' = [call EXCEPT ![c] = Tags!NoCall] /\ UNCHANGED <<tagStore, raced, calls, faults>>
    BY <1>13 DEF Tags!RedisDropTagged, Tags!Return
  <2>2. tagged' \in [CacheKey -> SUBSET Tag] BY <1>2, <2>1
  <2>3. call[c].key \cap settled' = {} BY <1>1, <2>1 DEF RedisDropped
  <2>4. Tags!NoCall.pc # "dropTagged" BY DEF Tags!NoCall
  <2>. QED BY <1>2, <2>1, <2>2, <2>3, <2>4, NoCallHolds, RedisDeletes
<1>14. ASSUME NEW c \in Caller, Tags!Reject(c) PROVE TagsIInv'
  <2>1. /\ faults < MaxFaults /\ faults' = faults + 1 /\ call' = [call EXCEPT ![c] = Tags!NoCall]
        /\ settled' = settled \ call[c].key /\ UNCHANGED <<tagStore, entry, index, tagged, raced, want, calls>>
    BY <1>14 DEF Tags!Reject
  <2>2. faults' \in 0..MaxFaults BY <1>2, <2>1
  <2>3. call[c].key \cap settled' = {} /\ settled' \subseteq settled /\ settled' \subseteq entry' BY <1>2, <2>1
  <2>4. Tags!NoCall.pc # "dropTagged" BY DEF Tags!NoCall
  <2>. QED BY <1>2, <2>1, <2>2, <2>3, <2>4, NoCallHolds, RedisDeletes
<1>15. ASSUME NEW c \in Caller, NEW k \in CacheKey, Tags!Forget(c, k) PROVE TagsIInv'
  <2>1. /\ entry' = entry \ {k} /\ settled' = settled \ {k} /\ want' = want /\ UNCHANGED <<index, tagged>>
        /\ Tags!Begin(c, [Tags!NoCall EXCEPT !.op = "forget", !.key = {k}, !.pc = "dropTagged"])
    BY <1>15 DEF Tags!Forget, Tags!Unsettle
  <2> DEFINE r == [Tags!NoCall EXCEPT !.op = "forget", !.key = {k}, !.pc = "dropTagged"]
  <2>2. r.op = "forget" /\ r.key = {k} /\ r.pc = "dropTagged" /\ r \in TagCall
    BY DEF Tags!NoCall, TagCall, Tags!Op, Tags!Phase
  <2>3. Tags!Begin(c, r) BY <2>1
  <2> HIDE DEF r
  <2>4. CallHolds(r) BY <2>2 DEF CallHolds, ForgetCall
  <2>. QED BY <1>2, <2>1, <2>2, <2>3, <2>4, RedisBegins
<1>16. CASE Tags!FlushAll
  <2>1. /\ entry' = {} /\ Tags!Without(CacheKey) /\ settled' = settled \ CacheKey /\ want' = want
        /\ raced' = {c \in Caller : call[c].op = "put"} \cup raced /\ UNCHANGED <<tagStore, call, calls, faults>>
    BY <1>16 DEF Tags!FlushAll, Tags!Unsettle
  <2>2. settled' = {} BY <1>2, <2>1
  <2>3. index' \in [Tag -> SUBSET CacheKey] /\ tagged' \in [CacheKey -> SUBSET Tag] BY <1>2, <2>1 DEF Tags!Without
  <2>4. CallsHold'
    <3>1. raced \subseteq raced' /\ raced' \subseteq Caller BY <1>1, <2>1 DEF CallsHold
    <3>. QED BY <1>1, <2>1, <3>1 DEF CallsHold, CallHolds, PutCall, FlushCall, ForgetCall, Tags!Races
  <2>5. StoreTyped' BY <1>2, <2>1, <2>2, <2>3 DEF StoreTyped
  <2>6. PutUnsettles' /\ RedisDropped' /\ Tags!Reachable' BY <2>2 DEF PutUnsettles, RedisDropped, Tags!Reachable
  <2>7. RedisIndexes' BY <2>1 DEF RedisIndexes
  <2>. QED BY <2>1, <2>4, <2>5, <2>6, <2>7 DEF TagsIInv
<1>17. ASSUME NEW k \in CacheKey, entry' = entry \ {k} \/ entry' = entry \cup {k},
              settled' = settled \ {k} \/ (settled' = settled /\ k \in entry'),
              UNCHANGED <<tagStore, index, tagged, call, raced, want, calls, faults>>
       PROVE  TagsIInv'
  <2>1. CallsHold' BY <1>1, <1>17 DEF CallsHold, CallHolds, PutCall, FlushCall, ForgetCall, Tags!Races
  <2>2. StoreTyped' BY <1>1, <1>17 DEF StoreTyped
  <2>3. PutUnsettles' /\ RedisDropped' /\ RedisIndexes' BY <1>1, <1>17 DEF PutUnsettles, RedisDropped, RedisIndexes
  <2>4. settled' \subseteq settled /\ settled' \subseteq entry' BY <1>2, <1>17
  <2>5. \A j : (Tags!Flushing(j))' = Tags!Flushing(j) BY <1>17 DEF Tags!Flushing
  <2>6. Tags!Reachable' BY <1>1, <1>2, <1>17, <2>4, <2>5, ReachableStays
  <2>. QED BY <1>17, <2>1, <2>2, <2>3, <2>6 DEF TagsIInv
<1>18. ASSUME NEW k \in CacheKey, Tags!Write(k) \/ Tags!Expire(k) PROVE TagsIInv'
  BY <1>17, <1>18 DEF Tags!Write, Tags!Expire, Tags!Unsettle
<1>19. ASSUME NEW c \in Caller PROVE ~(Tags!MemoryPut(c) \/ Tags!PostgresPut(c) \/ Tags!PostgresUntag(c) \/ Tags!PostgresTag(c))
  BY DEF Tags!MemoryPut, Tags!PostgresPut, Tags!PostgresUntag, Tags!PostgresTag
<1>20. ~(Tags!MemoryFlush \/ Tags!PostgresFlush) BY DEF Tags!MemoryFlush, Tags!PostgresFlush
<1>. QED BY <1>4, <1>5, <1>6, <1>7, <1>8, <1>9, <1>10, <1>11, <1>12, <1>13, <1>14, <1>15, <1>16, <1>18, <1>19, <1>20 DEF Tags!Next

\* Every step keeps it, whatever the driver.
LEMMA TagsKept == ASSUME TagsBounded, TagsIInv, [Tags!Next]_tagVars PROVE TagsIInv'
<1>1. CASE UNCHANGED tagVars
  <2>1. CallsHold' BY <1>1 DEF tagVars, TagsIInv, CallsHold, CallHolds, PutCall, FlushCall, ForgetCall, Tags!Races
  <2>2. StoreTyped' /\ (tagStore # "redis" => Agrees') /\ PutUnsettles' BY <1>1 DEF tagVars, TagsIInv, StoreTyped, Agrees, PutUnsettles
  <2>3. tagStore = "postgres" => PostgresTagsAnew' BY <1>1 DEF tagVars, TagsIInv, PostgresTagsAnew
  <2>4. tagStore = "redis" => RedisIndexes' /\ RedisDropped' BY <1>1 DEF tagVars, TagsIInv, RedisIndexes, RedisDropped
  <2>5. tagStore = "redis" => Tags!Reachable' BY <1>1 DEF tagVars, TagsIInv, Tags!Reachable, Tags!Flushing
  <2>. QED BY <1>1, <2>1, <2>2, <2>3, <2>4, <2>5 DEF tagVars, TagsIInv
<1>. QED BY <1>1, PlainHolds, RedisHolds

\* What it says of the tags.
LEMMA TagsAreSafe == TagsIInv => Tags!TaggedInv
<1> SUFFICES ASSUME TagsIInv PROVE Tags!TaggedInv OBVIOUS
<1>1. CallsHold /\ StoreTyped /\ (tagStore # "redis" => Agrees) BY DEF TagsIInv
<1>2. Tags!TypeOK BY <1>1 DEF Tags!TypeOK, CallsHold, StoreTyped, TagCall
<1>3. Tags!Exact BY <1>1 DEF Tags!Exact, Agrees
<1>4. Tags!Reachable
  <2>1. CASE tagStore = "redis" BY <2>1 DEF TagsIInv
  <2>2. CASE tagStore # "redis"
    <3>1. \A k \in settled : k \in entry /\ k \in CacheKey /\ \A t \in want[k] : t \in Tag /\ t \in tagged[k]
      BY <1>1, <2>2 DEF Agrees, StoreTyped
    <3>. QED BY <1>1, <2>2, <3>1 DEF Agrees, Tags!Reachable
  <2>. QED BY <2>1, <2>2
<1>. QED BY <1>2, <1>3, <1>4 DEF Tags!TaggedInv

\* tags() of the cache drivers: an entry whose last put nothing raced with is found by each of
\* its tags, and in memory and Postgres by no other, whatever is flushed, forgotten or fails.
THEOREM TagsFindEntries ==
  ASSUME TagsBounded
  PROVE  Tags!Init /\ [][Tags!Next]_tagVars => []Tags!TaggedInv
<1>1. Tags!Init => TagsIInv BY TagsStart
<1>2. TagsIInv /\ [Tags!Next]_tagVars => TagsIInv' BY TagsKept
<1>. QED BY <1>1, <1>2, TagsAreSafe, PTL

(***************************************************************************)
(* Stored conversations.                                                   *)
(***************************************************************************)
ThreadPhase == {"idle", "loading", "loaded", "asked", "append", "inserting", "bump", "bumping", "done", "failed"}
\* Whatever the messages are.
ThreadRecord(M) == [pc : ThreadPhase, messages : M, last : Conversation \cup {None}, seen : Nat, turns : 0..2]
ThreadTyped ==
  /\ exists \in BOOLEAN /\ pointer \in Conversation \cup {None}
  /\ IsFiniteSet(stored)
  /\ stored \subseteq [index : Nat, role : {"user", "assistant"}, response : Conversation \cup {None}, by : Conversation]
  /\ \E M : sending \in [Conversation -> ThreadRecord(M)]

\* A deleted thread has no turn; an INSERT saw at most what is there; a request that
\* stores its answer has its question there, one that bumps the pointer its answer.
ThreadPromises ==
  /\ ~exists => stored = {} /\ pointer = None
  /\ \A r \in Conversation : sending[r].pc \in {"append", "inserting"} => sending[r].turns \in 0..1
  /\ \A r \in Conversation : sending[r].pc \in {"idle", "loading", "loaded", "asked"} => sending[r].turns = 0
  /\ exists => \A r \in Conversation :
       /\ sending[r].pc = "inserting" => sending[r].seen <= Cardinality(stored)
       /\ sending[r].pc \in {"append", "inserting"} /\ sending[r].turns # 0
            => \E n \in stored : n.by = r /\ n.role = "user"
       /\ sending[r].pc \in {"bump", "bumping"} => \E m \in stored : m.response = r
ThreadIInv == ThreadTyped /\ ThreadPromises /\ Thread!Dense /\ Thread!QuestionFirst /\ Thread!PointerStored

\* The instance counts as this module does.
LEMMA ThreadCounts == ASSUME NEW S PROVE Thread!Cardinality(S) = Cardinality(S)
BY DEF Thread!Cardinality, Cardinality

\* One request moves on.
LEMMA ThreadMove == ASSUME NEW M, NEW N, NEW r \in Conversation, NEW v \in ThreadRecord(N),
    sending \in [Conversation -> ThreadRecord(M)], sending' = [sending EXCEPT ![r] = v]
  PROVE sending' \in [Conversation -> ThreadRecord(M \cup N)]
BY DEF ThreadRecord

\* A new thread has no turn.
LEMMA ThreadStarts == Thread!Init => ThreadIInv
<1> SUFFICES ASSUME Thread!Init PROVE ThreadIInv OBVIOUS
<1>1. IsFiniteSet(stored) /\ Cardinality(stored) = 0 BY FS_EmptySet DEF Thread!Init
<1>2. ThreadTyped
  <2>1. sending \in [Conversation -> ThreadRecord({<<>>})] BY DEF Thread!Init, ThreadRecord, ThreadPhase
  <2>. QED BY <1>1, <2>1 DEF Thread!Init, ThreadTyped
<1>3. ThreadPromises BY DEF Thread!Init, ThreadPromises
<1>4. Thread!Dense BY <1>1, ThreadCounts DEF Thread!Init, Thread!Dense
<1>. QED BY <1>2, <1>3, <1>4 DEF Thread!Init, Thread!QuestionFirst, Thread!PointerStored, ThreadIInv

\* What an INSERT computes is the number of turns it sees.
LEMMA NextIndexCounts == ASSUME ThreadTyped, Thread!Dense PROVE Thread!NextIndex = Cardinality(stored)
<1> DEFINE size == Cardinality(stored)
           Indices == {m.index : m \in stored}
           Last == CHOOSE n \in Indices : \A m \in stored : m.index <= n
<1>1. size \in Nat BY FS_CardinalityType DEF ThreadTyped
<1>2. CASE stored = {} BY <1>2, FS_EmptySet DEF Thread!NextIndex
<1>3. CASE stored # {}
  <2>1. size # 0 BY <1>3, FS_EmptySet DEF ThreadTyped
  <2>2. Indices = 0..(size - 1) BY ThreadCounts DEF Thread!Dense
  <2>3. (size - 1) \in Indices /\ \A m \in stored : m.index <= size - 1 BY <1>1, <2>1, <2>2
  <2>4. Last \in Indices /\ \A m \in stored : m.index <= Last BY <2>3
  <2>5. PICK m \in stored : m.index = size - 1 BY <2>3
  <2>6. Last = size - 1
    <3>1. Last \in 0..(size - 1) BY <2>2, <2>4
    <3>2. size - 1 <= Last BY <2>4, <2>5
    <3> HIDE DEF Last, size
    <3>. QED BY <3>1, <3>2, <1>1
  <2>7. Thread!NextIndex = 1 + Last BY <1>3, Zenon DEF Thread!NextIndex
  <2> HIDE DEF Last, size
  <2>8. Thread!NextIndex = size BY <1>1, <2>6, <2>7
  <2>. QED BY <2>8 DEF size
<1>. QED BY <1>2, <1>3

\* Each step of a request, and the deletion, keep the invariant.
LEMMA ThreadKept == ThreadIInv /\ [Thread!Next]_threadVars => ThreadIInv'
<1> SUFFICES ASSUME ThreadIInv, [Thread!Next]_threadVars PROVE ThreadIInv' OBVIOUS
<1>0. Cardinality(stored) \in Nat BY FS_CardinalityType DEF ThreadIInv, ThreadTyped
<1>m. PICK M : sending \in [Conversation -> ThreadRecord(M)] BY DEF ThreadIInv, ThreadTyped
<1>b. ASSUME NEW r \in Conversation, NEW v, v \in ThreadRecord({v.messages}), sending' = [sending EXCEPT ![r] = v],
             UNCHANGED <<stored, exists>>, pointer' \in Conversation \cup {None}
      PROVE ThreadTyped'
  BY <1>m, <1>b, ThreadMove DEF ThreadIInv, ThreadTyped
<1>a. ASSUME UNCHANGED <<stored, exists, pointer>>, ThreadTyped', ThreadPromises' PROVE ThreadIInv'
  BY <1>a DEF ThreadIInv, Thread!Dense, Thread!QuestionFirst, Thread!PointerStored
<1>1. ASSUME NEW r \in Conversation, Thread!Load(r) PROVE ThreadIInv'
  <2>v. [sending[r] EXCEPT !.pc = "loading", !.last = pointer] \in ThreadRecord({[sending[r] EXCEPT !.pc = "loading", !.last = pointer].messages})
    BY <1>m DEF ThreadIInv, ThreadTyped, ThreadRecord, ThreadPhase
  <2>1. ThreadTyped' BY <1>1, <1>b, <2>v DEF ThreadIInv, ThreadTyped, Thread!Load
  <2>2. ThreadPromises' BY <1>m, <1>1 DEF ThreadIInv, ThreadRecord, ThreadPromises, Thread!Load
  <2>. QED BY <1>1, <1>a, <2>1, <2>2 DEF Thread!Load
<1>2. ASSUME NEW r \in Conversation, Thread!LoadMessages(r) PROVE ThreadIInv'
  <2>v. [sending[r] EXCEPT !.pc = "loaded", !.messages = [i \in 1..Thread!Cardinality(stored) |-> Thread!InOrder(stored)[i].role]] \in ThreadRecord({[sending[r] EXCEPT !.pc = "loaded", !.messages = [i \in 1..Thread!Cardinality(stored) |-> Thread!InOrder(stored)[i].role]].messages})
    BY <1>m DEF ThreadRecord, ThreadPhase
  <2>1. ThreadTyped' BY <1>2, <1>b, <2>v DEF ThreadIInv, ThreadTyped, Thread!LoadMessages
  <2>2. ThreadPromises' BY <1>m, <1>2 DEF ThreadIInv, ThreadRecord, ThreadPromises, Thread!LoadMessages
  <2>. QED BY <1>2, <1>a, <2>1, <2>2 DEF Thread!LoadMessages
<1>3. ASSUME NEW r \in Conversation, Thread!Send(r) PROVE ThreadIInv'
  <2> DEFINE v == [sending[r] EXCEPT !.pc = "asked", !.messages = Append(sending[r].messages, "user")]
  <2>0. sending' = [sending EXCEPT ![r] = v] BY <1>m, <1>3 DEF ThreadRecord, Thread!Send
  <2>v. v \in ThreadRecord({v.messages}) /\ v.pc = "asked" /\ v.turns = sending[r].turns BY <1>m DEF ThreadRecord, ThreadPhase
  <2> HIDE DEF v
  <2>1. ThreadTyped' BY <1>3, <1>b, <2>0, <2>v DEF ThreadIInv, ThreadTyped, Thread!Send
  <2>2. ThreadPromises' BY <1>m, <1>3, <2>0, <2>v DEF ThreadIInv, ThreadRecord, ThreadPromises, Thread!Send
  <2>. QED BY <1>3, <1>a, <2>1, <2>2 DEF Thread!Send
<1>4. ASSUME NEW r \in Conversation, Thread!Replied(r) PROVE ThreadIInv'
  <2> DEFINE v == [sending[r] EXCEPT !.pc = "append", !.messages = Append(sending[r].messages, "assistant"), !.last = r]
             w == [sending[r] EXCEPT !.pc = "failed"]
  <2>0. sending' = [sending EXCEPT ![r] = v] \/ sending' = [sending EXCEPT ![r] = w]
    BY <1>m, <1>4 DEF ThreadRecord, Thread!Replied, Thread!Go
  <2>v. v \in ThreadRecord({v.messages}) /\ v.pc = "append" /\ v.turns = sending[r].turns BY <1>m DEF ThreadRecord, ThreadPhase
  <2>w. w \in ThreadRecord({w.messages}) /\ w.pc = "failed" BY <1>m DEF ThreadRecord, ThreadPhase
  <2> HIDE DEF v, w
  <2>1. ThreadTyped' BY <1>4, <1>b, <2>0, <2>v, <2>w DEF ThreadIInv, ThreadTyped, Thread!Replied
  <2>2. ThreadPromises' BY <1>m, <1>4, <2>0, <2>v, <2>w DEF ThreadIInv, ThreadRecord, ThreadPromises, Thread!Replied
  <2>. QED BY <1>4, <1>a, <2>1, <2>2 DEF Thread!Replied
<1>5. ASSUME NEW r \in Conversation, Thread!Insert(r) PROVE ThreadIInv'
  <2>0. Thread!NextIndex = Cardinality(stored) BY NextIndexCounts DEF ThreadIInv
  <2>v. [sending[r] EXCEPT !.pc = "inserting", !.seen = Thread!NextIndex] \in ThreadRecord({[sending[r] EXCEPT !.pc = "inserting", !.seen = Thread!NextIndex].messages})
    BY <1>m, <1>0, <2>0 DEF ThreadRecord, ThreadPhase
  <2>1. ThreadTyped' BY <1>5, <1>b, <2>v DEF ThreadIInv, ThreadTyped, Thread!Insert
  <2>2. ThreadPromises' BY <1>m, <1>0, <1>5, <2>0 DEF ThreadIInv, ThreadRecord, ThreadPromises, Thread!Insert
  <2>. QED BY <1>5, <1>a, <2>1, <2>2 DEF Thread!Insert
<1>6. ASSUME NEW r \in Conversation, Thread!Inserted(r) PROVE ThreadIInv'
  <2> DEFINE seen == sending[r].seen
             new == [index |-> seen, role |-> Thread!Role(r), response |-> Thread!Response(r), by |-> r]
  <2>1. CASE ~(exists /\ Thread!Free(seen))
    <3>v. [sending[r] EXCEPT !.pc = "failed"] \in ThreadRecord({[sending[r] EXCEPT !.pc = "failed"].messages})
      BY <1>m DEF ThreadRecord, ThreadPhase
    <3>1. ThreadTyped' BY <1>6, <1>b, <2>1, <3>v DEF ThreadIInv, ThreadTyped, Thread!Inserted, Thread!Go
    <3>2. ThreadPromises' BY <1>m, <1>6, <2>1 DEF ThreadIInv, ThreadRecord, ThreadPromises, Thread!Inserted, Thread!Go
    <3>. QED BY <1>6, <1>a, <2>1, <3>1, <3>2 DEF Thread!Inserted
  <2>2. CASE exists /\ Thread!Free(seen)
    <3>1. seen = Cardinality(stored)
      <4>1. seen \in 0..Cardinality(stored) BY <1>0, <1>6, <2>2 DEF ThreadIInv, ThreadTyped, ThreadRecord, ThreadPromises, Thread!Inserted
      <4>2. seen \notin {m.index : m \in stored} BY <2>2 DEF Thread!Free
      <4>. QED BY <1>0, <4>1, <4>2, ThreadCounts DEF ThreadIInv, Thread!Dense
    <3>2. stored' = stored \cup {new} BY <1>6, <2>2 DEF Thread!Inserted
    <3>3. new \notin stored BY <2>2 DEF Thread!Free
    <3>4. IsFiniteSet(stored') /\ Cardinality(stored') = Cardinality(stored) + 1
      BY <3>2, <3>3, FS_AddElement DEF ThreadIInv, ThreadTyped
    <3>5. seen \in Nat /\ sending[r].turns \in 0..1 /\ sending[r].pc = "inserting"
      BY <1>m, <1>6 DEF ThreadIInv, ThreadPromises, ThreadRecord, Thread!Inserted
    <3>6. /\ Thread!Role(r) = (IF sending[r].turns = 0 THEN "user" ELSE "assistant")
          /\ Thread!Role(r) \in {"user", "assistant"}
          /\ Thread!Response(r) \in Conversation \cup {None}
          /\ Thread!Role(r) = "assistant" => Thread!Response(r) = r
      BY DEF Thread!Role, Thread!Response
    <3>n. new.index = seen /\ new.by = r /\ new.role = Thread!Role(r) /\ new.response = Thread!Response(r) OBVIOUS
    <3> DEFINE v == [sending[r] EXCEPT !.turns = sending[r].turns + 1, !.pc = IF sending[r].turns = 0 THEN "append" ELSE "bump"]
    <3>7. exists' = exists /\ pointer' = pointer /\ sending' = [sending EXCEPT ![r] = v]
      BY <1>m, <1>6, <2>2, <3>5 DEF ThreadRecord, Thread!Inserted
    <3>v. /\ v \in ThreadRecord({v.messages}) /\ v.turns = sending[r].turns + 1
          /\ v.pc = IF sending[r].turns = 0 THEN "append" ELSE "bump"
      <4> DEFINE next == IF sending[r].turns = 0 THEN "append" ELSE "bump"
      <4>1. next \in ThreadPhase BY DEF ThreadPhase
      <4>2. sending[r] \in ThreadRecord(M) /\ sending[r].turns + 1 \in 0..2 BY <1>m, <3>5
      <4> HIDE DEF next
      <4>3. /\ v \in ThreadRecord({v.messages}) /\ v.turns = sending[r].turns + 1 /\ v.pc = next
        BY <4>1, <4>2 DEF ThreadRecord, next
      <4>. QED BY <4>3 DEF next
    <3>t. new \in [index : Nat, role : {"user", "assistant"}, response : Conversation \cup {None}, by : Conversation]
      BY <3>5, <3>6
    <3> HIDE DEF v, new
    <3>8. ThreadTyped'
      <4>1. sending' \in [Conversation -> ThreadRecord(M \cup {v.messages})] BY <1>m, <3>7, <3>v, ThreadMove
      <4>. QED BY <3>2, <3>4, <3>7, <3>t, <4>1 DEF ThreadIInv, ThreadTyped
    <3>9. ThreadPromises'
      <4>1. new \in stored' /\ stored \subseteq stored' /\ Cardinality(stored') >= Cardinality(stored) BY <1>0, <3>2, <3>4
      <4>2. \A s \in Conversation : sending'[s] = IF s = r THEN v ELSE sending[s] BY <1>m, <3>7
      <4>3. \A s \in Conversation : sending[s].seen \in Nat BY <1>m DEF ThreadRecord
      <4>4. ThreadPromises BY DEF ThreadIInv
      <4>5. \A s \in Conversation : sending'[s].pc = "inserting" => sending'[s].seen <= Cardinality(stored')
        BY <1>0, <2>2, <3>4, <3>v, <4>2, <4>3, <4>4 DEF ThreadPromises
      <4>. QED BY <2>2, <3>5, <3>6, <3>7, <3>n, <3>v, <4>1, <4>2, <4>4, <4>5 DEF ThreadPromises
    <3>10. Thread!Dense'
      <4>1. {m.index : m \in stored'} = {m.index : m \in stored} \cup {seen} BY <3>2, <3>n
      <4>2. {m.index : m \in stored} = 0..(seen - 1) BY <3>1, ThreadCounts DEF ThreadIInv, Thread!Dense
      <4>5. ASSUME NEW n \in Nat PROVE (0..(n - 1)) \cup {n} = 0..n OBVIOUS
      <4>3. {m.index : m \in stored'} = 0..seen BY <3>5, <4>1, <4>2, <4>5
      <4>4. Thread!Cardinality(stored') = Cardinality(stored') BY ThreadCounts
      <4>. QED BY <1>0, <3>1, <3>4, <4>3, <4>4 DEF Thread!Dense
    <3>11. Thread!QuestionFirst'
      <4>1. \A n \in stored : n.index < seen
        <5>1. \A n \in stored : n.index \in 0..(Cardinality(stored) - 1) BY ThreadCounts DEF ThreadIInv, Thread!Dense
        <5>. QED BY <1>0, <3>1, <5>1
      <4>2. new.role = "assistant" => \E n \in stored : n.by = new.by /\ n.role = "user" /\ n.index < new.index
        BY <2>2, <3>5, <3>6, <3>n, <4>1 DEF ThreadIInv, ThreadPromises
      <4>. QED BY <3>2, <4>2 DEF ThreadIInv, Thread!QuestionFirst
    <3>12. Thread!PointerStored' BY <3>2, <3>7 DEF ThreadIInv, Thread!PointerStored
    <3>. QED BY <3>8, <3>9, <3>10, <3>11, <3>12 DEF ThreadIInv
  <2>. QED BY <2>1, <2>2
<1>7. ASSUME NEW r \in Conversation, Thread!Find(r) PROVE ThreadIInv'
  <2>v. [sending[r] EXCEPT !.pc = IF exists THEN "bumping" ELSE "done"] \in ThreadRecord({[sending[r] EXCEPT !.pc = IF exists THEN "bumping" ELSE "done"].messages})
    BY <1>m DEF ThreadRecord, ThreadPhase
  <2>1. ThreadTyped' BY <1>7, <1>b, <2>v DEF ThreadIInv, ThreadTyped, Thread!Find, Thread!Go
  <2>2. ThreadPromises' BY <1>m, <1>7 DEF ThreadIInv, ThreadRecord, ThreadPromises, Thread!Find, Thread!Go
  <2>. QED BY <1>7, <1>a, <2>1, <2>2 DEF Thread!Find
<1>8. ASSUME NEW r \in Conversation, Thread!Bump(r) PROVE ThreadIInv'
  <2>v. [sending[r] EXCEPT !.pc = IF exists THEN "done" ELSE "failed"] \in ThreadRecord({[sending[r] EXCEPT !.pc = IF exists THEN "done" ELSE "failed"].messages})
    BY <1>m DEF ThreadRecord, ThreadPhase
  <2>1. ThreadTyped' BY <1>8, <1>b, <2>v DEF ThreadIInv, ThreadTyped, Thread!Bump, Thread!Go
  <2>2. ThreadPromises' BY <1>m, <1>8 DEF ThreadIInv, ThreadRecord, ThreadPromises, Thread!Bump, Thread!Go
  <2>3. Thread!PointerStored'
    BY <1>8 DEF ThreadIInv, ThreadPromises, Thread!PointerStored, Thread!Bump
  <2>. QED BY <1>8, <2>1, <2>2, <2>3 DEF ThreadIInv, Thread!Bump, Thread!Dense, Thread!QuestionFirst
<1>9. CASE Thread!Delete
  <2>1. IsFiniteSet(stored') /\ Cardinality(stored') = 0 BY <1>9, FS_EmptySet DEF Thread!Delete
  <2>2. ThreadTyped' BY <1>9, <2>1 DEF ThreadIInv, ThreadTyped, Thread!Delete
  <2>3. ThreadPromises' BY <1>9 DEF ThreadIInv, ThreadPromises, Thread!Delete
  <2>4. Thread!Dense' BY <1>9, <2>1, ThreadCounts DEF Thread!Delete, Thread!Dense
  <2>. QED BY <1>9, <2>2, <2>3, <2>4 DEF ThreadIInv, Thread!Delete, Thread!QuestionFirst, Thread!PointerStored
<1>10. CASE UNCHANGED threadVars
  BY <1>10 DEF threadVars, ThreadIInv, ThreadTyped, ThreadPromises, Thread!Dense, Thread!QuestionFirst, Thread!PointerStored
<1>. QED BY <1>1, <1>2, <1>3, <1>4, <1>5, <1>6, <1>7, <1>8, <1>9, <1>10 DEF Thread!Next

\* The inductive invariant contains what a run checks.
LEMMA ThreadIsSafe == ThreadIInv => Thread!ThreadInv
BY DEF ThreadIInv, ThreadTyped, Thread!ThreadInv, Thread!TypeOK

\* DatabaseBrainStore.appendTurn: whoever sends into one conversation at the same time, its turns
\* are numbered without a gap or a duplicate, a question comes before its answer, and the pointer
\* is of a turn it has.
THEOREM ThreadsKeepOrder == Thread!Init /\ [][Thread!Next]_threadVars => []Thread!ThreadInv
BY ThreadStarts, ThreadKept, ThreadIsSafe, PTL

(***************************************************************************)
(* Migrations.                                                             *)
(***************************************************************************)
\* What a version registers are migrations, which their names order.
MigrationsAreOrdered == Migration \subseteq Int /\ Versions \subseteq SUBSET Migration

Command == [op : {"none", "migrate", "rollback"}, at : {"idle", "batch", "step"}, todo : SUBSET Migration, batch : Nat]
RunnerTyped ==
    /\ known \in [Runner -> SUBSET Migration]
    /\ tracking \subseteq [m : Migration, batch : Nat]
    /\ effect \in [Migration -> Int] /\ crossed \in BOOLEAN
    /\ migration \in [Runner -> Command]
    /\ \A r \in Runner : IF migration[r].op = "none" THEN migration[r] = Migrations!Idle ELSE migration[r].todo # {}
    /\ \A r \in Runner : migration[r].op = "rollback" => migration[r].at = "step"

\* Rows have a last batch, and keep one whichever of them go.
Batched == \A S \in SUBSET tracking : S # {} => \E x \in S : \A y \in S : y.batch <= x.batch

\* A rollback that met no other command takes back exactly the last batch.
RollbackAlone ==
    ~crossed => \A r \in Runner : migration[r].op = "rollback" =>
        /\ \A s \in Runner \ {r} : migration[s].op = "none"
        /\ \A x \in tracking : x.batch <= migration[r].batch /\ (x.m \in migration[r].todo <=> x.batch = migration[r].batch)
        /\ migration[r].todo \subseteq Migrations!Tracked

\* Where one version of the code migrates: a migrate has left what nobody applied, a later
\* migration is of no earlier batch, and who may still apply its next migration is of the
\* last batch.
AppliedInOrder ==
    ~crossed /\ (\A r \in Runner : known[r] = Migration) =>
        /\ \A x, y \in tracking : x.m < y.m => x.batch <= y.batch
        /\ \A r \in Runner : migration[r].op = "migrate" =>
             /\ Migration \ migration[r].todo \subseteq Migrations!Tracked
             /\ \A m \in Migration : migration[r].at = "step" /\ Migrations!First(r, m) /\ m \notin Migrations!Tracked
                  => \A x \in tracking : x.batch <= migration[r].batch

RunnerIInv == RunnerTyped /\ Batched /\ RollbackAlone /\ AppliedInOrder /\ Migrations!MigrationInv

\* The last batch is none below.
LEMMA LastBatchIsLast == ASSUME RunnerTyped, Batched
  PROVE /\ Migrations!LastBatch \in Nat /\ \A x \in tracking : x.batch <= Migrations!LastBatch
<1> DEFINE Batches == {0} \cup {x.batch : x \in tracking}
<1>1. \E n \in Batches : \A k \in Batches : n >= k
  <2>1. CASE tracking = {} BY <2>1
  <2>2. CASE tracking # {}
    <3>1. PICK x \in tracking : \A y \in tracking : y.batch <= x.batch BY <2>2 DEF Batched
    <3>2. \A y \in tracking : y.batch \in Nat BY DEF RunnerTyped
    <3>3. x.batch \in Batches /\ \A k \in Batches : x.batch >= k BY <3>1, <3>2
    <3>. QED BY <3>3
  <2>. QED BY <2>1, <2>2
<1>2. Migrations!LastBatch = CHOOSE n \in Batches : \A k \in Batches : n >= k
  BY DEF Migrations!LastBatch, Migrations!Max
<1>3. Migrations!LastBatch \in Batches /\ \A k \in Batches : Migrations!LastBatch >= k BY <1>1, <1>2
<1>4. \A y \in tracking : y.batch \in Nat BY DEF RunnerTyped
<1>. QED BY <1>3, <1>4

\* Nothing is applied at first.
LEMMA RunnerStarts == ASSUME MigrationsAreOrdered, Migrations!Init PROVE RunnerIInv
<1>0. known \in [Runner -> SUBSET Migration] BY DEF MigrationsAreOrdered, Migrations!Init
<1>1. RunnerTyped
  <2>1. migration \in [Runner -> Command] BY DEF Migrations!Init, Command, Migrations!Idle
  <2>2. \A r \in Runner : migration[r] = Migrations!Idle BY DEF Migrations!Init
  <2>3. Migrations!Idle.op = "none" BY DEF Migrations!Idle
  <2>4. tracking = {} /\ effect \in [Migration -> Int] /\ crossed = FALSE BY DEF Migrations!Init
  <2>. QED BY <1>0, <2>1, <2>2, <2>3, <2>4 DEF RunnerTyped
<1>2. Migrations!Tracked = {} BY DEF Migrations!Init, Migrations!Tracked
<1>3. Migrations!MigrationInv
  BY <1>1, <1>2 DEF Migrations!Init, Migrations!MigrationInv, Migrations!TypeOK, Migrations!Truthful, Migrations!NoGaps
<1>4. \A r \in Runner : migration[r].op = "none" BY DEF Migrations!Init, Migrations!Idle
<1>. QED BY <1>1, <1>3, <1>4 DEF Migrations!Init, RunnerIInv, Batched, RollbackAlone, AppliedInOrder

\* A command moves on and touches neither table nor schema.
LEMMA CommandMoves == ASSUME RunnerIInv, NEW r \in Runner, NEW v \in Command, migration' = [migration EXCEPT ![r] = v],
    UNCHANGED <<known, tracking, effect>>, crossed' \in BOOLEAN, crossed => crossed',
    IF v.op = "none" THEN v = Migrations!Idle ELSE v.todo # {}, v.op = "rollback" => v.at = "step",
    RollbackAlone', AppliedInOrder'
  PROVE RunnerIInv'
<1>1. \A s \in Runner : migration'[s] = IF s = r THEN v ELSE migration[s] BY DEF RunnerIInv, RunnerTyped
<1>2. RunnerTyped' BY <1>1 DEF RunnerIInv, RunnerTyped
<1>3. Batched' BY DEF RunnerIInv, Batched
<1>4. Migrations!Tracked' = Migrations!Tracked BY DEF Migrations!Tracked
<1>5. Migrations!TypeOK'
  BY <1>1, <1>4 DEF RunnerIInv, Migrations!MigrationInv, Migrations!TypeOK, Migrations!Idle
<1>6. Migrations!Truthful'
  <2>1. \A m \in Migration : effect[m] \in Int BY DEF RunnerIInv, RunnerTyped
  <2>. QED BY <1>4, <2>1 DEF RunnerIInv, Migrations!MigrationInv, Migrations!Truthful
<1>7. Migrations!NoGaps' BY <1>4 DEF RunnerIInv, Migrations!MigrationInv, Migrations!NoGaps
<1>. QED BY <1>2, <1>3, <1>5, <1>6, <1>7 DEF RunnerIInv, Migrations!MigrationInv

\* Runner r starts the command v of this kind, with the migrations left.
Started(r, kind, left, v) ==
    /\ v \in Command /\ left # {} /\ migration[r].op = "none"
    /\ migration' = [migration EXCEPT ![r] = v]
    /\ \A s \in Runner : migration'[s] = IF s = r THEN v ELSE migration[s]
    /\ UNCHANGED <<known, tracking, effect>> /\ crossed' \in BOOLEAN /\ (crossed => crossed')
    /\ ~crossed' => \A s \in Runner : migration[s].op # "rollback" /\ (kind = "rollback" => migration[s].op = "none")

\* A command starts, from what is tracked then; a migrate reads its batch; a command ends.
LEMMA CommandsStart == ASSUME RunnerIInv, NEW r \in Runner,
    Migrations!Migrate(r) \/ Migrations!NextBatch(r) \/ Migrations!Rollback(r) \/ Migrations!Fails(r)
  PROVE RunnerIInv'
<1>t. RunnerTyped /\ Batched /\ RollbackAlone /\ AppliedInOrder BY DEF RunnerIInv
<1>l. Migrations!LastBatch \in Nat /\ \A x \in tracking : x.batch <= Migrations!LastBatch BY <1>t, LastBatchIsLast
<1>b. Migrations!Idle.op = "none" /\ Migrations!Idle \in Command BY DEF Migrations!Idle, Command
<1>m. ASSUME NEW kind \in {"migrate", "rollback"}, NEW step \in {"batch", "step"}, NEW left \in SUBSET Migration, NEW b \in Nat,
             Migrations!Command(r, kind, step, left, b)
      PROVE Started(r, kind, left, [op |-> kind, at |-> step, todo |-> left, batch |-> b])
  <2> DEFINE v == [op |-> kind, at |-> step, todo |-> left, batch |-> b]
  <2>1. v \in Command BY DEF Command
  <2>2. left # {} /\ migration[r].op = "none" /\ migration' = [migration EXCEPT ![r] = v] /\ UNCHANGED <<known, tracking, effect>>
    BY <1>b, <1>m DEF Migrations!Command
  <2>3. \A s \in Runner : migration'[s] = IF s = r THEN v ELSE migration[s] BY <1>t, <2>2 DEF RunnerTyped
  <2>4. crossed' \in BOOLEAN /\ (crossed => crossed') BY <1>t, <1>m DEF RunnerTyped, Migrations!Command
  <2>5. ~crossed' => \A s \in Runner : migration[s].op # "rollback" /\ (kind = "rollback" => migration[s].op = "none")
    BY <1>m DEF Migrations!Command
  <2> HIDE DEF v
  <2>6. Started(r, kind, left, v) BY <2>1, <2>2, <2>3, <2>4, <2>5 DEF Started
  <2>. QED BY <2>6 DEF v
<1>1. CASE Migrations!Migrate(r)
  <2> DEFINE todo == known[r] \ Migrations!Tracked
             v == [op |-> "migrate", at |-> "batch", todo |-> todo, batch |-> 0]
  <2>0. todo \in SUBSET Migration BY <1>t DEF RunnerTyped
  <2>1. /\ v \in Command /\ v.op = "migrate" /\ v.at = "batch" /\ v.todo = todo /\ todo # {}
        /\ migration' = [migration EXCEPT ![r] = v] /\ \A s \in Runner : migration'[s] = IF s = r THEN v ELSE migration[s]
        /\ UNCHANGED <<known, tracking, effect>> /\ crossed' \in BOOLEAN /\ (crossed => crossed')
        /\ ~crossed' => \A s \in Runner : migration[s].op # "rollback"
    <3>1. Migrations!Command(r, "migrate", "batch", todo, 0) BY <1>1, Zenon DEF Migrations!Migrate
    <3>2. PICK kind \in {"migrate", "rollback"}, step \in {"batch", "step"}, b \in Nat : kind = "migrate" /\ step = "batch" /\ b = 0 OBVIOUS
    <3> HIDE DEF todo
    <3>3. Migrations!Command(r, kind, step, todo, b) BY <3>1, <3>2
    <3> DEFINE w == [op |-> kind, at |-> step, todo |-> todo, batch |-> b]
    <3>4. Started(r, kind, todo, w) BY <1>m, <2>0, <3>3, Zenon
    <3>6. w = v BY <3>2
    <3>7. v.op = "migrate" /\ v.at = "batch" /\ v.todo = todo OBVIOUS
    <3> HIDE DEF v, w
    <3>. QED BY <3>4, <3>6, <3>7 DEF Started
  <2> HIDE DEF v, todo
  <2>2. RollbackAlone' BY <2>1 DEF RollbackAlone
  <2>3. Migrations!Tracked' = Migrations!Tracked BY <2>1 DEF Migrations!Tracked
  <2>4. \A s \in Runner \ {r} : \A m : Migrations!First(s, m)' <=> Migrations!First(s, m) BY <2>1 DEF Migrations!First
  <2>5. (\A s \in Runner : known[s] = Migration) => Migration \ todo \subseteq Migrations!Tracked BY DEF todo
  <2>6. AppliedInOrder' BY <1>t, <2>1, <2>3, <2>4, <2>5 DEF AppliedInOrder
  <2>. QED BY <2>1, <2>2, <2>6, CommandMoves
<1>2. CASE Migrations!NextBatch(r)
  <2> DEFINE v == [migration[r] EXCEPT !.at = "step", !.batch = Migrations!LastBatch + 1]
  <2>0. migration[r] \in Command /\ Migrations!LastBatch + 1 \in Nat BY <1>t, <1>l DEF RunnerTyped
  <2>1. /\ v \in Command /\ v.op = migration[r].op /\ v.at = "step" /\ v.todo = migration[r].todo
        /\ v.batch = Migrations!LastBatch + 1
    BY <2>0 DEF Command
  <2>2. migration[r].at = "batch" /\ migration' = [migration EXCEPT ![r] = v] /\ UNCHANGED <<known, tracking, effect, crossed>>
    BY <1>2, <1>t DEF RunnerTyped, Command, Migrations!NextBatch
  <2>3. migration[r].op = "migrate" /\ migration[r].todo # {} BY <1>t, <2>0, <2>2 DEF RunnerTyped, Command, Migrations!Idle
  <2> HIDE DEF v
  <2>4. \A s \in Runner : migration'[s] = IF s = r THEN v ELSE migration[s] BY <1>t, <2>2 DEF RunnerTyped
  <2>5. Migrations!Tracked' = Migrations!Tracked BY <2>2 DEF Migrations!Tracked
  <2>6. RollbackAlone' BY <1>t, <2>1, <2>2, <2>3, <2>4, <2>5 DEF RollbackAlone
  <2>7. \A s \in Runner : \A m : Migrations!First(s, m)' <=> Migrations!First(s, m) BY <2>1, <2>4 DEF Migrations!First
  <2>8. \A x \in tracking : x.batch <= v.batch BY <1>t, <1>l, <2>1 DEF RunnerTyped
  <2>9. AppliedInOrder' BY <1>t, <2>1, <2>2, <2>3, <2>4, <2>5, <2>7, <2>8 DEF AppliedInOrder
  <2>. QED BY <1>t, <2>1, <2>2, <2>3, <2>6, <2>9, CommandMoves DEF RunnerTyped
<1>3. CASE Migrations!Rollback(r)
  <2> DEFINE v == [op |-> "rollback", at |-> "step", todo |-> Migrations!Undone, batch |-> Migrations!LastBatch]
  <2>0. Migrations!Undone \in SUBSET Migration BY <1>t DEF RunnerTyped, Migrations!Undone
  <2>1. /\ v \in Command /\ v.op = "rollback" /\ v.at = "step" /\ v.todo = Migrations!Undone /\ v.todo # {}
        /\ v.batch = Migrations!LastBatch
        /\ migration' = [migration EXCEPT ![r] = v] /\ \A s \in Runner : migration'[s] = IF s = r THEN v ELSE migration[s]
        /\ UNCHANGED <<known, tracking, effect>> /\ crossed' \in BOOLEAN /\ (crossed => crossed')
        /\ ~crossed' => \A s \in Runner : migration[s].op = "none"
    <3>1. Migrations!Command(r, "rollback", "step", Migrations!Undone, Migrations!LastBatch) BY <1>3, Zenon DEF Migrations!Rollback
    <3>2. Started(r, "rollback", Migrations!Undone, v) BY <1>l, <1>m, <2>0, <3>1, Zenon
    <3>3. v.op = "rollback" /\ v.at = "step" /\ v.todo = Migrations!Undone /\ v.batch = Migrations!LastBatch OBVIOUS
    <3> HIDE DEF v
    <3>. QED BY <3>2, <3>3 DEF Started
  <2> HIDE DEF v
  <2>2. Migrations!Tracked' = Migrations!Tracked BY <2>1 DEF Migrations!Tracked
  <2>3. \A x \in tracking : x.m \in Migrations!Undone <=> x.batch = Migrations!LastBatch
    BY DEF RunnerIInv, Migrations!MigrationInv, Migrations!TypeOK, Migrations!Undone
  <2>4. Migrations!Undone \subseteq Migrations!Tracked BY DEF Migrations!Undone, Migrations!Tracked
  <2>5. RollbackAlone' BY <1>l, <2>1, <2>2, <2>3, <2>4 DEF RollbackAlone
  <2>6. AppliedInOrder' BY <1>t, <2>1 DEF AppliedInOrder
  <2>. QED BY <2>1, <2>5, <2>6, CommandMoves
<1>4. CASE Migrations!Fails(r)
  <2>1. migration' = [migration EXCEPT ![r] = Migrations!Idle] /\ UNCHANGED <<known, tracking, effect, crossed>>
    BY <1>4 DEF Migrations!Fails, Migrations!Stop
  <2>2. \A s \in Runner : migration'[s] = IF s = r THEN Migrations!Idle ELSE migration[s] BY <1>t, <2>1 DEF RunnerTyped
  <2>3. Migrations!Tracked' = Migrations!Tracked BY <2>1 DEF Migrations!Tracked
  <2>4. RollbackAlone' BY <1>t, <1>b, <2>1, <2>2, <2>3 DEF RollbackAlone
  <2>5. \A s \in Runner \ {r} : \A m : Migrations!First(s, m)' <=> Migrations!First(s, m) BY <2>2 DEF Migrations!First
  <2>6. AppliedInOrder' BY <1>t, <1>b, <2>1, <2>2, <2>3, <2>5 DEF AppliedInOrder
  <2>. QED BY <1>t, <1>b, <2>1, <2>4, <2>6, CommandMoves DEF RunnerTyped
<1>. QED BY <1>1, <1>2, <1>3, <1>4

\* What a step of a command leaves to do.
LEMMA StepAdvances == ASSUME RunnerTyped, NEW r \in Runner, NEW m \in migration[r].todo, Migrations!Advance(r, m), migration[r].op # "none"
  PROVE /\ migration' \in [Runner -> Command]
        /\ \A s \in Runner \ {r} : migration'[s] = migration[s]
        /\ \/ migration'[r] = Migrations!Idle /\ migration[r].todo = {m}
           \/ /\ migration'[r].op = migration[r].op /\ migration'[r].at = migration[r].at /\ migration'[r].batch = migration[r].batch
              /\ migration'[r].todo = migration[r].todo \ {m} /\ migration'[r].todo # {}
<1>1. migration[r] \in Command BY DEF RunnerTyped
<1>2. CASE migration[r].todo = {m}
  <2>1. migration' = [migration EXCEPT ![r] = Migrations!Idle] BY <1>2 DEF Migrations!Advance
  <2>2. Migrations!Idle \in Command BY DEF Migrations!Idle, Command
  <2>. QED BY <1>2, <2>1, <2>2 DEF RunnerTyped
<1>3. CASE migration[r].todo # {m}
  <2> DEFINE v == [migration[r] EXCEPT !.todo = migration[r].todo \ {m}]
  <2>1. migration' = [migration EXCEPT ![r] = v] BY <1>3 DEF Migrations!Advance
  <2>2. v \in Command /\ v.op = migration[r].op /\ v.at = migration[r].at /\ v.batch = migration[r].batch /\ v.todo = migration[r].todo \ {m}
    BY <1>1 DEF Command
  <2>3. migration[r].todo \ {m} # {} BY <1>3
  <2> HIDE DEF v
  <2>. QED BY <2>1, <2>2, <2>3 DEF RunnerTyped
<1>. QED BY <1>2, <1>3

\* up() commits with its row, or the command ends.
LEMMA UpKeeps == ASSUME MigrationsAreOrdered, RunnerIInv, NEW r \in Runner, Migrations!Up(r) PROVE RunnerIInv'
<1>t. RunnerTyped /\ Batched /\ RollbackAlone /\ AppliedInOrder /\ Migrations!TypeOK /\ Migrations!Truthful /\ Migrations!NoGaps
  BY DEF RunnerIInv, Migrations!MigrationInv
<1>b. Migrations!Idle.op = "none" /\ Migrations!Idle \in Command BY DEF Migrations!Idle, Command
<1>1. PICK m \in migration[r].todo :
        /\ migration[r].op = "migrate" /\ migration[r].at = "step" /\ Migrations!First(r, m)
        /\ IF m \in Migrations!Tracked THEN Migrations!Stop(r) /\ UNCHANGED <<tracking, effect>>
           ELSE /\ Migrations!Advance(r, m) /\ tracking' = tracking \cup {[m |-> m, batch |-> migration[r].batch]}
                /\ effect' = [effect EXCEPT ![m] = @ + 1]
        /\ UNCHANGED <<known, crossed, runs>>
  BY DEF Migrations!Up
<1>m. m \in Migration /\ m \in Int BY <1>t DEF MigrationsAreOrdered, RunnerTyped, Command
<1>2. CASE m \in Migrations!Tracked
  <2>1. Migrations!Fails(r)
    <3>1. migration[r] # Migrations!Idle BY <1>b, <1>1
    <3>. QED BY <1>1, <1>2, <3>1 DEF Migrations!Fails
  <2>. QED BY <2>1, CommandsStart
<1>3. CASE m \notin Migrations!Tracked
  <2> DEFINE new == [m |-> m, batch |-> migration[r].batch]
  <2>1. /\ tracking' = tracking \cup {new} /\ effect' = [effect EXCEPT ![m] = effect[m] + 1] /\ Migrations!Advance(r, m)
        /\ UNCHANGED <<known, crossed>>
    BY <1>1, <1>3
  <2>2. /\ new \in [m : Migration, batch : Nat] /\ new.m = m /\ new.batch = migration[r].batch
    BY <1>t, <1>m DEF RunnerTyped, Command
  <2> HIDE DEF new
  <2>3. /\ migration' \in [Runner -> Command]
        /\ \A s \in Runner \ {r} : migration'[s] = migration[s]
        /\ \/ migration'[r] = Migrations!Idle /\ migration[r].todo = {m}
           \/ /\ migration'[r].op = "migrate" /\ migration'[r].at = migration[r].at /\ migration'[r].batch = migration[r].batch
              /\ migration'[r].todo = migration[r].todo \ {m} /\ migration'[r].todo # {}
    BY <1>t, <1>1, <2>1, StepAdvances
  <2>4. Migrations!Tracked' = Migrations!Tracked \cup {m} BY <2>1, <2>2 DEF Migrations!Tracked
  <2>5. RunnerTyped'
    BY <1>t, <1>b, <1>m, <1>1, <2>1, <2>2, <2>3 DEF RunnerTyped
  <2>6. Batched'
    <3> SUFFICES ASSUME NEW S \in SUBSET tracking', S # {} PROVE \E x \in S : \A y \in S : y.batch <= x.batch BY DEF Batched
    <3>1. \A x \in S : x.batch \in Nat BY <2>5 DEF RunnerTyped
    <3>2. CASE new \notin S BY <1>t, <2>1, <3>2 DEF Batched
    <3>3. CASE S = {new} BY <3>1, <3>3
    <3>4. CASE new \in S /\ S # {new}
      <4>1. S \ {new} \in SUBSET tracking /\ S \ {new} # {} BY <2>1, <3>4
      <4>2. PICK x \in S \ {new} : \A y \in S \ {new} : y.batch <= x.batch BY <1>t, <4>1 DEF Batched
      <4>3. CASE new.batch <= x.batch BY <4>2, <4>3
      <4>4. CASE ~(new.batch <= x.batch) BY <3>1, <3>4, <4>2, <4>4
      <4>. QED BY <4>3, <4>4
    <3>. QED BY <3>2, <3>3, <3>4
  <2>7. RollbackAlone' BY <1>t, <1>1, <1>b, <2>1, <2>3 DEF RollbackAlone
  <2>8. Migrations!TypeOK'
    <3>1. \A x \in tracking : x.m # m BY <1>3 DEF Migrations!Tracked
    <3>2. \A s \in Runner : migration'[s] = Migrations!Idle \/ migration'[s].todo # {} BY <2>3, <1>t DEF Migrations!TypeOK
    <3>. QED BY <1>t, <1>m, <2>1, <2>2, <2>4, <3>1, <3>2 DEF Migrations!TypeOK
  <2>9. Migrations!Truthful'
    <3>1. \A k \in Migration : effect[k] \in Int /\ effect'[k] = IF k = m THEN effect[m] + 1 ELSE effect[k]
      BY <1>t, <2>1 DEF RunnerTyped
    <3>. QED BY <1>t, <1>3, <2>1, <2>4, <3>1 DEF Migrations!Truthful
  <2>10. ASSUME ~crossed, \A s \in Runner : known[s] = Migration
         PROVE /\ \A k \in Migration : k \notin Migrations!Tracked => m <= k
               /\ \A k \in Migrations!Tracked : k < m
               /\ \A x \in tracking : x.batch <= migration[r].batch
    <3>1. Migration \ migration[r].todo \subseteq Migrations!Tracked BY <1>t, <1>1, <2>10 DEF AppliedInOrder
    <3>2. \A k \in Migration : k \notin Migrations!Tracked => m <= k BY <1>1, <3>1 DEF Migrations!First
    <3>3. \A k \in Migrations!Tracked : k \in Int /\ k # m /\ ~(m < k)
      BY <1>t, <1>m, <1>3, <2>10 DEF Migrations!NoGaps, Migrations!TypeOK, MigrationsAreOrdered
    <3>4. \A x \in tracking : x.batch <= migration[r].batch BY <1>t, <1>m, <1>1, <1>3, <2>10 DEF AppliedInOrder
    <3>. QED BY <1>m, <3>2, <3>3, <3>4
  <2>11. AppliedInOrder'
    <3> SUFFICES ASSUME ~crossed, \A s \in Runner : known[s] = Migration PROVE
            /\ \A x, y \in tracking' : x.m < y.m => x.batch <= y.batch
            /\ \A s \in Runner : migration'[s].op = "migrate" =>
                 /\ Migration \ migration'[s].todo \subseteq Migrations!Tracked'
                 /\ \A k \in Migration : migration'[s].at = "step" /\ Migrations!First(s, k)' /\ k \notin Migrations!Tracked'
                      => \A x \in tracking' : x.batch <= migration'[s].batch
      BY <2>1 DEF AppliedInOrder
    <3>1. /\ \A k \in Migration : k \notin Migrations!Tracked => m <= k
          /\ \A k \in Migrations!Tracked : k < m
          /\ \A x \in tracking : x.batch <= migration[r].batch
      BY <2>10
    <3>2. \A x, y \in tracking' : x.m < y.m => x.batch <= y.batch
      <4>1. \A x \in tracking : x.m < m /\ x.batch <= new.batch BY <2>2, <3>1 DEF Migrations!Tracked
      <4>2. \A x, y \in tracking : x.m < y.m => x.batch <= y.batch BY <1>t DEF AppliedInOrder
      <4>3. \A x \in tracking : x.m \in Int BY <1>t DEF RunnerTyped, MigrationsAreOrdered
      <4>. QED BY <1>m, <2>1, <2>2, <4>1, <4>2, <4>3
    <3>3. ASSUME NEW s \in Runner, migration'[s].op = "migrate" PROVE
                 /\ Migration \ migration'[s].todo \subseteq Migrations!Tracked'
                 /\ \A k \in Migration : migration'[s].at = "step" /\ Migrations!First(s, k)' /\ k \notin Migrations!Tracked'
                      => \A x \in tracking' : x.batch <= migration'[s].batch
      <4>1. CASE s = r
        <5>1. /\ migration'[s].batch = migration[r].batch /\ migration'[s].todo = migration[r].todo \ {m}
          BY <1>b, <2>3, <3>3, <4>1
        <5>2. Migration \ migration[r].todo \subseteq Migrations!Tracked BY <1>t, <1>1 DEF AppliedInOrder
        <5>3. \A x \in tracking' : x.batch <= migration[r].batch
          <6>1. migration[r].batch \in Nat BY <1>t DEF RunnerTyped, Command
          <6>. QED BY <2>1, <2>2, <3>1, <6>1
        <5>. QED BY <2>4, <4>1, <5>1, <5>2, <5>3
      <4>2. CASE s # r
        <5>1. migration'[s] = migration[s] BY <2>3, <4>2
        <5>2. Migration \ migration[s].todo \subseteq Migrations!Tracked BY <1>t, <3>3, <5>1 DEF AppliedInOrder
        <5>3. m \in migration[s].todo BY <1>3, <1>m, <5>2
        <5>4. ASSUME NEW k \in Migration, Migrations!First(s, k)', k \notin Migrations!Tracked' PROVE FALSE
          <6>1. k <= m BY <5>1, <5>3, <5>4 DEF Migrations!First
          <6>2. k \notin Migrations!Tracked /\ k # m BY <2>4, <5>4
          <6>3. m <= k /\ k \in Int BY <3>1, <6>2 DEF MigrationsAreOrdered
          <6>. QED BY <1>m, <6>1, <6>2, <6>3
        <5>. QED BY <2>4, <5>1, <5>2, <5>4
      <4>. QED BY <4>1, <4>2
    <3>. QED BY <3>2, <3>3
  <2>12. Migrations!NoGaps'
    <3> SUFFICES ASSUME ~crossed, \A s \in Runner : known[s] = Migration,
                        NEW n \in Migrations!Tracked', NEW k \in Migration, k < n
                 PROVE k \in Migrations!Tracked'
      BY <2>1 DEF Migrations!NoGaps
    <3>1. CASE n \in Migrations!Tracked BY <1>t, <2>4, <3>1 DEF Migrations!NoGaps
    <3>2. CASE n = m
      <4>1. ~(m <= k) BY <1>m, <3>2 DEF MigrationsAreOrdered
      <4>. QED BY <2>4, <2>10, <4>1
    <3>. QED BY <2>4, <3>1, <3>2
  <2>. QED BY <2>5, <2>6, <2>7, <2>8, <2>9, <2>11, <2>12 DEF RunnerIInv, Migrations!MigrationInv
<1>. QED BY <1>2, <1>3

\* down() commits with the DELETE, or the command ends.
LEMMA DownKeeps == ASSUME MigrationsAreOrdered, RunnerIInv, NEW r \in Runner, Migrations!Down(r) PROVE RunnerIInv'
<1>t. RunnerTyped /\ Batched /\ RollbackAlone /\ AppliedInOrder /\ Migrations!TypeOK /\ Migrations!Truthful /\ Migrations!NoGaps
  BY DEF RunnerIInv, Migrations!MigrationInv
<1>b. Migrations!Idle.op = "none" /\ Migrations!Idle \in Command BY DEF Migrations!Idle, Command
<1> DEFINE Noticed(m) == m \notin known[r] \/ (m \notin Migrations!Tracked /\ m \notin Tolerant)
<1>1. PICK m \in migration[r].todo :
        /\ migration[r].op = "rollback" /\ Migrations!Latest(r, m)
        /\ IF Noticed(m) THEN Migrations!Stop(r) /\ UNCHANGED <<tracking, effect>>
           ELSE /\ Migrations!Advance(r, m) /\ tracking' = {x \in tracking : x.m # m}
                /\ effect' = [effect EXCEPT ![m] = @ - 1]
        /\ UNCHANGED <<known, crossed, runs>>
  BY DEF Migrations!Down
<1>m. m \in Migration /\ m \in Int BY <1>t DEF MigrationsAreOrdered, RunnerTyped, Command
<1>2. CASE Noticed(m)
  <2>1. Migrations!Fails(r)
    <3>1. migration[r] # Migrations!Idle BY <1>b, <1>1
    <3>. QED BY <1>1, <1>2, <3>1 DEF Migrations!Fails
  <2>. QED BY <2>1, CommandsStart
<1>3. CASE ~Noticed(m)
  <2>1. /\ tracking' = {x \in tracking : x.m # m} /\ effect' = [effect EXCEPT ![m] = effect[m] - 1] /\ Migrations!Advance(r, m)
        /\ UNCHANGED <<known, crossed>>
    BY <1>1, <1>3
  <2>2. m \in Migrations!Tracked \/ m \in Tolerant BY <1>3
  <2>3. /\ migration' \in [Runner -> Command]
        /\ \A s \in Runner \ {r} : migration'[s] = migration[s]
        /\ \/ migration'[r] = Migrations!Idle /\ migration[r].todo = {m}
           \/ /\ migration'[r].op = "rollback" /\ migration'[r].at = migration[r].at /\ migration'[r].batch = migration[r].batch
              /\ migration'[r].todo = migration[r].todo \ {m} /\ migration'[r].todo # {}
    BY <1>t, <1>1, <2>1, StepAdvances
  <2>4. Migrations!Tracked' = Migrations!Tracked \ {m} BY <2>1 DEF Migrations!Tracked
  <2>5. RunnerTyped' BY <1>t, <1>b, <1>m, <1>1, <2>1, <2>3 DEF RunnerTyped
  <2>6. Batched' BY <1>t, <2>1 DEF Batched
  <2>7. RollbackAlone'
    <3> SUFFICES ASSUME ~crossed, NEW s \in Runner, migration'[s].op = "rollback" PROVE
          /\ \A q \in Runner \ {s} : migration'[q].op = "none"
          /\ \A x \in tracking' : x.batch <= migration'[s].batch /\ (x.m \in migration'[s].todo <=> x.batch = migration'[s].batch)
          /\ migration'[s].todo \subseteq Migrations!Tracked'
      BY <2>1 DEF RollbackAlone
    <3>1. /\ \A q \in Runner \ {r} : migration[q].op = "none"
          /\ \A x \in tracking : x.batch <= migration[r].batch /\ (x.m \in migration[r].todo <=> x.batch = migration[r].batch)
          /\ migration[r].todo \subseteq Migrations!Tracked
      BY <1>t, <1>1 DEF RollbackAlone
    <3>2. s = r BY <2>3, <3>1
    <3>3. migration'[r].batch = migration[r].batch /\ migration'[r].todo = migration[r].todo \ {m} BY <1>b, <2>3, <3>2
    <3>. QED BY <2>1, <2>3, <2>4, <3>1, <3>2, <3>3
  <2>8. Migrations!TypeOK'
    <3>1. \A s \in Runner : migration'[s] = Migrations!Idle \/ migration'[s].todo # {} BY <2>3, <1>t DEF Migrations!TypeOK
    <3>. QED BY <1>t, <2>1, <2>4, <3>1 DEF Migrations!TypeOK
  <2>9. Migrations!Truthful'
    <3>1. \A k \in Migration : effect[k] \in Int /\ effect'[k] = IF k = m THEN effect[m] - 1 ELSE effect[k]
      BY <1>t, <2>1 DEF RunnerTyped
    <3>2. m \in Migrations!Tracked \/ (m \in Tolerant /\ crossed) BY <1>t, <1>1, <2>2 DEF RollbackAlone
    <3>. QED BY <1>t, <2>1, <2>4, <3>1, <3>2 DEF Migrations!Truthful
  <2>10. ASSUME ~crossed, \A s \in Runner : known[s] = Migration, NEW k \in Migrations!Tracked PROVE k <= m
    <3>1. PICK x \in tracking : x.m = k BY DEF Migrations!Tracked
    <3>2. m \in Migrations!Tracked BY <1>t, <1>1, <2>10 DEF RollbackAlone
    <3>3. PICK y \in tracking : y.m = m BY <3>2 DEF Migrations!Tracked
    <3>4. y.batch = migration[r].batch /\ x.batch <= migration[r].batch /\ (x.batch = migration[r].batch => k \in migration[r].todo)
      BY <1>t, <1>1, <2>10, <3>1, <3>3 DEF RollbackAlone
    <3>5. m < k => y.batch <= x.batch BY <1>t, <2>10, <3>1, <3>3 DEF AppliedInOrder
    <3>6. x.batch \in Nat /\ y.batch \in Nat /\ k \in Int BY <1>t, <3>1 DEF RunnerTyped, MigrationsAreOrdered
    <3>7. k \in migration[r].todo => k <= m BY <1>1 DEF Migrations!Latest
    <3>. QED BY <1>m, <3>4, <3>5, <3>6, <3>7
  <2>11. AppliedInOrder'
    <3>1. ~crossed => \A s \in Runner : migration'[s].op # "migrate" BY <1>t, <1>1, <1>b, <2>3 DEF RollbackAlone
    <3>. QED BY <1>t, <2>1, <3>1 DEF AppliedInOrder
  <2>12. Migrations!NoGaps'
    <3> SUFFICES ASSUME ~crossed, \A s \in Runner : known[s] = Migration,
                        NEW n \in Migrations!Tracked', NEW k \in Migration, k < n
                 PROVE k \in Migrations!Tracked'
      BY <2>1 DEF Migrations!NoGaps
    <3>1. n \in Migrations!Tracked BY <2>4
    <3>2. k \in Migrations!Tracked BY <1>t, <3>1 DEF Migrations!NoGaps
    <3>3. n <= m /\ n \in Int /\ k \in Int BY <1>t, <2>10, <3>1 DEF Migrations!TypeOK, MigrationsAreOrdered
    <3>4. k # m BY <1>m, <3>3
    <3>. QED BY <2>4, <3>2, <3>4
  <2>. QED BY <2>5, <2>6, <2>7, <2>8, <2>9, <2>11, <2>12 DEF RunnerIInv, Migrations!MigrationInv
<1>. QED BY <1>2, <1>3

\* Each step of a command keeps the invariant.
LEMMA RunnerKept == ASSUME MigrationsAreOrdered, RunnerIInv, [Migrations!Next]_runnerVars PROVE RunnerIInv'
<1>1. CASE Migrations!Next
  <2>1. PICK r \in Runner : Migrations!Migrate(r) \/ Migrations!NextBatch(r) \/ Migrations!Rollback(r) \/ Migrations!Up(r)
                             \/ Migrations!Down(r) \/ Migrations!Fails(r)
    BY <1>1 DEF Migrations!Next
  <2>. QED BY <2>1, CommandsStart, UpKeeps, DownKeeps
<1>2. CASE UNCHANGED runnerVars
  <2>1. UNCHANGED <<known, tracking, effect, migration, crossed>> BY <1>2 DEF runnerVars
  <2>2. Migrations!Tracked' = Migrations!Tracked BY <2>1 DEF Migrations!Tracked
  <2>3. \A r, m : Migrations!First(r, m)' <=> Migrations!First(r, m) BY <2>1 DEF Migrations!First
  <2>. QED BY <2>1, <2>2, <2>3 DEF RunnerIInv, RunnerTyped, Batched, RollbackAlone, AppliedInOrder,
                    Migrations!MigrationInv, Migrations!TypeOK, Migrations!Truthful, Migrations!NoGaps
<1>. QED BY <1>1, <1>2

\* MigrationRunner: the tracking table tells what was applied, and what one version of the code
\* applied is a beginning of its list, wherever runners met and whatever step failed.
THEOREM TrackingTellsTheSchema ==
  ASSUME MigrationsAreOrdered
  PROVE  Migrations!Init /\ [][Migrations!Next]_runnerVars => []Migrations!MigrationInv
<1>1. Migrations!Init => RunnerIInv BY RunnerStarts
<1>2. RunnerIInv /\ [Migrations!Next]_runnerVars => RunnerIInv' BY RunnerKept
<1>3. RunnerIInv => Migrations!MigrationInv BY DEF RunnerIInv
<1>. QED BY <1>1, <1>2, <1>3, PTL

(***************************************************************************)
(* MCP sessions.                                                           *)
(***************************************************************************)
McpBounded == MaxClients \in Nat /\ None \notin Nat

McpAwaits == {"listing", "calling", "list-sent", "call-sent"}
McpSession == [pc : McpAwaits \cup {"idle", "resolving", "ready", "ended", "thrown"}, next : Nat,
               mine : SUBSET Mcp!Client, using : Mcp!Client \cup {None}]
McpTyped ==
    /\ pooled \in BOOLEAN /\ pool \in [DOMAIN Servers -> Mcp!Client \cup {None}] /\ made \in 0..MaxClients
    /\ conn \in [Mcp!Client -> [live : BOOLEAN, flag : BOOLEAN, connecting : BOOLEAN]]
    /\ shakes \in [Mcp!Client -> Nat] /\ run \in [AgentRun -> McpSession] /\ excused \subseteq Mcp!Client
    /\ \A r \in AgentRun : run[r].pc \in McpAwaits => run[r].using \in run[r].mine
    /\ ~pooled => \A r \in AgentRun : run[r].mine \subseteq 1..made

\* A client is connected or connecting, never both, and connects once.
Handshakes ==
    \A c \in Mcp!Client :
        /\ (conn[c].live <=> conn[c].flag) /\ (conn[c].connecting => ~conn[c].flag)
        /\ shakes[c] = IF conn[c].connecting THEN 1 ELSE 0

\* A transport that is up, or will be.
Alive(c) == conn[c].live \/ conn[c].connecting

\* With a pool what is alive is in it; without one it is its run's alone, which goes on,
\* and awaits what is connecting.
OwnedByPool == pooled => \A c \in Mcp!Client : Alive(c) => Mcp!Pooled(c) \/ c \in excused
OwnedByRun ==
    ~pooled =>
        /\ \A s \in DOMAIN Servers : pool[s] = None
        /\ \A r, q \in AgentRun : r # q => run[r].mine \cap run[q].mine = {}
        /\ \A c \in Mcp!Client : conn[c].connecting =>
             \E r \in AgentRun : run[r].pc \in {"listing", "calling"} /\ run[r].using = c
        /\ \A c \in Mcp!Client : Alive(c) =>
             c \in excused \/ \E r \in AgentRun : c \in run[r].mine /\ run[r].pc \notin {"ended", "thrown"}
McpIInv == McpTyped /\ Handshakes /\ OwnedByPool /\ OwnedByRun

\* No client is made at first.
LEMMA McpStarts == ASSUME McpBounded, Mcp!Init PROVE McpIInv
<1>1. McpTyped
  <2>1. \A c \in Mcp!Client : conn[c] \in [live : BOOLEAN, flag : BOOLEAN, connecting : BOOLEAN] BY DEF Mcp!Init, Mcp!Fresh
  <2>2. run \in [AgentRun -> McpSession] BY DEF Mcp!Init, McpSession
  <2>3. conn \in [Mcp!Client -> [live : BOOLEAN, flag : BOOLEAN, connecting : BOOLEAN]] BY <2>1 DEF Mcp!Init
  <2>4. \A r \in AgentRun : run[r].pc = "idle" /\ run[r].mine = {} BY DEF Mcp!Init
  <2>5. pooled \in BOOLEAN /\ pool \in [DOMAIN Servers -> Mcp!Client \cup {None}] /\ made \in 0..MaxClients
    BY DEF McpBounded, Mcp!Init
  <2>6. shakes \in [Mcp!Client -> Nat] /\ excused = {} BY DEF Mcp!Init
  <2>. QED BY <2>2, <2>3, <2>4, <2>5, <2>6 DEF McpTyped, McpAwaits
<1>2. Handshakes BY DEF Mcp!Init, Mcp!Fresh, Handshakes
<1>3. OwnedByPool /\ OwnedByRun BY DEF Mcp!Init, Mcp!Fresh, OwnedByPool, OwnedByRun, Alive
<1>. QED BY <1>1, <1>2, <1>3 DEF McpIInv

\* A run moves to another of its states and holds no fewer clients; the clients stay.
LEMMA RunMoves == ASSUME McpIInv, NEW r \in AgentRun, NEW v \in McpSession, run' = [run EXCEPT ![r] = v],
    UNCHANGED <<pooled, pool, made, conn, shakes>>, excused \subseteq excused', excused' \subseteq Mcp!Client,
    v.mine = run[r].mine, v.pc \in McpAwaits => v.using \in v.mine,
    run[r].pc \in {"listing", "calling"} /\ conn[run[r].using].connecting => v.pc = run[r].pc /\ v.using = run[r].using,
    ~pooled /\ v.pc \in {"ended", "thrown"} => run[r].pc \in {"ended", "thrown"} \/ v.mine \subseteq excused'
  PROVE McpIInv'
<1>1. \A q \in AgentRun : run'[q] = IF q = r THEN v ELSE run[q] BY DEF McpIInv, McpTyped
<1>2. McpTyped' BY <1>1 DEF McpIInv, McpTyped
<1>3. Handshakes' BY DEF McpIInv, Handshakes
<1>4. OwnedByPool' BY DEF McpIInv, OwnedByPool, Alive, Mcp!Pooled
<1>5. OwnedByRun'
  <2> SUFFICES ASSUME ~pooled PROVE
        /\ \A q, p \in AgentRun : q # p => run'[q].mine \cap run'[p].mine = {}
        /\ \A c \in Mcp!Client : conn[c].connecting => \E q \in AgentRun : run'[q].pc \in {"listing", "calling"} /\ run'[q].using = c
        /\ \A c \in Mcp!Client : Alive(c) =>
             c \in excused' \/ \E q \in AgentRun : c \in run'[q].mine /\ run'[q].pc \notin {"ended", "thrown"}
    BY DEF McpIInv, OwnedByRun, Alive
  <2>1. \A q, p \in AgentRun : q # p => run'[q].mine \cap run'[p].mine = {} BY <1>1 DEF McpIInv, OwnedByRun
  <2>2. ASSUME NEW c \in Mcp!Client, conn[c].connecting
        PROVE \E q \in AgentRun : run'[q].pc \in {"listing", "calling"} /\ run'[q].using = c
    <3>1. PICK q \in AgentRun : run[q].pc \in {"listing", "calling"} /\ run[q].using = c BY <2>2 DEF McpIInv, OwnedByRun
    <3>. QED BY <1>1, <2>2, <3>1
  <2>3. ASSUME NEW c \in Mcp!Client, Alive(c)
        PROVE c \in excused' \/ \E q \in AgentRun : c \in run'[q].mine /\ run'[q].pc \notin {"ended", "thrown"}
    <3>1. c \in excused \/ \E q \in AgentRun : c \in run[q].mine /\ run[q].pc \notin {"ended", "thrown"}
      BY <2>3 DEF McpIInv, OwnedByRun
    <3>. QED BY <1>1, <3>1
  <2>. QED BY <2>1, <2>2, <2>3
<1>. QED BY <1>2, <1>3, <1>4, <1>5 DEF McpIInv

\* A client is borrowed: the pool's, or one that is new.
LEMMA BorrowKeeps == ASSUME McpBounded, McpIInv, NEW r \in AgentRun, Mcp!Borrow(r) PROVE McpIInv'
<1> DEFINE s == run[r].next
           old == pooled /\ pool[s] # None
           c == IF old THEN pool[s] ELSE made + 1
           v == [run[r] EXCEPT !.pc = "listing", !.mine = run[r].mine \cup {c}, !.using = c]
<1>0. /\ run[r].pc \in {"idle", "resolving"} /\ s \in DOMAIN Servers /\ (old \/ made < MaxClients)
      /\ made' = (IF old THEN made ELSE made + 1) /\ pool' = (IF pooled THEN [pool EXCEPT ![s] = c] ELSE pool)
      /\ run' = [run EXCEPT ![r] = v] /\ UNCHANGED <<pooled, conn, shakes, excused>>
  BY DEF Mcp!Borrow
<1>t. McpTyped /\ Handshakes /\ OwnedByPool /\ OwnedByRun BY DEF McpIInv
<1>1. c \in Mcp!Client /\ made' \in 0..MaxClients /\ made' >= made
  BY <1>0, <1>t DEF McpTyped, McpBounded, Mcp!Client
<1>2. run[r] \in McpSession BY <1>t DEF McpTyped
<1> HIDE DEF c
<1>3. v \in McpSession /\ v.pc = "listing" /\ v.using = c /\ v.mine = run[r].mine \cup {c} BY <1>1, <1>2 DEF McpSession, McpAwaits
<1> HIDE DEF v
<1>4. \A q \in AgentRun : run'[q] = IF q = r THEN v ELSE run[q] BY <1>0, <1>t DEF McpTyped
<1>5. McpTyped'
  <2>1. pool' \in [DOMAIN Servers -> Mcp!Client \cup {None}] BY <1>0, <1>1, <1>t DEF McpTyped
  <2>2. run' \in [AgentRun -> McpSession] BY <1>0, <1>3, <1>t DEF McpTyped
  <2>3. ~pooled => \A q \in AgentRun : run'[q].mine \subseteq 1..made' BY <1>0, <1>1, <1>3, <1>4, <1>t DEF McpTyped, c
  <2>. QED BY <1>0, <1>1, <1>3, <1>4, <1>t, <2>1, <2>2, <2>3 DEF McpTyped
<1>6. Handshakes' BY <1>0, <1>t DEF Handshakes
<1>7. OwnedByPool'
  <2>1. ASSUME pooled, NEW d \in Mcp!Client, Mcp!Pooled(d) PROVE Mcp!Pooled(d)'
    <3>1. PICK z \in DOMAIN Servers : pool[z] = d BY <2>1 DEF Mcp!Pooled
    <3>2. pool'[z] = d
      <4>1. d # None BY McpBounded DEF McpBounded, Mcp!Client
      <4>. QED BY <1>0, <1>t, <2>1, <3>1, <4>1 DEF McpTyped, c
    <3>. QED BY <3>2 DEF Mcp!Pooled
  <2>. QED BY <1>0, <1>t, <2>1 DEF OwnedByPool, Alive
<1>8. OwnedByRun'
  <2> SUFFICES ASSUME ~pooled PROVE
        /\ \A z \in DOMAIN Servers : pool'[z] = None
        /\ \A q, p \in AgentRun : q # p => run'[q].mine \cap run'[p].mine = {}
        /\ \A d \in Mcp!Client : conn[d].connecting => \E q \in AgentRun : run'[q].pc \in {"listing", "calling"} /\ run'[q].using = d
        /\ \A d \in Mcp!Client : Alive(d) =>
             d \in excused \/ \E q \in AgentRun : d \in run'[q].mine /\ run'[q].pc \notin {"ended", "thrown"}
    BY <1>0 DEF OwnedByRun, Alive
  <2>1. c = made + 1 /\ \A q \in AgentRun : c \notin run[q].mine BY <1>t DEF McpTyped, c
  <2>2. \A z \in DOMAIN Servers : pool'[z] = None BY <1>0, <1>t DEF OwnedByRun
  <2>3. \A q, p \in AgentRun : q # p => run'[q].mine \cap run'[p].mine = {} BY <1>3, <1>4, <1>t, <2>1 DEF OwnedByRun
  <2>4. ASSUME NEW d \in Mcp!Client, conn[d].connecting
        PROVE \E q \in AgentRun : run'[q].pc \in {"listing", "calling"} /\ run'[q].using = d
    <3>1. PICK q \in AgentRun : run[q].pc \in {"listing", "calling"} /\ run[q].using = d BY <1>t, <2>4 DEF OwnedByRun
    <3>. QED BY <1>0, <1>4, <3>1
  <2>5. ASSUME NEW d \in Mcp!Client, Alive(d)
        PROVE d \in excused \/ \E q \in AgentRun : d \in run'[q].mine /\ run'[q].pc \notin {"ended", "thrown"}
    <3>1. d \in excused \/ \E q \in AgentRun : d \in run[q].mine /\ run[q].pc \notin {"ended", "thrown"} BY <1>t, <2>5 DEF OwnedByRun
    <3>. QED BY <1>3, <1>4, <3>1
  <2>. QED BY <2>2, <2>3, <2>4, <2>5
<1>. QED BY <1>5, <1>6, <1>7, <1>8 DEF McpIInv

\* A request goes out, is answered, or a tool is called.
LEMMA RunSteps == ASSUME McpBounded, McpIInv, NEW r \in AgentRun,
    Mcp!Request(r) \/ Mcp!Listed(r) \/ Mcp!Call(r) \/ Mcp!Called(r)
  PROVE McpIInv'
<1>t. McpTyped /\ Handshakes BY DEF McpIInv
<1>r. run[r] \in McpSession /\ run[r].mine \subseteq Mcp!Client BY <1>t DEF McpTyped, McpSession
<1>1. CASE Mcp!Request(r)
  <2> DEFINE v == [run[r] EXCEPT !.pc = IF run[r].pc = "listing" THEN "list-sent" ELSE "call-sent"]
  <2>1. /\ run[r].pc \in {"listing", "calling"} /\ conn[run[r].using].flag
        /\ run' = [run EXCEPT ![r] = v] /\ UNCHANGED <<pooled, pool, made, conn, shakes, excused>>
    BY <1>1, <1>t DEF McpTyped, McpSession, Mcp!Request
  <2>2. v \in McpSession /\ v.pc \in {"list-sent", "call-sent"} /\ v.mine = run[r].mine /\ v.using = run[r].using
    BY <1>r DEF McpSession, McpAwaits
  <2>3. run[r].using \in run[r].mine BY <1>t, <2>1 DEF McpTyped, McpAwaits
  <2>4. ~conn[run[r].using].connecting BY <1>r, <1>t, <2>1, <2>3 DEF Handshakes
  <2> HIDE DEF v
  <2>. QED BY <1>t, <2>1, <2>2, <2>3, <2>4, RunMoves DEF McpTyped
<1>2. CASE Mcp!Listed(r)
  <2> DEFINE last == IF run[r].next = Len(Servers) THEN "ready" ELSE "resolving"
             v == [run[r] EXCEPT !.next = run[r].next + 1, !.using = None, !.pc = last]
             w == [run[r] EXCEPT !.pc = "thrown", !.using = None]
  <2>1. /\ run[r].pc = "list-sent" /\ UNCHANGED <<pooled, pool, made, conn, shakes>>
        /\ \/ run' = [run EXCEPT ![r] = v] /\ excused' = excused
           \/ run' = [run EXCEPT ![r] = w] /\ excused' = IF pooled THEN excused ELSE excused \cup run[r].mine
    BY <1>2 DEF Mcp!Listed
  <2>2. v \in McpSession /\ v.pc \in {"ready", "resolving"} /\ v.mine = run[r].mine
    <3>1. last \in {"ready", "resolving"} OBVIOUS
    <3>2. run[r].next + 1 \in Nat BY <1>r DEF McpSession
    <3> HIDE DEF last
    <3>3. v.pc = last /\ v.mine = run[r].mine /\ v.next = run[r].next + 1 /\ v.using = None BY <1>r DEF McpSession
    <3>. QED BY <1>r, <3>1, <3>2, <3>3 DEF McpSession
  <2>3. w \in McpSession /\ w.pc = "thrown" /\ w.mine = run[r].mine BY <1>r DEF McpSession
  <2> HIDE DEF v, w
  <2>4. CASE run' = [run EXCEPT ![r] = v] /\ excused' = excused
    BY <1>t, <2>1, <2>2, <2>4, RunMoves DEF McpTyped, McpAwaits
  <2>5. CASE run' = [run EXCEPT ![r] = w] /\ excused' = IF pooled THEN excused ELSE excused \cup run[r].mine
    <3>1. excused \subseteq excused' /\ excused' \subseteq Mcp!Client /\ (~pooled => w.mine \subseteq excused')
      BY <1>r, <1>t, <2>3, <2>5 DEF McpTyped
    <3>. QED BY <2>1, <2>3, <2>5, <3>1, RunMoves DEF McpAwaits
  <2>. QED BY <2>1, <2>4, <2>5
<1>3. CASE Mcp!Call(r)
  <2>1. PICK c \in run[r].mine : run' = [run EXCEPT ![r] = [run[r] EXCEPT !.pc = "calling", !.using = c]]
    BY <1>3 DEF Mcp!Call
  <2> DEFINE v == [run[r] EXCEPT !.pc = "calling", !.using = c]
  <2>2. v \in McpSession /\ v.pc = "calling" /\ v.mine = run[r].mine /\ v.using = c BY <1>r DEF McpSession, McpAwaits
  <2>3. run' = [run EXCEPT ![r] = v] BY <2>1
  <2> HIDE DEF v
  <2>. QED BY <1>3, <1>t, <2>2, <2>3, RunMoves DEF McpTyped, Mcp!Call
<1>4. CASE Mcp!Called(r)
  <2> DEFINE v == [run[r] EXCEPT !.pc = "ready", !.using = None]
  <2>1. run' = [run EXCEPT ![r] = v] BY <1>4 DEF Mcp!Called
  <2>2. v \in McpSession /\ v.pc = "ready" /\ v.mine = run[r].mine BY <1>r DEF McpSession
  <2> HIDE DEF v
  <2>. QED BY <1>4, <1>t, <2>1, <2>2, RunMoves DEF McpTyped, McpAwaits, Mcp!Called
<1>. QED BY <1>1, <1>2, <1>3, <1>4

\* A client connects, or its handshake settles.
LEMMA ClientSteps == ASSUME McpBounded, McpIInv, (\E r \in AgentRun : Mcp!Open(r)) \/ (\E c \in Mcp!Client : Mcp!Shaken(c))
  PROVE McpIInv'
<1>t. McpTyped /\ Handshakes /\ OwnedByPool /\ OwnedByRun BY DEF McpIInv
<1>1. ASSUME NEW r \in AgentRun, Mcp!Open(r) PROVE McpIInv'
  <2> DEFINE c == run[r].using
  <2>0. c \in run[r].mine /\ c \in Mcp!Client /\ run[r].pc \in {"listing", "calling"}
    BY <1>1, <1>t DEF McpTyped, McpSession, McpAwaits, Mcp!Open
  <2>1. /\ ~conn[c].flag /\ ~conn[c].connecting
        /\ conn' = [conn EXCEPT ![c].connecting = TRUE] /\ shakes' = [shakes EXCEPT ![c] = shakes[c] + 1]
        /\ excused' = (IF pooled /\ ~Mcp!Pooled(c) THEN excused \cup {c} ELSE excused)
        /\ UNCHANGED <<pooled, pool, made, run>>
    BY <1>1 DEF Mcp!Open, Mcp!Connect
  <2> HIDE DEF c
  <2>2. /\ \A d \in Mcp!Client : conn'[d].live = conn[d].live /\ conn'[d].flag = conn[d].flag
                                   /\ conn'[d].connecting = IF d = c THEN TRUE ELSE conn[d].connecting
        /\ conn' \in [Mcp!Client -> [live : BOOLEAN, flag : BOOLEAN, connecting : BOOLEAN]]
    BY <1>t, <2>1 DEF McpTyped
  <2>3. McpTyped' BY <1>t, <2>0, <2>1, <2>2 DEF McpTyped
  <2>4. Handshakes' BY <1>t, <2>0, <2>1, <2>2 DEF McpTyped, Handshakes
  <2>5. \A d : Mcp!Pooled(d)' <=> Mcp!Pooled(d) BY <2>1 DEF Mcp!Pooled
  <2>6. OwnedByPool' BY <1>t, <2>1, <2>2, <2>5 DEF OwnedByPool, Alive
  <2>7. OwnedByRun' BY <1>t, <2>0, <2>1, <2>2 DEF OwnedByRun, Alive, c
  <2>. QED BY <2>3, <2>4, <2>6, <2>7 DEF McpIInv
<1>2. ASSUME NEW c \in Mcp!Client, Mcp!Shaken(c) PROVE McpIInv'
  <2> DEFINE Awaits(r) == run[r].using = c /\ run[r].pc \in {"listing", "calling"}
  <2>1. /\ conn[c].connecting /\ shakes' = [shakes EXCEPT ![c] = 0] /\ UNCHANGED <<pooled, pool, made>>
        /\ \/ conn' = [conn EXCEPT ![c] = [live |-> TRUE, flag |-> TRUE, connecting |-> FALSE]] /\ UNCHANGED <<run, excused>>
           \/ /\ conn' = [conn EXCEPT ![c].connecting = FALSE]
              /\ run' = [r \in AgentRun |-> IF run[r].using # c \/ run[r].pc \notin {"listing", "calling"} THEN run[r]
                                 ELSE [run[r] EXCEPT !.pc = IF @ = "listing" THEN "thrown" ELSE "ready", !.using = None]]
              /\ excused' = excused \cup UNION {run[r].mine : r \in {q \in AgentRun : ~pooled /\ run[q].pc = "listing" /\ run[q].using = c}}
    BY <1>2 DEF Mcp!Shaken
  <2>2. \A d : Mcp!Pooled(d)' <=> Mcp!Pooled(d) BY <2>1 DEF Mcp!Pooled
  <2>3. CASE conn' = [conn EXCEPT ![c] = [live |-> TRUE, flag |-> TRUE, connecting |-> FALSE]] /\ UNCHANGED <<run, excused>>
    <3>1. /\ \A d \in Mcp!Client \ {c} : conn'[d] = conn[d]
          /\ conn'[c].live /\ conn'[c].flag /\ ~conn'[c].connecting
          /\ conn' \in [Mcp!Client -> [live : BOOLEAN, flag : BOOLEAN, connecting : BOOLEAN]]
      BY <1>t, <2>3 DEF McpTyped
    <3>2. McpTyped' BY <1>t, <2>1, <2>3, <3>1 DEF McpTyped
    <3>3. Handshakes' BY <1>t, <2>1, <3>1 DEF McpTyped, Handshakes
    <3>4. OwnedByPool' BY <1>t, <2>1, <2>2, <2>3, <3>1 DEF OwnedByPool, Alive
    <3>5. OwnedByRun' BY <1>t, <2>1, <2>3, <3>1 DEF OwnedByRun, Alive
    <3>. QED BY <3>2, <3>3, <3>4, <3>5 DEF McpIInv
  <2>4. CASE /\ conn' = [conn EXCEPT ![c].connecting = FALSE]
             /\ run' = [r \in AgentRun |-> IF run[r].using # c \/ run[r].pc \notin {"listing", "calling"} THEN run[r]
                                 ELSE [run[r] EXCEPT !.pc = IF @ = "listing" THEN "thrown" ELSE "ready", !.using = None]]
             /\ excused' = excused \cup UNION {run[r].mine : r \in {q \in AgentRun : ~pooled /\ run[q].pc = "listing" /\ run[q].using = c}}
    <3>1. /\ \A d \in Mcp!Client : conn'[d].live = conn[d].live /\ conn'[d].flag = conn[d].flag
                                     /\ conn'[d].connecting = IF d = c THEN FALSE ELSE conn[d].connecting
          /\ conn' \in [Mcp!Client -> [live : BOOLEAN, flag : BOOLEAN, connecting : BOOLEAN]]
      BY <1>t, <2>4 DEF McpTyped
    <3>2. \A r \in AgentRun : /\ run[r] \in McpSession /\ run'[r] \in McpSession /\ run'[r].mine = run[r].mine
                              /\ ~Awaits(r) => run'[r] = run[r]
                              /\ Awaits(r) => run'[r].pc = IF run[r].pc = "listing" THEN "thrown" ELSE "ready"
      <4> TAKE r \in AgentRun
      <4>1. run[r] \in McpSession BY <1>t DEF McpTyped
      <4>2. CASE ~Awaits(r) BY <2>4, <4>1, <4>2
      <4>3. CASE Awaits(r)
        <5> DEFINE next == IF run[r].pc = "listing" THEN "thrown" ELSE "ready"
        <5>1. run'[r] = [run[r] EXCEPT !.pc = next, !.using = None] BY <2>4, <4>3
        <5>2. next \in {"thrown", "ready"} OBVIOUS
        <5> HIDE DEF next
        <5>3. run'[r] \in McpSession /\ run'[r].mine = run[r].mine /\ run'[r].pc = next BY <4>1, <5>1, <5>2 DEF McpSession
        <5>. QED BY <4>1, <4>3, <5>3 DEF next
      <4>. QED BY <4>2, <4>3
    <3>3. run' \in [AgentRun -> McpSession] BY <2>4, <3>2
    <3>4. /\ excused \subseteq excused' /\ excused' \subseteq Mcp!Client
          /\ \A r \in AgentRun : ~pooled /\ run[r].pc = "listing" /\ Awaits(r) => run[r].mine \subseteq excused'
      <4> DEFINE Thrown == {q \in AgentRun : ~pooled /\ run[q].pc = "listing" /\ run[q].using = c}
                 Lost == UNION {run[r].mine : r \in Thrown}
      <4>1. \A r \in Thrown : run[r].mine \subseteq Lost OBVIOUS
      <4>2. \A r \in AgentRun : run[r].mine \subseteq Mcp!Client BY <3>2 DEF McpSession
      <4>3. Lost \subseteq Mcp!Client BY <4>2
      <4>4. excused' = excused \cup Lost BY <2>4
      <4>. QED BY <1>t, <4>1, <4>3, <4>4 DEF McpTyped
    <3>5. McpTyped' BY <1>t, <2>1, <3>1, <3>2, <3>3, <3>4 DEF McpTyped, McpAwaits
    <3>6. Handshakes' BY <1>t, <2>1, <3>1 DEF McpTyped, Handshakes
    <3>7. OwnedByPool' BY <1>t, <2>1, <2>2, <3>1, <3>4 DEF OwnedByPool, Alive
    <3>8. OwnedByRun'
      <4> SUFFICES ASSUME ~pooled PROVE
            /\ \A z \in DOMAIN Servers : pool'[z] = None
            /\ \A q, p \in AgentRun : q # p => run'[q].mine \cap run'[p].mine = {}
            /\ \A d \in Mcp!Client : conn'[d].connecting => \E q \in AgentRun : run'[q].pc \in {"listing", "calling"} /\ run'[q].using = d
            /\ \A d \in Mcp!Client : conn'[d].live \/ conn'[d].connecting =>
                 d \in excused' \/ \E q \in AgentRun : d \in run'[q].mine /\ run'[q].pc \notin {"ended", "thrown"}
        BY <2>1 DEF OwnedByRun, Alive
      <4>1. \A z \in DOMAIN Servers : pool'[z] = None BY <1>t, <2>1 DEF OwnedByRun
      <4>2. \A q, p \in AgentRun : q # p => run'[q].mine \cap run'[p].mine = {} BY <1>t, <3>2 DEF OwnedByRun
      <4>3. ASSUME NEW d \in Mcp!Client, conn'[d].connecting
            PROVE \E q \in AgentRun : run'[q].pc \in {"listing", "calling"} /\ run'[q].using = d
        <5>1. d # c /\ conn[d].connecting BY <3>1, <4>3
        <5>2. PICK q \in AgentRun : run[q].pc \in {"listing", "calling"} /\ run[q].using = d BY <1>t, <5>1 DEF OwnedByRun
        <5>. QED BY <3>2, <5>1, <5>2
      <4>4. ASSUME NEW d \in Mcp!Client, conn'[d].live \/ conn'[d].connecting
            PROVE d \in excused' \/ \E q \in AgentRun : d \in run'[q].mine /\ run'[q].pc \notin {"ended", "thrown"}
        <5>1. Alive(d) BY <3>1, <4>4 DEF Alive
        <5>2. d \in excused \/ \E q \in AgentRun : d \in run[q].mine /\ run[q].pc \notin {"ended", "thrown"} BY <1>t, <5>1 DEF OwnedByRun
        <5>. QED BY <3>2, <3>4, <5>2
      <4>. QED BY <4>1, <4>2, <4>3, <4>4
    <3>. QED BY <3>5, <3>6, <3>7, <3>8 DEF McpIInv
  <2>. QED BY <2>1, <2>3, <2>4
<1>. QED BY <1>1, <1>2

\* A run closes its clients, or the pool gives some up.
LEMMA McpCloses == ASSUME McpBounded, McpIInv,
    (\E r \in AgentRun : Mcp!Finish(r)) \/ (\E s \in DOMAIN Servers : Mcp!Evict(s)) \/ Mcp!ClosePool
  PROVE McpIInv'
<1>t. McpTyped /\ Handshakes /\ OwnedByPool /\ OwnedByRun BY DEF McpIInv
<1>c. \A c \in Mcp!Client : /\ conn[c] \in [live : BOOLEAN, flag : BOOLEAN, connecting : BOOLEAN]
                            /\ Mcp!Closed(c) \in [live : BOOLEAN, flag : BOOLEAN, connecting : BOOLEAN]
                            /\ ~Mcp!Closed(c).live /\ ~Mcp!Closed(c).flag /\ (Mcp!Closed(c).connecting <=> conn[c].connecting)
  BY <1>t DEF McpTyped, Handshakes, Mcp!Closed, Mcp!Fresh
<1>s. ASSUME NEW C \in SUBSET Mcp!Client, conn' = [c \in Mcp!Client |-> IF c \in C THEN Mcp!Closed(c) ELSE conn[c]]
      PROVE /\ conn' \in [Mcp!Client -> [live : BOOLEAN, flag : BOOLEAN, connecting : BOOLEAN]]
            /\ \A c \in Mcp!Client : /\ conn'[c].connecting <=> conn[c].connecting
                                     /\ c \in C => ~conn'[c].live /\ ~conn'[c].flag
                                     /\ c \notin C => conn'[c] = conn[c]
  BY <1>c, <1>s
<1>1. ASSUME NEW r \in AgentRun, Mcp!Finish(r) PROVE McpIInv'
  <2> DEFINE v == [run[r] EXCEPT !.pc = "ended"]
             C == IF pooled THEN {} ELSE run[r].mine
  <2>0. run[r] \in McpSession BY <1>t DEF McpTyped
  <2>1. /\ run[r].pc = "ready" /\ run' = [run EXCEPT ![r] = v] /\ UNCHANGED <<pooled, pool, made, shakes, excused>>
        /\ conn' = [c \in Mcp!Client |-> IF c \in C THEN Mcp!Closed(c) ELSE conn[c]]
    BY <1>1, <1>t DEF McpTyped, Mcp!Finish
  <2>2. v \in McpSession /\ v.pc = "ended" /\ v.mine = run[r].mine BY <2>0 DEF McpSession
  <2>3. C \in SUBSET Mcp!Client BY <2>0 DEF McpSession
  <2>4. (pooled => C = {}) /\ (~pooled => C = run[r].mine) OBVIOUS
  <2> HIDE DEF v, C
  <2>5. /\ conn' \in [Mcp!Client -> [live : BOOLEAN, flag : BOOLEAN, connecting : BOOLEAN]]
        /\ \A c \in Mcp!Client : /\ conn'[c].connecting <=> conn[c].connecting
                                 /\ c \in C => ~conn'[c].live /\ ~conn'[c].flag
                                 /\ c \notin C => conn'[c] = conn[c]
    BY <1>s, <2>1, <2>3
  <2>6. \A q \in AgentRun : run'[q] = IF q = r THEN v ELSE run[q] BY <1>t, <2>1 DEF McpTyped
  <2>7. McpTyped' BY <1>t, <2>1, <2>2, <2>5, <2>6 DEF McpTyped, McpAwaits
  <2>8. Handshakes' BY <1>t, <2>1, <2>5 DEF Handshakes
  <2>9. OwnedByPool' BY <1>t, <2>1, <2>4, <2>5 DEF OwnedByPool, Alive, Mcp!Pooled
  <2>10. OwnedByRun'
    <3> SUFFICES ASSUME ~pooled PROVE
          /\ \A q, p \in AgentRun : q # p => run'[q].mine \cap run'[p].mine = {}
          /\ \A d \in Mcp!Client : conn'[d].connecting => \E q \in AgentRun : run'[q].pc \in {"listing", "calling"} /\ run'[q].using = d
          /\ \A d \in Mcp!Client : conn'[d].live \/ conn'[d].connecting =>
               d \in excused \/ \E q \in AgentRun : d \in run'[q].mine /\ run'[q].pc \notin {"ended", "thrown"}
      BY <1>t, <2>1 DEF OwnedByRun, Alive
    <3>1. \A q, p \in AgentRun : q # p => run'[q].mine \cap run'[p].mine = {} BY <1>t, <2>2, <2>6 DEF OwnedByRun
    <3>2. ASSUME NEW d \in Mcp!Client, conn'[d].connecting
          PROVE \E q \in AgentRun : q # r /\ run'[q].pc \in {"listing", "calling"} /\ run'[q].using = d /\ d \in run'[q].mine
      <4>1. PICK q \in AgentRun : run[q].pc \in {"listing", "calling"} /\ run[q].using = d BY <1>t, <2>5, <3>2 DEF OwnedByRun
      <4>2. q # r /\ d \in run[q].mine BY <1>t, <2>1, <4>1 DEF McpTyped, McpAwaits
      <4>. QED BY <2>6, <4>1, <4>2
    <3>3. ASSUME NEW d \in Mcp!Client, conn'[d].live \/ conn'[d].connecting
          PROVE d \in excused \/ \E q \in AgentRun : d \in run'[q].mine /\ run'[q].pc \notin {"ended", "thrown"}
      <4>1. CASE conn'[d].connecting BY <3>2, <4>1
      <4>2. CASE conn'[d].live
        <5>1. d \notin run[r].mine /\ conn[d].live BY <2>4, <2>5, <4>2
        <5>2. d \in excused \/ \E q \in AgentRun : d \in run[q].mine /\ run[q].pc \notin {"ended", "thrown"}
          BY <1>t, <5>1 DEF OwnedByRun, Alive
        <5>. QED BY <2>6, <5>1, <5>2
      <4>. QED BY <3>3, <4>1, <4>2
    <3>. QED BY <3>1, <3>2, <3>3
  <2>. QED BY <2>7, <2>8, <2>9, <2>10 DEF McpIInv
<1>2. ASSUME NEW S \in SUBSET (DOMAIN Servers), Mcp!Drop(S), \E s \in DOMAIN Servers : pool[s] # None PROVE McpIInv'
  <2> DEFINE C == {pool[s] : s \in S} \ {None}
  <2>1. /\ pool' = [s \in DOMAIN Servers |-> IF s \in S THEN None ELSE pool[s]]
        /\ conn' = [c \in Mcp!Client |-> IF c \in C THEN Mcp!Closed(c) ELSE conn[c]]
        /\ excused' = excused \cup {c \in C : conn[c].connecting}
        /\ UNCHANGED <<pooled, made, shakes, run>>
    BY <1>2 DEF Mcp!Drop
  <2>2. C \in SUBSET Mcp!Client BY <1>t DEF McpTyped
  <2>3. \A c \in Mcp!Client : Mcp!Pooled(c) /\ c \notin C => Mcp!Pooled(c)'
    <3> SUFFICES ASSUME NEW c \in Mcp!Client, c \notin C, NEW s \in DOMAIN Servers, pool[s] = c PROVE \E z \in DOMAIN Servers : pool'[z] = c
      BY DEF Mcp!Pooled
    <3>1. c # None BY DEF McpBounded, Mcp!Client
    <3>2. s \notin S BY <3>1
    <3>. QED BY <2>1, <3>2
  <2> HIDE DEF C
  <2>4. /\ conn' \in [Mcp!Client -> [live : BOOLEAN, flag : BOOLEAN, connecting : BOOLEAN]]
        /\ \A c \in Mcp!Client : /\ conn'[c].connecting <=> conn[c].connecting
                                 /\ c \in C => ~conn'[c].live /\ ~conn'[c].flag
                                 /\ c \notin C => conn'[c] = conn[c]
    BY <1>s, <2>1, <2>2
  <2>5. pooled BY <1>2, <1>t DEF OwnedByRun
  <2>6. McpTyped' BY <1>t, <2>1, <2>2, <2>4 DEF McpTyped
  <2>7. Handshakes' BY <1>t, <2>1, <2>4 DEF Handshakes
  <2>8. OwnedByPool' BY <1>t, <2>1, <2>3, <2>4, <2>5 DEF OwnedByPool, Alive
  <2>9. OwnedByRun' BY <2>1, <2>5 DEF OwnedByRun
  <2>. QED BY <2>6, <2>7, <2>8, <2>9 DEF McpIInv
<1>. QED BY <1>1, <1>2 DEF Mcp!Evict, Mcp!ClosePool

\* Each step of a session keeps the invariant.
LEMMA McpKept == ASSUME McpBounded, McpIInv, [Mcp!Next]_mcpVars PROVE McpIInv'
<1>1. CASE Mcp!Next BY <1>1, BorrowKeeps, RunSteps, ClientSteps, McpCloses DEF Mcp!Next
<1>2. CASE UNCHANGED mcpVars
  BY <1>2 DEF mcpVars, McpIInv, McpTyped, Handshakes, OwnedByPool, OwnedByRun, Alive, Mcp!Pooled
<1>. QED BY <1>1, <1>2

\* The inductive invariant contains what a run checks.
LEMMA McpIsSafe == McpIInv => Mcp!McpInv
<1> SUFFICES ASSUME McpIInv PROVE Mcp!McpInv OBVIOUS
<1>1. Mcp!TypeOK BY DEF McpIInv, McpTyped, McpSession, Mcp!TypeOK
<1>2. Mcp!OneHandshake BY DEF McpIInv, McpTyped, Handshakes, Mcp!OneHandshake
<1>3. Mcp!NoneLeaks
  <2> SUFFICES ASSUME NEW c \in Mcp!Client, conn[c].live PROVE c \in Mcp!Held \cup excused BY DEF Mcp!NoneLeaks
  <2>1. CASE pooled BY <2>1 DEF McpIInv, OwnedByPool, Alive, Mcp!Held
  <2>2. CASE ~pooled BY <2>2 DEF McpIInv, OwnedByRun, Alive, Mcp!Held
  <2>. QED BY <2>1, <2>2
<1>. QED BY <1>1, <1>2, <1>3 DEF Mcp!McpInv

\* MCPClient and MCPClientPool: one handshake per client, and no transport without an owner but the
\* ones the code is known to lose, however many runs resolve tools, call and end at once.
THEOREM SessionsHaveOneOwner ==
  ASSUME McpBounded
  PROVE  Mcp!Init /\ [][Mcp!Next]_mcpVars => []Mcp!McpInv
<1>1. Mcp!Init => McpIInv BY McpStarts
<1>2. McpIInv /\ [Mcp!Next]_mcpVars => McpIInv' BY McpKept
<1>. QED BY <1>1, <1>2, McpIsSafe, PTL

(***************************************************************************)
(* The Redis backplane.                                                    *)
(***************************************************************************)
\* A buffer holds a message at least.
RedisBounded == MaxBufferSize \in Nat \ {0} /\ MaxMessages \in Nat /\ MaxErrors \in Nat

\* What one connection has sent and not yet heard of is a subscription, the end of one, or one
\* after the end of another; the upstream is pending, ready or none accordingly.
Commands == {<<>>, <<"sub">>, <<"unsub">>, <<"unsub", "sub">>}
Sent ==
    /\ commands \in Commands /\ subscribed \in BOOLEAN /\ closed \in BOOLEAN
    /\ upstream \in {"none", "pending", "ready"} /\ dropping \subseteq Subscriber
    /\ ~closed => \/ commands = <<>> /\ upstream = "none" /\ ~subscribed
                  \/ commands = <<>> /\ upstream = "ready" /\ subscribed
                  \/ commands = <<"sub">> /\ upstream = "pending" /\ ~subscribed
                  \/ commands = <<"unsub">> /\ upstream = "none" /\ ~subscribed
                  \/ commands = <<"unsub", "sub">> /\ upstream = "pending" /\ ~subscribed
    /\ closed => upstream = "none" /\ Redis!Open = {}
    /\ ~closed /\ Redis!Open # {} /\ failing.sub = 0 => upstream # "none"

\* The client holds a callback for the subscription, and one for each UNSUBSCRIBE that failed.
Counted ==
    /\ listeners \in Nat /\ failing \in [sub : Nat, unsub : Nat] /\ failing.sub + failing.unsub <= MaxErrors
    /\ listeners <= 1 + failing.unsub
    /\ commands = <<"sub">> => listeners <= failing.unsub
    /\ ~closed /\ commands = <<>> /\ ~subscribed => listeners <= failing.unsub
    /\ ~closed /\ subscribed => listeners >= 1

Connected == Sent /\ Counted

\* One local subscription b when p messages have been published.
Box == [state : {"new", "open", "closed"}, buffer : Seq(Nat), waiting : BOOLEAN, last : Nat, newest : Nat]
Holds(b, p) ==
    /\ Len(b.buffer) <= MaxBufferSize /\ b.last <= p /\ \A k \in DOMAIN b.buffer : b.buffer[k] <= p
    /\ b.newest = IF b.buffer = <<>> THEN b.last ELSE b.buffer[Len(b.buffer)]
    /\ b.waiting => b.buffer = <<>> /\ b.state = "open"
Ordered(b) == \A k \in DOMAIN b.buffer : b.buffer[k] > IF k = 1 THEN b.last ELSE b.buffer[k - 1]
Delivering ==
    /\ published \in 0..MaxMessages /\ local \in [Subscriber -> Box]
    /\ \A s \in Subscriber : Holds(local[s], published) /\ (failing.unsub = 0 => Ordered(local[s]))

RedisIInv == Connected /\ Delivering

\* The commands in flight, taken from the front and added at the end.
LEMMA CommandsOnTheWay ==
  /\ Commands \subseteq Seq({"sub", "unsub"})
  /\ \A q \in Commands : q # <<>> /\ Head(q) = "sub" => q = <<"sub">> /\ Tail(q) = <<>>
  /\ \A q \in Commands : q # <<>> /\ Head(q) = "unsub" => \/ q = <<"unsub">> /\ Tail(q) = <<>>
                                                          \/ q = <<"unsub", "sub">> /\ Tail(q) = <<"sub">>
  /\ Append(<<>>, "sub") = <<"sub">> /\ Append(<<>>, "unsub") = <<"unsub">>
  /\ Append(<<"unsub">>, "sub") = <<"unsub", "sub">>
  /\ <<>> # <<"sub">> /\ <<>> # <<"unsub">> /\ <<>> # <<"unsub", "sub">> /\ <<"sub">> # <<"unsub">>
  /\ <<"sub">> # <<"unsub", "sub">> /\ <<"unsub">> # <<"unsub", "sub">>
<1> DEFINE S == {"sub", "unsub"}
<1>0. <<>> \in Seq(S) /\ <<"sub">> \in Seq(S) /\ <<"unsub">> \in Seq(S) /\ <<"unsub", "sub">> \in Seq(S) OBVIOUS
<1>1. <<>> # <<"sub">> /\ <<>> # <<"unsub">> /\ <<>> # <<"unsub", "sub">> /\ <<"sub">> # <<"unsub">> OBVIOUS
<1>2. <<"sub">> # <<"unsub", "sub">> /\ <<"unsub">> # <<"unsub", "sub">>
  <2>1. Len(<<"sub">>) = 1 /\ Len(<<"unsub">>) = 1 /\ Len(<<"unsub", "sub">>) = 2 OBVIOUS
  <2>. QED BY <2>1
<1>3. Append(<<>>, "sub") = <<"sub">> /\ Append(<<>>, "unsub") = <<"unsub">> OBVIOUS
<1>4. Append(<<"unsub">>, "sub") = <<"unsub", "sub">>
  <2> DEFINE t == Append(<<"unsub">>, "sub")
             u == <<"unsub", "sub">>
  <2>1. <<"unsub">> \in Seq(S) /\ Len(<<"unsub">>) = 1 /\ <<"unsub">>[1] = "unsub" /\ "sub" \in S BY <1>0
  <2>2. t \in Seq(S) /\ Len(t) = 2 /\ t[1] = "unsub" /\ t[2] = "sub" BY <2>1, AppendProperties
  <2>3. u \in Seq(S) /\ Len(u) = 2 /\ u[1] = "unsub" /\ u[2] = "sub" BY <1>0
  <2> HIDE DEF t, u
  <2>4. \A i \in 1..Len(t) : t[i] = u[i] BY <2>2, <2>3
  <2>5. t = u BY <2>2, <2>3, <2>4, SeqEqual
  <2>. QED BY <2>5 DEF t, u
<1>5. Head(<<"sub">>) = "sub" /\ Head(<<"unsub">>) = "unsub" /\ Head(<<"unsub", "sub">>) = "unsub" OBVIOUS
<1>6. Tail(<<"sub">>) = <<>> /\ Tail(<<"unsub">>) = <<>> /\ Tail(<<"unsub", "sub">>) = <<"sub">> OBVIOUS
<1>7. \A q \in Commands : q \in {<<>>, <<"sub">>, <<"unsub">>, <<"unsub", "sub">>} BY DEF Commands
<1>8. \A q \in Commands : q \in Seq(S) BY <1>0, <1>7
<1>9. \A q \in Commands : q # <<>> /\ Head(q) = "sub" => q = <<"sub">> /\ Tail(q) = <<>> BY <1>5, <1>6, <1>7
<1>10. \A q \in Commands : q # <<>> /\ Head(q) = "unsub" => \/ q = <<"unsub">> /\ Tail(q) = <<>>
                                                            \/ q = <<"unsub", "sub">> /\ Tail(q) = <<"sub">>
  BY <1>5, <1>6, <1>7
<1>. QED BY <1>1, <1>2, <1>3, <1>4, <1>8, <1>9, <1>10

\* Nothing is subscribed, sent or delivered.
LEMMA RedisStarts == ASSUME RedisBounded, Redis!Init PROVE RedisIInv
<1>1. \A s \in Subscriber : /\ local[s] = Redis!Fresh /\ Redis!Fresh \in Box /\ DOMAIN Redis!Fresh.buffer = {}
                            /\ Len(Redis!Fresh.buffer) = 0
  BY DEF Redis!Init, Redis!Fresh, Box
<1>2. Redis!Open = {} BY <1>1 DEF Redis!Open, Redis!Fresh
<1>3. Sent
  <2>1. commands = <<>> /\ commands \in Commands BY DEF Redis!Init, Commands
  <2>. QED BY <1>2, <2>1 DEF Redis!Init, Sent
<1>c. Counted
  <2>1. listeners = 0 /\ failing = [sub |-> 0, unsub |-> 0] BY DEF Redis!Init
  <2>2. failing \in [sub : Nat, unsub : Nat] /\ failing.sub = 0 /\ failing.unsub = 0 BY <2>1
  <2>3. 0 <= MaxErrors BY DEF RedisBounded
  <2>. QED BY <2>1, <2>2, <2>3 DEF Redis!Init, Counted
<1>4. local \in [Subscriber -> Box] BY <1>1 DEF Redis!Init
<1>5. Delivering BY <1>1, <1>4 DEF RedisBounded, Redis!Init, Redis!Fresh, Delivering, Holds, Ordered
<1>. QED BY <1>3, <1>c, <1>5 DEF RedisIInv, Connected

\* A buffer b of messages up to p, after message p + 1 came n times: its length and its last; and, when it came once,
\* what each place holds, and the place before it.
Grown(b, f, p, n) ==
    /\ f \in Seq(Nat) /\ Len(f) <= MaxBufferSize /\ \A k \in DOMAIN f : f[k] <= p + 1
    /\ Len(b) = 0 => (\A k \in DOMAIN f : f[k] = p + 1) /\ Len(f) <= n
    /\ n # 0 => f # <<>> /\ f[Len(f)] = p + 1

Slid(b, f, p) == \A k \in DOMAIN f :
    \/ f[k] = p + 1 /\ \A j \in 1..(k - 1) : j = k - 1 => f[j] <= p
    \/ k \in DOMAIN b /\ f[k] = b[k] /\ \A j \in 1..(k - 1) : j = k - 1 => f[j] = b[j]
    \/ k + 1 \in DOMAIN b /\ f[k] = b[k + 1] /\ \A j \in 1..(k - 1) : j = k - 1 => f[j] = b[k]

\* A message that comes n times into a buffer: its length, its last and what is before it.
LEMMA BufferedHolds ==
  ASSUME RedisBounded, NEW b \in Seq(Nat), Len(b) <= MaxBufferSize, NEW n \in Nat,
         NEW p \in Nat, \A i \in DOMAIN b : b[i] <= p
  PROVE  LET f == Redis!Buffered(b, p + 1, n) IN Grown(b, f, p, n) /\ (n = 1 => Slid(b, f, p))
<1> DEFINE g == Redis!Buffered(b, p + 1, n)
           len == Len(b)
           size == Redis!Fits(len + n)
           lost == len + n - size
<1>1. /\ len \in Nat /\ DOMAIN b = 1..len /\ \A i \in 1..len : b[i] \in Nat /\ b[i] <= p
      /\ MaxBufferSize \in Nat /\ MaxBufferSize >= 1 /\ len <= MaxBufferSize
  BY DEF RedisBounded
<1>2. /\ size \in Nat /\ size <= MaxBufferSize /\ size <= len + n /\ (n # 0 => size >= 1)
      /\ size = len + n \/ (size = MaxBufferSize /\ size < len + n)
  <2>1. len + n > MaxBufferSize => size = MaxBufferSize BY DEF Redis!Fits
  <2>2. ~(len + n > MaxBufferSize) => size = len + n BY DEF Redis!Fits
  <2> HIDE DEF size
  <2>. QED BY <1>1, <2>1, <2>2
<1>4. \A k \in 1..size : g[k] = IF lost + k <= len THEN b[lost + k] ELSE p + 1
  <2> SUFFICES ASSUME NEW k \in 1..size PROVE g[k] = IF lost + k <= len THEN b[lost + k] ELSE p + 1 OBVIOUS
  <2>1. Redis!Fits(Len(b) + n) \in Nat BY <1>2
  <2>. QED BY <2>1 DEF Redis!Buffered
<1>d. g = [k \in 1..size |-> g[k]]
  <2>1. DOMAIN g = 1..size BY DEF Redis!Buffered
  <2>2. g = [k \in DOMAIN g |-> g[k]] BY DEF Redis!Buffered
  <2>. QED BY <2>1, <2>2
<1> HIDE DEF g, size, len
<1>3. lost \in Nat /\ lost + size = len + n /\ lost <= n /\ (n = 1 => lost \in {0, 1} /\ size = len + 1 - lost)
  BY <1>1, <1>2
<1> HIDE DEF lost
<1>5. \A k \in 1..size : g[k] \in Nat /\ g[k] <= p + 1
  <2> SUFFICES ASSUME NEW k \in 1..size PROVE g[k] \in Nat /\ g[k] <= p + 1 OBVIOUS
  <2>1. lost + k \in Nat /\ lost + k >= 1 BY <1>3
  <2>2. CASE lost + k <= len
    <3>1. lost + k \in 1..len BY <1>1, <2>1, <2>2
    <3>. QED BY <1>1, <1>4, <2>2, <3>1
  <2>3. CASE ~(lost + k <= len) BY <1>4, <2>3
  <2>. QED BY <2>2, <2>3
<1>6. g \in Seq(Nat) /\ Len(g) = size /\ DOMAIN g = 1..size
  <2>1. g \in [1..size -> Nat] BY <1>5, <1>d
  <2>. QED BY <1>2, <2>1
<1>7. len = 0 => (\A k \in 1..size : g[k] = p + 1) /\ size <= n
  <2> SUFFICES ASSUME len = 0 PROVE (\A k \in 1..size : g[k] = p + 1) /\ size <= n OBVIOUS
  <2>1. \A k \in 1..size : ~(lost + k <= len) BY <1>2, <1>3
  <2>2. size <= n BY <1>2, <1>3
  <2>. QED BY <1>4, <2>1, <2>2
<1>8. n # 0 => g # <<>> /\ g[size] = p + 1
  <2> SUFFICES ASSUME n # 0 PROVE g # <<>> /\ g[size] = p + 1 OBVIOUS
  <2>1. size \in 1..size /\ ~(lost + size <= len) BY <1>1, <1>2, <1>3
  <2>. QED BY <1>4, <1>6, <2>1
<1>9. ASSUME n = 1, NEW k \in 1..size
      PROVE  \/ g[k] = p + 1 /\ \A j \in 1..(k - 1) : j = k - 1 => g[j] <= p
             \/ k \in 1..len /\ g[k] = b[k] /\ \A j \in 1..(k - 1) : j = k - 1 => g[j] = b[j]
             \/ k + 1 \in 1..len /\ g[k] = b[k + 1] /\ \A j \in 1..(k - 1) : j = k - 1 => g[j] = b[k]
  <2>1. CASE lost + k <= len /\ lost = 0
    <3>1. k \in 1..len /\ g[k] = b[k] BY <1>1, <1>2, <1>3, <1>4, <2>1
    <3>2. \A j \in 1..(k - 1) : j \in 1..size /\ lost + j <= len /\ lost + j = j BY <1>1, <1>2, <1>3, <2>1
    <3>. QED BY <1>4, <3>1, <3>2
  <2>2. CASE lost + k <= len /\ lost = 1
    <3>1. k + 1 \in 1..len /\ g[k] = b[k + 1] BY <1>1, <1>2, <1>3, <1>4, <2>2
    <3>2. \A j \in 1..(k - 1) : j = k - 1 => j \in 1..size /\ lost + j <= len /\ lost + j = k BY <1>1, <1>2, <1>3, <2>2
    <3>. QED BY <1>4, <3>1, <3>2
  <2>3. CASE ~(lost + k <= len)
    <3>1. g[k] = p + 1 BY <1>4, <2>3
    <3>2. \A j \in 1..(k - 1) : j \in 1..size /\ lost + j <= len /\ lost + j \in 1..len BY <1>1, <1>2, <1>3, <1>9
    <3>3. \A j \in 1..(k - 1) : g[j] <= p BY <1>1, <1>4, <3>2
    <3>. QED BY <3>1, <3>3
  <2>. QED BY <1>2, <1>3, <1>9, <2>1, <2>2, <2>3
<1>10. Grown(b, g, p, n) BY <1>2, <1>5, <1>6, <1>7, <1>8 DEF Grown, len
<1>11. n = 1 => Slid(b, g, p) BY <1>1, <1>6, <1>9 DEF Slid
<1>. QED BY <1>10, <1>11, Zenon DEF g

\* A message to one subscription.
LEMMA DeliveredHolds ==
  ASSUME RedisBounded, NEW b \in Box, NEW p \in Nat, NEW n \in Nat, Holds(b, p)
  PROVE  LET d == Redis!Delivered(b, p + 1, n) IN
         /\ d \in Box /\ Holds(d, p + 1) /\ d.state = b.state
         /\ Ordered(b) /\ n <= 1 => Ordered(d)
<1> DEFINE d == Redis!Delivered(b, p + 1, n)
<1>1. /\ b.buffer \in Seq(Nat) /\ Len(b.buffer) \in Nat /\ DOMAIN b.buffer = 1..Len(b.buffer) /\ b.last \in Nat
      /\ b.newest \in Nat /\ b.waiting \in BOOLEAN /\ b.state \in {"new", "open", "closed"}
      /\ Len(b.buffer) <= MaxBufferSize /\ b.last <= p /\ \A i \in DOMAIN b.buffer : b.buffer[i] <= p /\ b.buffer[i] \in Nat
  BY DEF Box, Holds
<1>2. CASE b.state # "open" \/ n = 0
  <2>1. d = b BY <1>2 DEF Redis!Delivered
  <2>2. b.last <= p + 1 /\ \A k \in DOMAIN b.buffer : b.buffer[k] <= p + 1 BY <1>1
  <2>3. Holds(b, p + 1) BY <2>2 DEF Holds
  <2>. QED BY <2>1, <2>3
<1>3. CASE b.state = "open" /\ n # 0 /\ b.waiting
  <2> DEFINE rest == n - 1
             f == Redis!Buffered(b.buffer, p + 1, rest)
  <2>2. rest \in Nat BY <1>3
  <2> HIDE DEF rest
  <2>1. b.buffer = <<>> /\ Len(b.buffer) = 0 BY <1>3 DEF Holds
  <2>3. /\ f \in Seq(Nat) /\ Len(f) <= MaxBufferSize /\ Len(f) <= rest /\ \A k \in DOMAIN f : f[k] = p + 1
        /\ f # <<>> => f[Len(f)] = p + 1
    <3>0. Grown(b.buffer, f, p, rest) BY <1>1, <2>2, BufferedHolds, Zenon
    <3> HIDE DEF f
    <3>1. /\ f \in Seq(Nat) /\ Len(f) <= MaxBufferSize
          /\ Len(b.buffer) = 0 => (\A k \in DOMAIN f : f[k] = p + 1) /\ Len(f) <= rest
      BY <3>0, Zenon DEF Grown
    <3>2. f # <<>> => Len(f) \in DOMAIN f BY <3>1
    <3>. QED BY <2>1, <3>1, <3>2
  <2>4. d = [b EXCEPT !.waiting = FALSE, !.last = p + 1, !.newest = p + 1, !.buffer = f] BY <1>3 DEF Redis!Delivered, rest
  <2> HIDE DEF f
  <2>r. d = [state |-> b.state, buffer |-> f, waiting |-> FALSE, last |-> p + 1, newest |-> p + 1] BY <2>4 DEF Box
  <2> HIDE DEF d
  <2>5. d \in Box /\ d.state = b.state /\ d.buffer = f /\ d.last = p + 1 /\ d.newest = p + 1 /\ d.waiting = FALSE
    BY <1>1, <2>3, <2>r DEF Box
  <2>6. Holds(d, p + 1) BY <2>3, <2>5 DEF Holds
  <2>7. n <= 1 => Ordered(d)
    <3>1. n <= 1 => DOMAIN f = {} BY <2>3 DEF rest
    <3>. QED BY <2>5, <3>1 DEF Ordered
  <2>. QED BY <2>5, <2>6, <2>7 DEF d
<1>4. CASE b.state = "open" /\ n # 0 /\ ~b.waiting
  <2> DEFINE f == Redis!Buffered(b.buffer, p + 1, n)
  <2>0. Grown(b.buffer, f, p, n) /\ (n = 1 => Slid(b.buffer, f, p)) BY <1>1, BufferedHolds, Zenon
  <2>1. /\ f \in Seq(Nat) /\ Len(f) <= MaxBufferSize /\ \A k \in DOMAIN f : f[k] <= p + 1
        /\ f # <<>> /\ f[Len(f)] = p + 1
    BY <1>4, <2>0, Zenon DEF Grown
  <2>2. d = [b EXCEPT !.buffer = f, !.newest = p + 1] BY <1>4 DEF Redis!Delivered
  <2> HIDE DEF f
  <2>r. d = [state |-> b.state, buffer |-> f, waiting |-> FALSE, last |-> b.last, newest |-> p + 1]
    BY <1>1, <1>4, <2>2 DEF Box
  <2> HIDE DEF d
  <2>3. d \in Box /\ d.state = b.state /\ d.buffer = f /\ d.last = b.last /\ d.newest = p + 1 /\ d.waiting = FALSE
    BY <1>1, <2>1, <2>r DEF Box
  <2>4. Holds(d, p + 1) BY <1>1, <2>1, <2>3 DEF Holds
  <2>5. ASSUME Ordered(b), n <= 1 PROVE Ordered(d)
    <3> SUFFICES ASSUME NEW k \in DOMAIN f PROVE f[k] > IF k = 1 THEN b.last ELSE f[k - 1]
      BY <2>3 DEF Ordered
    <3>1. DOMAIN f = 1..Len(f) /\ Len(f) \in Nat /\ k \in Nat /\ k >= 1 /\ k <= Len(f) BY <2>1
    <3>2. k # 1 => k - 1 \in 1..(k - 1) /\ k - 1 \in DOMAIN f /\ f[k - 1] \in Nat BY <2>1, <3>1
    <3>3. CASE f[k] = p + 1 /\ \A j \in 1..(k - 1) : j = k - 1 => f[j] <= p
      <4>1. k # 1 => f[k - 1] <= p BY <3>2, <3>3
      <4>. QED BY <1>1, <3>2, <3>3, <4>1
    <3>4. CASE k \in DOMAIN b.buffer /\ f[k] = b.buffer[k] /\ \A j \in 1..(k - 1) : j = k - 1 => f[j] = b.buffer[j]
      <4>1. k # 1 => f[k - 1] = b.buffer[k - 1] BY <3>2, <3>4
      <4>2. b.buffer[k] > IF k = 1 THEN b.last ELSE b.buffer[k - 1] BY <2>5, <3>4 DEF Ordered
      <4>. QED BY <3>4, <4>1, <4>2
    <3>5. CASE k + 1 \in DOMAIN b.buffer /\ f[k] = b.buffer[k + 1] /\ \A j \in 1..(k - 1) : j = k - 1 => f[j] = b.buffer[k]
      <4>1. k # 1 => f[k - 1] = b.buffer[k] BY <3>2, <3>5
      <4>2. k + 1 # 1 /\ k + 1 - 1 = k /\ k \in DOMAIN b.buffer BY <1>1, <3>1, <3>5
      <4>3. b.buffer[k + 1] > b.buffer[k]
        <5>1. \A i, j \in DOMAIN b.buffer : i # 1 /\ j = i - 1 => b.buffer[i] > b.buffer[j] BY <2>5 DEF Ordered
        <5>2. PICK i \in DOMAIN b.buffer : i = k + 1 BY <3>5
        <5>3. i # 1 /\ k = i - 1 /\ k \in DOMAIN b.buffer BY <3>1, <4>2, <5>2
        <5>4. b.buffer[i] > b.buffer[k] BY <5>1, <5>3
        <5>. QED BY <5>2, <5>4
      <4>4. k = 1 => b.buffer[1] > b.last BY <2>5, <4>2 DEF Ordered
      <4>. QED BY <1>1, <3>5, <4>1, <4>2, <4>3, <4>4
    <3>6. n = 1 BY <1>4, <2>5
    <3>7. Slid(b.buffer, f, p) BY <2>0, <3>6
    <3>. QED BY <3>3, <3>4, <3>5, <3>7 DEF Slid
  <2>. QED BY <2>3, <2>4, <2>5 DEF d
<1>. QED BY <1>1, <1>2, <1>3, <1>4

\* A message reaches each subscription that is open, as often as the client has callbacks.
LEMMA PublishKeeps == ASSUME RedisBounded, RedisIInv, Redis!Publish PROVE RedisIInv'
<1>1. Connected /\ Delivering BY DEF RedisIInv
<1>2. /\ published \in Nat /\ published' = published + 1 /\ published' \in 0..MaxMessages
      /\ UNCHANGED <<upstream, subscribed, commands, listeners, dropping, closed, failing>>
  BY <1>1 DEF Delivering, Redis!Publish, Redis!shared, RedisBounded
<1>3. \A s \in Subscriber : /\ local'[s] \in Box /\ Holds(local'[s], published') /\ local'[s].state = local[s].state
                            /\ failing.unsub = 0 => Ordered(local'[s])
  <2> SUFFICES ASSUME NEW s \in Subscriber
               PROVE  /\ local'[s] \in Box /\ Holds(local'[s], published') /\ local'[s].state = local[s].state
                      /\ failing.unsub = 0 => Ordered(local'[s])
    OBVIOUS
  <2>1. local[s] \in Box /\ Holds(local[s], published) /\ (failing.unsub = 0 => Ordered(local[s])) BY <1>1 DEF Delivering
  <2>2. CASE closed
    <3>1. local'[s] = local[s] BY <2>2 DEF Redis!Publish
    <3>2. local[s].last <= published' /\ \A k \in DOMAIN local[s].buffer : local[s].buffer[k] <= published'
      <4>1. local[s].last \in Nat /\ \A k \in DOMAIN local[s].buffer : local[s].buffer[k] \in Nat BY <2>1 DEF Box
      <4>. QED BY <1>2, <2>1, <4>1 DEF Holds
    <3>. QED BY <2>1, <3>1, <3>2 DEF Holds
  <2>3. CASE ~closed
    <3>1. local'[s] = Redis!Delivered(local[s], published + 1, listeners) BY <2>3 DEF Redis!Publish
    <3>2. listeners \in Nat /\ (failing.unsub = 0 => listeners <= 1) BY <1>1 DEF Connected, Sent, Counted
    <3> DEFINE d == Redis!Delivered(local[s], published + 1, listeners)
    <3>3. published \in Nat /\ published' = published + 1 BY <1>2
    <3>4. /\ d \in Box /\ Holds(d, published + 1) /\ d.state = local[s].state
          /\ Ordered(local[s]) /\ listeners <= 1 => Ordered(d)
      BY <2>1, <3>2, <3>3, DeliveredHolds, Zenon
    <3> HIDE DEF d
    <3>5. local'[s] = d BY <3>1 DEF d
    <3>. QED BY <2>1, <3>2, <3>3, <3>4, <3>5
  <2>. QED BY <2>2, <2>3
<1>4. Redis!Open' = Redis!Open BY <1>3 DEF Redis!Open
<1>5. local' \in [Subscriber -> Box] BY <1>3 DEF Redis!Publish
<1>6. Connected' BY <1>1, <1>2, <1>4 DEF Connected, Sent, Counted
<1>7. Delivering' BY <1>2, <1>3, <1>5 DEF Delivering
<1>. QED BY <1>6, <1>7 DEF RedisIInv

\* A consumer takes what is buffered first, or waits.
LEMMA ConsumerKeeps == ASSUME RedisBounded, RedisIInv, NEW s \in Subscriber, Redis!ConsumerNext(s) PROVE RedisIInv'
<1>1. Connected /\ Delivering BY DEF RedisIInv
<1>2. UNCHANGED <<upstream, subscribed, commands, listeners, dropping, closed, published, failing>>
  BY DEF Redis!ConsumerNext, Redis!shared
<1> DEFINE b == local[s]
<1>3. b \in Box /\ Holds(b, published) /\ (failing.unsub = 0 => Ordered(b)) BY <1>1 DEF Delivering
<1>4. /\ local'[s] \in Box /\ Holds(local'[s], published) /\ local'[s].state = b.state
      /\ failing.unsub = 0 => Ordered(local'[s])
      /\ local' = [local EXCEPT ![s] = local'[s]]
  <2>1. CASE b.buffer # <<>>
    <3> DEFINE v == [b EXCEPT !.last = Head(b.buffer), !.buffer = Tail(b.buffer)]
    <3>1. local' = [local EXCEPT ![s] = v] BY <1>1, <2>1 DEF Redis!ConsumerNext, Delivering, Box
    <3>l. Len(b.buffer) \in Nat /\ Len(b.buffer) > 0 BY <1>3, <2>1 DEF Box
    <3>2. b.buffer \in Seq(Nat) /\ Len(b.buffer) \in Nat /\ Len(b.buffer) > 0 /\ DOMAIN b.buffer = 1..Len(b.buffer)
          /\ Head(b.buffer) = b.buffer[1] /\ b.buffer[1] \in Nat /\ Tail(b.buffer) \in Seq(Nat)
          /\ Len(Tail(b.buffer)) = Len(b.buffer) - 1 /\ DOMAIN Tail(b.buffer) = 1..(Len(b.buffer) - 1)
          /\ \A k \in 1..(Len(b.buffer) - 1) : Tail(b.buffer)[k] = b.buffer[k + 1]
      BY <1>3, <2>1 DEF Box
    <3>3. v \in Box /\ v.buffer = Tail(b.buffer) /\ v.last = b.buffer[1] /\ v.state = b.state /\ v.newest = b.newest
          /\ v.waiting = b.waiting
      BY <1>3, <3>2 DEF Box
    <3>4. local'[s] = v BY <1>1, <3>1 DEF Delivering
    <3> HIDE DEF v
    <3>5. Holds(v, published)
      <4>1. b.newest = b.buffer[Len(b.buffer)] /\ ~b.waiting /\ b.buffer[1] <= published BY <1>3, <2>1, <3>2 DEF Holds, Box
      <4>2. \A k \in DOMAIN v.buffer : v.buffer[k] <= published
        <5> SUFFICES ASSUME NEW k \in 1..(Len(b.buffer) - 1) PROVE Tail(b.buffer)[k] <= published BY <3>2, <3>3
        <5>1. k + 1 \in DOMAIN b.buffer BY <3>2
        <5>. QED BY <1>3, <3>2, <5>1 DEF Holds
      <4>3. v.newest = IF v.buffer = <<>> THEN v.last ELSE v.buffer[Len(v.buffer)]
        <5>1. CASE Len(b.buffer) = 1 BY <3>2, <3>3, <4>1, <5>1
        <5>2. CASE Len(b.buffer) # 1
          <6>0. \A m \in Nat : m > 0 /\ m # 1 => m > 1 OBVIOUS
          <6>1. Len(b.buffer) \in Nat /\ Len(b.buffer) > 1 BY <3>l, <5>2, <6>0
          <6>2. Len(b.buffer) - 1 \in 1..(Len(b.buffer) - 1) /\ Len(b.buffer) - 1 + 1 = Len(b.buffer) BY <6>1
          <6>3. Tail(b.buffer) # <<>> /\ Tail(b.buffer)[Len(b.buffer) - 1] = b.buffer[Len(b.buffer)]
            <7>1. DOMAIN Tail(b.buffer) # {} BY <3>2, <6>2
            <7>. QED BY <3>2, <6>2, <7>1
          <6>. QED BY <3>2, <3>3, <4>1, <6>3
        <5>. QED BY <5>1, <5>2
      <4>4. Len(v.buffer) <= MaxBufferSize BY <1>3, <3>2, <3>3 DEF Holds, RedisBounded
      <4>. QED BY <3>3, <4>1, <4>2, <4>3, <4>4 DEF Holds
    <3>6. ASSUME Ordered(b) PROVE Ordered(v)
      <4> SUFFICES ASSUME NEW k \in 1..(Len(b.buffer) - 1)
                   PROVE  Tail(b.buffer)[k] > IF k = 1 THEN b.buffer[1] ELSE Tail(b.buffer)[k - 1]
        BY <3>2, <3>3 DEF Ordered
      <4>1. k + 1 \in DOMAIN b.buffer /\ k + 1 # 1 /\ k + 1 - 1 = k BY <3>2
      <4>2. b.buffer[k + 1] > b.buffer[k] BY <3>6, <4>1 DEF Ordered
      <4>3. k # 1 => k - 1 \in 1..(Len(b.buffer) - 1) /\ k - 1 + 1 = k BY <3>2
      <4>. QED BY <3>2, <4>2, <4>3
    <3>. QED BY <1>3, <3>1, <3>3, <3>4, <3>5, <3>6
  <2>2. CASE b.buffer = <<>>
    <3> DEFINE v == [b EXCEPT !.waiting = TRUE]
    <3>1. local' = [local EXCEPT ![s] = v] /\ b.state = "open" BY <1>1, <2>2 DEF Redis!ConsumerNext, Delivering, Box
    <3>2. v \in Box /\ v.buffer = b.buffer /\ v.last = b.last /\ v.state = b.state /\ v.newest = b.newest
      BY <1>3 DEF Box
    <3>3. local'[s] = v BY <1>1, <3>1 DEF Delivering
    <3> HIDE DEF v
    <3>4. Holds(v, published) BY <1>3, <2>2, <3>1, <3>2 DEF Holds
    <3>5. Ordered(b) => Ordered(v) BY <3>2 DEF Ordered
    <3>. QED BY <1>3, <3>1, <3>2, <3>3, <3>4, <3>5
  <2>. QED BY <2>1, <2>2
<1> HIDE DEF b
<1>5. \A q \in Subscriber : local'[q].state = local[q].state BY <1>1, <1>4 DEF Delivering, b
<1>6. Redis!Open' = Redis!Open BY <1>5 DEF Redis!Open
<1>7. Connected' BY <1>1, <1>2, <1>6 DEF Connected, Sent, Counted
<1>8. Delivering' BY <1>1, <1>2, <1>4 DEF Delivering
<1>. QED BY <1>7, <1>8 DEF RedisIInv

\* A step that leaves the buffers alone: subscriptions open or close, a closed one waits no more.
LEMMA BuffersStay ==
  ASSUME Delivering, local' \in [Subscriber -> Box], published' = published, failing'.unsub = 0 => failing.unsub = 0,
         \A s \in Subscriber : /\ local'[s].buffer = local[s].buffer /\ local'[s].last = local[s].last
                               /\ local'[s].newest = local[s].newest
                               /\ local'[s].waiting => local[s].waiting /\ local'[s].state = "open"
  PROVE  Delivering'
<1>1. \A s \in Subscriber : Holds(local'[s], published) BY DEF Delivering, Holds
<1>2. \A s \in Subscriber : failing'.unsub = 0 => Ordered(local'[s]) BY DEF Delivering, Ordered
<1>. QED BY <1>1, <1>2 DEF Delivering

\* subscribe(): the first of the local subscribers sends the command.
LEMMA SubscribeKeeps == ASSUME RedisIInv, NEW s \in Subscriber, Redis!Subscribe(s) PROVE RedisIInv'
<1>1. Connected /\ Delivering BY DEF RedisIInv
<1>2. /\ ~closed /\ UNCHANGED <<subscribed, listeners, dropping, closed, published, failing>>
      /\ local' = [local EXCEPT ![s].state = "open"] /\ local[s].state = "new"
      /\ IF upstream = "none" THEN upstream' = "pending" /\ commands' = Append(commands, "sub")
                              ELSE UNCHANGED <<upstream, commands>>
  BY DEF Redis!Subscribe
<1>3. \A q \in Subscriber : /\ local'[q] \in Box /\ local'[q].buffer = local[q].buffer /\ local'[q].last = local[q].last
                            /\ local'[q].newest = local[q].newest /\ local'[q].waiting = local[q].waiting
                            /\ local'[q].state = IF q = s THEN "open" ELSE local[q].state
  BY <1>1, <1>2 DEF Delivering, Box
<1>4. local' \in [Subscriber -> Box] BY <1>1, <1>2, <1>3 DEF Delivering
<1>5. Delivering'
  <2>1. ~local[s].waiting BY <1>1, <1>2 DEF Delivering, Holds
  <2>2. \A q \in Subscriber : local'[q].waiting => local'[q].state = "open" BY <1>1, <1>3, <2>1 DEF Delivering, Holds
  <2>. QED BY <1>1, <1>2, <1>3, <1>4, <2>2, BuffersStay
<1>6. Connected' BY <1>1, <1>2, CommandsOnTheWay DEF Connected, Sent, Counted, Commands
<1>. QED BY <1>5, <1>6 DEF RedisIInv

\* The answers of Redis, and the last to leave.
LEMMA CommandsKeep ==
  ASSUME RedisBounded, RedisIInv,
         \/ Redis!SubAnswered \/ Redis!SubFails \/ Redis!UnsubAnswered \/ Redis!UnsubFails
         \/ \E s \in Subscriber : Redis!DropIfLast(s)
  PROVE  RedisIInv'
<1>1. Connected /\ Delivering BY DEF RedisIInv
<1>2. local' = local /\ published' = published /\ (failing'.unsub = 0 => failing.unsub = 0)
  BY <1>1 DEF Connected, Sent, Counted, Redis!SubAnswered, Redis!SubFails, Redis!UnsubAnswered, Redis!UnsubFails, Redis!DropIfLast
<1>3. Redis!Open' = Redis!Open BY <1>2 DEF Redis!Open
<1>4. Delivering' BY <1>1, <1>2 DEF Delivering
<1>n. /\ listeners \in Nat /\ failing.sub \in Nat /\ failing.unsub \in Nat /\ failing \in [sub : Nat, unsub : Nat]
      /\ failing.sub + failing.unsub <= MaxErrors /\ listeners <= 1 + failing.unsub
      /\ commands = <<"sub">> => listeners <= failing.unsub
  BY <1>1 DEF Connected, Counted
<1>m. MaxErrors \in Nat BY DEF RedisBounded
<1>q. commands \in Commands BY <1>1 DEF Connected, Sent
<1>5. CASE Redis!SubAnswered
  <2>1. commands = <<"sub">> /\ commands' = <<>> BY <1>5, <1>q, CommandsOnTheWay DEF Redis!SubAnswered
  <2>2. Sent' BY <1>1, <1>3, <1>5, <2>1, CommandsOnTheWay DEF Connected, Sent, Redis!SubAnswered, Commands
  <2>3. listeners' = listeners + 1 /\ failing' = failing /\ subscribed' = TRUE BY <1>5 DEF Redis!SubAnswered
  <2>4. Counted' BY <1>n, <2>1, <2>3, CommandsOnTheWay DEF Counted
  <2>. QED BY <1>4, <2>2, <2>4 DEF RedisIInv, Connected
<1>6. CASE Redis!SubFails
  <2>1. commands = <<"sub">> /\ commands' = <<>> BY <1>6, <1>q, CommandsOnTheWay DEF Redis!SubFails
  <2>2. /\ failing' = [failing EXCEPT !.sub = failing.sub + 1] /\ failing.sub + failing.unsub < MaxErrors
        /\ UNCHANGED <<listeners, closed, subscribed, dropping>> /\ upstream' = "none"
    BY <1>6 DEF Redis!SubFails
  <2>3. failing'.sub = failing.sub + 1 /\ failing'.unsub = failing.unsub /\ failing' \in [sub : Nat, unsub : Nat]
    BY <1>n, <2>2
  <2>4. failing'.sub # 0 /\ failing'.sub + failing'.unsub <= MaxErrors BY <1>n, <1>m, <2>2, <2>3
  <2>5. Sent' BY <1>1, <1>3, <2>1, <2>2, <2>4, CommandsOnTheWay DEF Connected, Sent, Commands
  <2>6. ~closed => ~subscribed BY <1>1, <2>1, CommandsOnTheWay DEF Connected, Sent
  <2>7. Counted' BY <1>n, <2>1, <2>2, <2>3, <2>4, <2>6, CommandsOnTheWay DEF Counted
  <2>. QED BY <1>4, <2>5, <2>7 DEF RedisIInv, Connected
<1>7. CASE Redis!UnsubAnswered
  <2>1. \/ commands = <<"unsub">> /\ commands' = <<>>
        \/ commands = <<"unsub", "sub">> /\ commands' = <<"sub">>
    BY <1>7, <1>q, CommandsOnTheWay DEF Redis!UnsubAnswered
  <2>2. listeners' = 0 /\ UNCHANGED <<upstream, subscribed, dropping, closed, failing>> BY <1>7 DEF Redis!UnsubAnswered
  <2>3. Sent' BY <1>1, <1>3, <2>1, <2>2, CommandsOnTheWay DEF Connected, Sent, Commands
  <2>4. ~closed => ~subscribed BY <1>1, <2>1, CommandsOnTheWay DEF Connected, Sent
  <2>5. Counted' BY <1>n, <2>2, <2>4 DEF Counted
  <2>. QED BY <1>4, <2>3, <2>5 DEF RedisIInv, Connected
<1>8. CASE Redis!UnsubFails
  <2>1. \/ commands = <<"unsub">> /\ commands' = <<>>
        \/ commands = <<"unsub", "sub">> /\ commands' = <<"sub">>
    BY <1>8, <1>q, CommandsOnTheWay DEF Redis!UnsubFails
  <2>2. /\ failing' = [failing EXCEPT !.unsub = failing.unsub + 1] /\ failing.sub + failing.unsub < MaxErrors
        /\ UNCHANGED <<upstream, listeners, closed, subscribed, dropping>>
    BY <1>8 DEF Redis!UnsubFails
  <2>3. failing'.unsub = failing.unsub + 1 /\ failing'.sub = failing.sub /\ failing' \in [sub : Nat, unsub : Nat]
    BY <1>n, <2>2
  <2>4. failing'.sub + failing'.unsub <= MaxErrors /\ listeners <= failing'.unsub BY <1>n, <1>m, <2>2, <2>3
  <2>5. Sent' BY <1>1, <1>3, <2>1, <2>2, <2>3, CommandsOnTheWay DEF Connected, Sent, Commands
  <2>6. ~closed => ~subscribed BY <1>1, <2>1, CommandsOnTheWay DEF Connected, Sent
  <2>7. Counted' BY <1>n, <2>2, <2>3, <2>4, <2>6 DEF Counted
  <2>. QED BY <1>4, <2>5, <2>7 DEF RedisIInv, Connected
<1>9. ASSUME NEW s \in Subscriber, Redis!DropIfLast(s) PROVE RedisIInv'
  <2>1. UNCHANGED <<listeners, closed, failing>> /\ dropping' = dropping \ {s} BY <1>9 DEF Redis!DropIfLast
  <2>2. CASE Redis!IsLast
    <3>1. subscribed' = FALSE /\ upstream' = "none" /\ commands' = Append(commands, "unsub") /\ ~closed /\ subscribed
          /\ Redis!Open = {}
      BY <1>9, <2>2 DEF Redis!DropIfLast, Redis!IsLast
    <3>2. commands' = <<"unsub">> BY <1>1, <3>1, CommandsOnTheWay DEF Connected, Sent
    <3>3. Sent' BY <1>1, <1>3, <2>1, <3>1, <3>2 DEF Connected, Sent, Commands
    <3>4. Counted' BY <1>n, <2>1, <3>1, <3>2, CommandsOnTheWay DEF Counted
    <3>. QED BY <1>4, <3>3, <3>4 DEF RedisIInv, Connected
  <2>3. CASE ~Redis!IsLast
    <3>1. UNCHANGED <<subscribed, upstream, commands>> BY <1>9, <2>3 DEF Redis!DropIfLast
    <3>2. Sent' BY <1>1, <1>3, <2>1, <3>1 DEF Connected, Sent
    <3>3. Counted' BY <1>1, <2>1, <3>1 DEF Connected, Counted
    <3>. QED BY <1>4, <3>2, <3>3 DEF RedisIInv, Connected
  <2>. QED BY <2>2, <2>3
<1>. QED BY <1>5, <1>6, <1>7, <1>8, <1>9

\* detach() and close(): who waits is told the end.
LEMMA LeavingKeeps ==
  ASSUME RedisIInv, Redis!Close \/ \E s \in Subscriber : Redis!Unsubscribe(s) PROVE RedisIInv'
<1>1. Connected /\ Delivering BY DEF RedisIInv
<1>d. \A b \in Box : LET d == Redis!Detached(b) IN
        /\ d \in Box /\ d.buffer = b.buffer /\ d.last = b.last /\ d.newest = b.newest /\ ~d.waiting /\ d.state = "closed"
  BY DEF Redis!Detached, Box
<1>2. ASSUME NEW s \in Subscriber, Redis!Unsubscribe(s) PROVE RedisIInv'
  <2>1. /\ local' = [local EXCEPT ![s] = Redis!Detached(local[s])] /\ dropping' = dropping \cup {s}
        /\ UNCHANGED <<upstream, subscribed, commands, listeners, closed, published, failing>> /\ local[s].state = "open"
    BY <1>2 DEF Redis!Unsubscribe
  <2>2. \A q \in Subscriber : local'[q] = IF q = s THEN Redis!Detached(local[q]) ELSE local[q]
    BY <1>1, <2>1 DEF Delivering
  <2>3. \A q \in Subscriber : local[q] \in Box /\ (local[q].waiting => local[q].state = "open")
    BY <1>1 DEF Delivering, Holds
  <2>4. local' \in [Subscriber -> Box] BY <1>d, <1>1, <2>1, <2>3 DEF Delivering
  <2>5. Delivering' BY <1>d, <1>1, <2>1, <2>2, <2>3, <2>4, BuffersStay
  <2>6. Redis!Open' \subseteq Redis!Open BY <1>d, <2>2, <2>3 DEF Redis!Open
  <2>7. Connected' BY <1>1, <2>1, <2>6 DEF Connected, Sent, Counted
  <2>. QED BY <2>5, <2>7 DEF RedisIInv
<1>3. CASE Redis!Close
  <2>1. /\ ~closed /\ closed' = TRUE /\ commands' = (IF subscribed THEN Append(commands, "unsub") ELSE commands)
        /\ subscribed' = FALSE /\ upstream' = "none" /\ UNCHANGED <<listeners, dropping, published, failing>>
        /\ local' = [s \in Subscriber |-> IF s \in Redis!Open THEN Redis!Detached(local[s]) ELSE local[s]]
    BY <1>3 DEF Redis!Close, Redis!Settled
  <2>2. \A q \in Subscriber : local'[q] = IF q \in Redis!Open THEN Redis!Detached(local[q]) ELSE local[q] BY <2>1
  <2>3. \A q \in Subscriber : local[q] \in Box /\ (local[q].waiting => local[q].state = "open")
    BY <1>1 DEF Delivering, Holds
  <2>4. local' \in [Subscriber -> Box] BY <1>d, <2>1, <2>3
  <2>5. Delivering' BY <1>d, <1>1, <2>1, <2>2, <2>3, <2>4, BuffersStay
  <2>6. Redis!Open' = {} BY <1>d, <2>2, <2>3 DEF Redis!Open
  <2>7. Connected' BY <1>1, <2>1, <2>6, CommandsOnTheWay DEF Connected, Sent, Counted, Commands
  <2>. QED BY <2>5, <2>7 DEF RedisIInv
<1>. QED BY <1>2, <1>3

\* Every step of the backplane keeps the invariant.
LEMMA RedisKept == ASSUME RedisBounded, RedisIInv, [Redis!Next]_redisVars PROVE RedisIInv'
<1>1. CASE UNCHANGED redisVars
  <2>1. Redis!Open' = Redis!Open BY <1>1 DEF redisVars, Redis!Open
  <2>2. Sent' BY <1>1, <2>1 DEF redisVars, RedisIInv, Connected, Sent
  <2>3. Counted' BY <1>1 DEF redisVars, RedisIInv, Connected, Counted
  <2>4. Delivering' BY <1>1 DEF redisVars, RedisIInv, Delivering
  <2>. QED BY <2>2, <2>3, <2>4 DEF RedisIInv, Connected
<1>. QED BY <1>1, PublishKeeps, ConsumerKeeps, SubscribeKeeps, CommandsKeep, LeavingKeeps DEF Redis!Next

\* What it says of the backplane.
LEMMA RedisIsSafe == ASSUME RedisBounded, RedisIInv PROVE Redis!RedisInv
<1>1. Connected /\ Delivering BY DEF RedisIInv
<1>2. Redis!TypeOK
  <2>1. commands \in Seq({"sub", "unsub"}) BY <1>1, CommandsOnTheWay DEF Connected, Sent, Counted
  <2>2. \A s \in Subscriber : /\ local[s].state \in {"new", "open", "closed"} /\ local[s].waiting \in BOOLEAN
                              /\ Len(local[s].buffer) <= MaxBufferSize /\ local[s].last \in 0..MaxMessages
    <3> SUFFICES ASSUME NEW s \in Subscriber
                 PROVE  /\ local[s].state \in {"new", "open", "closed"} /\ local[s].waiting \in BOOLEAN
                        /\ Len(local[s].buffer) <= MaxBufferSize /\ local[s].last \in 0..MaxMessages
      OBVIOUS
    <3>1. local[s] \in Box /\ Holds(local[s], published) /\ published \in 0..MaxMessages BY <1>1 DEF Delivering
    <3>2. local[s].state \in {"new", "open", "closed"} /\ local[s].waiting \in BOOLEAN /\ local[s].last \in Nat
      BY <3>1 DEF Box
    <3>. QED BY <3>1, <3>2 DEF Holds, RedisBounded
  <2>. QED BY <1>1, <2>1, <2>2 DEF Redis!TypeOK, Connected, Sent, Counted, Delivering
<1>3. Redis!LiveHasUpstream BY <1>1, CommandsOnTheWay DEF Connected, Sent, Counted, Redis!LiveHasUpstream
<1>4. Redis!OneListener BY <1>1 DEF Connected, Sent, Counted, Redis!OneListener
<1>5. Redis!NewestKept
  <2>1. \A s \in Subscriber : local[s].waiting => ~closed BY <1>1 DEF Connected, Sent, Counted, Delivering, Holds, Redis!Open
  <2>. QED BY <1>1, <2>1 DEF Delivering, Holds, Ordered, Redis!NewestKept
<1>. QED BY <1>2, <1>3, <1>4, <1>5 DEF Redis!RedisInv

\* RedisBroadcaster: however subscribers come and go while commands are on the wire or fail, the
\* upstream is the one of the live subscribers, and each has its messages once and in order.
THEOREM BackplaneDelivers ==
  ASSUME RedisBounded
  PROVE  Redis!Init /\ [][Redis!Next]_redisVars => []Redis!RedisInv
<1>1. Redis!Init => RedisIInv BY RedisStarts
<1>2. RedisIInv /\ [Redis!Next]_redisVars => RedisIInv' BY RedisKept
<1>3. RedisIInv => Redis!RedisInv BY RedisIsSafe
<1>. QED BY <1>1, <1>2, <1>3, PTL

(***************************************************************************)
(* The response of server-sent events.                                     *)
(***************************************************************************)
\* Before start(), while the loop runs and after it has ended: where the iterable stands and
\* what the loop waits for.
StreamPhases ==
    /\ loop \in {"starting", "running", "ended"}
    /\ loop = "starting" => /\ iterator = "fresh" /\ answer = "none" /\ ~aborted /\ ~timer /\ ~queued
                            /\ controller = "open" /\ produced = 0 /\ frames = <<>>
    /\ loop = "running" => /\ answer \in {"pending", "item", "end", "error"}
                           /\ (answer = "pending") = (iterator = "waiting")
                           /\ iterator \in {"waiting", "suspended", "done"}
                           /\ iterator = "suspended" => answer = "item"
                           /\ ~aborted => controller = "open"
                           /\ ~aborted /\ answer = "item" => iterator = "suspended"
    /\ loop = "ended" => ~timer /\ iterator = "done" /\ controller # "open" /\ answer = "none"
    /\ aborted => /\ ~timer /\ controller # "open"
                  /\ iterator = "done" \/ (iterator = "waiting" /\ iterable = "generator" /\ queued)
    /\ queued => aborted
    /\ loop # "starting" => gone = aborted
    /\ aborted \in BOOLEAN /\ gone \in BOOLEAN /\ timer \in BOOLEAN /\ queued \in BOOLEAN

\* The items the loop has taken.
Taken == produced - (IF answer = "item" THEN 1 ELSE 0)

\* The frames: all that was taken while the client was there, and a first part of it after.
FramesSoFar ==
    /\ produced \in Nat /\ frames \in Seq(Nat)
    /\ answer = "item" => produced > 0
    /\ \A i, j \in DOMAIN frames : i < j /\ frames[i] # 0 /\ frames[j] # 0 => frames[i] < frames[j]
    /\ IF aborted THEN \E n \in 0..produced : Streams!Items = 1..n ELSE Streams!Items = 1..Taken

SseIInv == StreamPhases /\ FramesSoFar

\* A response that has not started has sent nothing.
LEMMA SseStarts == Streams!SseInit => SseIInv
<1> SUFFICES ASSUME Streams!SseInit PROVE SseIInv OBVIOUS
<1>1. DOMAIN frames = {} /\ frames \in Seq(Nat) BY DEF Streams!SseInit
<1>2. Streams!Items = {} BY <1>1 DEF Streams!Items
<1>3. 1..Taken = {} BY DEF Streams!SseInit, Taken
<1>4. StreamPhases BY DEF Streams!SseInit, StreamPhases
<1>5. FramesSoFar BY <1>1, <1>2, <1>3 DEF Streams!SseInit, FramesSoFar
<1>. QED BY <1>4, <1>5 DEF SseIInv

\* A frame more: the items are those there were and the new one.
LEMMA FrameAdded ==
  ASSUME frames \in Seq(Nat), NEW m \in Nat, frames' = Append(frames, m)
  PROVE  /\ frames' \in Seq(Nat) /\ Streams!Items' = (Streams!Items \cup {m}) \ {0}
         /\ DOMAIN frames' = 1..(Len(frames) + 1) /\ DOMAIN frames = 1..Len(frames) /\ Len(frames) \in Nat
         /\ frames'[Len(frames) + 1] = m /\ \A i \in DOMAIN frames : frames'[i] = frames[i] /\ frames[i] \in Nat
<1>1. /\ frames' \in Seq(Nat)
      /\ DOMAIN frames' = 1..(Len(frames) + 1) /\ DOMAIN frames = 1..Len(frames) /\ Len(frames) \in Nat
      /\ frames'[Len(frames) + 1] = m /\ \A i \in DOMAIN frames : frames'[i] = frames[i] /\ frames[i] \in Nat
  OBVIOUS
<1>2. Streams!Items' = (Streams!Items \cup {m}) \ {0}
  <2>1. \A n \in Streams!Items' : n \in (Streams!Items \cup {m}) \ {0}
    <3> SUFFICES ASSUME NEW i \in DOMAIN frames', frames'[i] # 0 PROVE frames'[i] \in Streams!Items \cup {m}
      BY DEF Streams!Items
    <3>1. CASE i \in DOMAIN frames BY <1>1, <3>1 DEF Streams!Items
    <3>2. CASE i \notin DOMAIN frames BY <1>1, <3>2
    <3>. QED BY <3>1, <3>2
  <2>2. \A n \in Streams!Items : n \in Streams!Items' BY <1>1 DEF Streams!Items
  <2>3. m # 0 => m \in Streams!Items' BY <1>1 DEF Streams!Items
  <2>. QED BY <2>1, <2>2, <2>3 DEF Streams!Items
<1>. QED BY <1>1, <1>2

\* Every step of the loop, the timer, the iterable and the client keeps the phases and the frames.
LEMMA SseKept == SseIInv /\ [Streams!SseNext]_sseVars => SseIInv'
<1> SUFFICES ASSUME SseIInv, [Streams!SseNext]_sseVars PROVE SseIInv' OBVIOUS
<1>p. StreamPhases BY DEF SseIInv
<1>f. FramesSoFar BY DEF SseIInv
<1>k. iterable' = iterable
  BY DEF sseVars, Streams!SseNext, Streams!Start, Streams!Produce, Streams!Finish, Streams!Leave, Streams!Take,
         Streams!EndLoop, Streams!Heartbeat
<1>1. StreamPhases'
  <2>1. CASE Streams!Start BY <1>p, <1>k, <2>1 DEF StreamPhases, Streams!Start, Streams!Pull
  <2>2. CASE Streams!Produce BY <1>p, <1>k, <2>2 DEF StreamPhases, Streams!Produce
  <2>3. CASE Streams!Finish BY <1>p, <1>k, <2>3 DEF StreamPhases, Streams!Finish
  <2>4. CASE Streams!Leave BY <1>p, <1>k, <2>4 DEF StreamPhases, Streams!Leave, Streams!Close
  <2>5. CASE Streams!Take BY <1>p, <1>k, <2>5 DEF StreamPhases, Streams!Take, Streams!Pull
  <2>6. CASE Streams!EndLoop BY <1>p, <1>k, <2>6 DEF StreamPhases, Streams!EndLoop
  <2>7. CASE Streams!Heartbeat BY <1>p, <1>k, <2>7 DEF StreamPhases, Streams!Heartbeat
  <2>8. CASE UNCHANGED sseVars BY <1>p, <2>8 DEF StreamPhases, sseVars
  <2>. QED BY <2>1, <2>2, <2>3, <2>4, <2>5, <2>6, <2>7, <2>8 DEF Streams!SseNext
<1>2. FramesSoFar'
  <2>t. /\ produced \in Nat /\ frames \in Seq(Nat) /\ Taken \in Int /\ Taken <= produced
        /\ \A i, j \in DOMAIN frames : i < j /\ frames[i] # 0 /\ frames[j] # 0 => frames[i] < frames[j]
        /\ ~aborted => Streams!Items = 1..Taken /\ Taken \in 0..produced
    BY <1>f DEF FramesSoFar, Taken
  <2>s. ASSUME frames' = frames, produced' \in Nat, produced' >= produced, answer' = "item" => produced' > 0,
               aborted => aborted', ~aborted' => Taken' = Taken
        PROVE  FramesSoFar'
    <3>1. Streams!Items' = Streams!Items BY <2>s DEF Streams!Items
    <3>2. \E n \in 0..produced : Streams!Items = 1..n BY <1>f, <2>t DEF FramesSoFar
    <3>3. IF aborted' THEN \E n \in 0..produced' : Streams!Items' = 1..n ELSE Streams!Items' = 1..Taken'
      BY <2>s, <2>t, <3>1, <3>2
    <3>. QED BY <2>s, <2>t, <3>3 DEF FramesSoFar
  <2>a. ASSUME NEW m \in Nat, frames' = Append(frames, m), produced' = produced, ~aborted, ~aborted',
               Taken' = (IF m = 0 THEN Taken ELSE m), m # 0 => m = Taken + 1, answer' = "item" => produced > 0
        PROVE  FramesSoFar'
    <3>1. /\ frames' \in Seq(Nat) /\ Streams!Items' = (Streams!Items \cup {m}) \ {0}
          /\ DOMAIN frames' = 1..(Len(frames) + 1) /\ DOMAIN frames = 1..Len(frames) /\ Len(frames) \in Nat
          /\ frames'[Len(frames) + 1] = m /\ \A i \in DOMAIN frames : frames'[i] = frames[i] /\ frames[i] \in Nat
      BY <2>t, <2>a, FrameAdded
    <3>2. Streams!Items' = 1..Taken' BY <2>t, <2>a, <3>1
    <3>3. \A i \in DOMAIN frames : frames[i] # 0 => frames[i] \in 1..Taken BY <2>t, <2>a DEF Streams!Items
    <3>4. \A i, j \in DOMAIN frames' : i < j /\ frames'[i] # 0 /\ frames'[j] # 0 => frames'[i] < frames'[j]
      BY <2>t, <2>a, <3>1, <3>3
    <3>. QED BY <2>t, <2>a, <3>1, <3>2, <3>4 DEF FramesSoFar
  <2>1. CASE Streams!Start
    BY <1>p, <2>t, <2>s, <2>1 DEF StreamPhases, Streams!Start, Streams!Pull, Taken
  <2>2. CASE Streams!Produce
    <3>1. ~aborted' => Taken' = Taken
      BY <1>p, <2>t, <2>2 DEF StreamPhases, Streams!Produce, Taken
    <3>. QED BY <2>t, <2>s, <2>2, <3>1 DEF Streams!Produce
  <2>3. CASE Streams!Finish
    <3>1. ~aborted' => Taken' = Taken BY <1>p, <2>t, <2>3 DEF StreamPhases, Streams!Finish, Taken
    <3>. QED BY <2>t, <2>s, <2>3, <3>1 DEF Streams!Finish
  <2>4. CASE Streams!Leave
    BY <1>f, <2>t, <2>s, <2>4 DEF FramesSoFar, Streams!Leave, Streams!Close
  <2>5. CASE Streams!Take
    <3>1. CASE aborted BY <2>t, <2>s, <2>5, <3>1 DEF Streams!Take
    <3>2. CASE ~aborted
      <4>1. produced > 0 /\ Taken = produced - 1 BY <1>f, <2>5, <3>2 DEF FramesSoFar, Taken, Streams!Take
      <4>2. answer' # "item" /\ Taken' = produced
        BY <1>p, <2>t, <2>5, <3>2 DEF Taken, Streams!Take, Streams!Pull
      <4>. QED BY <2>t, <2>a, <2>5, <3>2, <4>1, <4>2 DEF Streams!Take
    <3>. QED BY <3>1, <3>2
  <2>6. CASE Streams!EndLoop
    <3>1. Taken' = Taken BY <2>t, <2>6 DEF Streams!EndLoop, Taken
    <3>. QED BY <2>t, <2>s, <2>6, <3>1 DEF Streams!EndLoop
  <2>7. CASE Streams!Heartbeat
    <3>1. Taken' = Taken /\ (answer' = "item" => produced > 0)
      BY <1>f, <2>7 DEF Streams!Heartbeat, Taken, FramesSoFar
    <3>2. CASE controller = "open" BY <2>t, <2>a, <2>7, <3>1, <3>2 DEF Streams!Heartbeat
    <3>3. CASE controller # "open" BY <2>t, <2>s, <2>7, <3>1, <3>3 DEF Streams!Heartbeat
    <3>. QED BY <3>2, <3>3
  <2>8. CASE UNCHANGED sseVars
    BY <1>f, <2>8 DEF FramesSoFar, Taken, sseVars, Streams!Items
  <2>. QED BY <2>1, <2>2, <2>3, <2>4, <2>5, <2>6, <2>7, <2>8 DEF Streams!SseNext
<1>. QED BY <1>1, <1>2 DEF SseIInv

\* The phases and the frames say what the response promises.
LEMMA SseIsSafe == SseIInv => Streams!SseInv
<1> SUFFICES ASSUME SseIInv PROVE Streams!SseInv OBVIOUS
<1>1. Streams!StreamIsReleased BY DEF SseIInv, StreamPhases, Streams!StreamIsReleased
<1>2. Streams!FramesInOrder
  <2>1. CASE aborted BY <2>1 DEF SseIInv, FramesSoFar, Streams!FramesInOrder
  <2>2. CASE ~aborted
    <3>1. Taken \in 0..produced /\ Streams!Items = 1..Taken BY <2>2 DEF SseIInv, FramesSoFar, Taken
    <3>. QED BY <2>2, <3>1 DEF SseIInv, FramesSoFar, Streams!FramesInOrder, Taken
  <2>. QED BY <2>1, <2>2
<1>. QED BY <1>1, <1>2 DEF Streams!SseInv

\* sseResponse: whatever the iterable, the client and the heartbeat do, and in whatever order,
\* the frames are the events in their order, the timer is cleared and the iterable is returned.
THEOREM StreamsGiveBack == Streams!SseInit /\ [][Streams!SseNext]_sseVars => []Streams!SseInv
BY SseStarts, SseKept, SseIsSafe, PTL

(***************************************************************************)
(* The body of a request.                                                  *)
(***************************************************************************)
\* "no value yet" is none of the values.
BodyHypothesis == None \notin {"body", "form", "null"}

\* What body() answers to whoever is first.
WholeBody == IF type = "none" \/ ~valid THEN "null" ELSE "body"
BodyTyped ==
    /\ type \in {"json", "form", "text", "none"} /\ valid \in BOOLEAN /\ (type # "json" => valid)
    /\ stream \in {"unread", "used"} /\ overlapped \in BOOLEAN
    /\ parsedBody \in {None, "body", "form", "null"} /\ parsedForm \in {None, "form"}
    /\ reader \in [Reader -> [pc : {"idle", "reading", "refused", "answered", "threw"}, call : {None, "body", "form"},
                              answer : {None, "body", "form", "null"}]]

\* What is kept is what the stream gave, and once it has been read and no one reads it, one of
\* the two fields is filled.
BodyKept ==
    /\ parsedBody \in {None, WholeBody} /\ parsedForm \in {None, "form"}
    /\ parsedForm # None => type = "form"
    /\ type = "form" /\ parsedBody # None => parsedForm # None
    /\ stream = "unread" => parsedForm = None /\ (type # "none" => parsedBody = None)
    /\ stream = "used" /\ (\A r \in Reader : ~Streams!Reading(r)) => parsedBody # None \/ parsedForm # None

\* One reader at a time; the first has the stream, one who is refused comes after a form().
BodyReaders ==
    /\ \A q, r \in Reader : Streams!Reading(q) /\ Streams!Reading(r) => q = r
    /\ \A r \in Reader :
        /\ reader[r].pc = "idle" => reader[r].call = None
        /\ reader[r].pc = "reading" =>
            /\ stream = "used" /\ type # "none" /\ parsedBody = None /\ parsedForm = None
            /\ \/ reader[r].call = "body" /\ reader[r].answer = WholeBody
               \/ reader[r].call = "form" /\ reader[r].answer = "form" /\ type = "form"
        /\ reader[r].pc = "refused" => /\ stream = "used" /\ type = "form" /\ parsedForm # None
                                       /\ reader[r].call = "body"

BodyIInv == BodyTyped /\ (~overlapped => BodyKept /\ BodyReaders /\ Streams!BodyIsReadOnce)

\* A request whose body nobody has asked for.
LEMMA BodyStarts == ASSUME BodyHypothesis PROVE Streams!BodyInit => BodyIInv
<1> SUFFICES ASSUME Streams!BodyInit PROVE BodyIInv OBVIOUS
<1>1. BodyTyped BY DEF Streams!BodyInit, BodyTyped
<1>2. \A r \in Reader : reader[r].pc = "idle" /\ reader[r].call = None BY DEF Streams!BodyInit
<1>3. BodyKept BY DEF Streams!BodyInit, BodyKept, WholeBody
<1>4. BodyReaders BY <1>2 DEF BodyReaders, Streams!Reading
<1>5. Streams!BodyIsReadOnce BY <1>2 DEF BodyHypothesis, Streams!BodyIsReadOnce
<1>. QED BY <1>1, <1>3, <1>4, <1>5 DEF BodyIInv

\* A call and the end of a read keep it.
LEMMA BodyKeptOn == ASSUME BodyHypothesis PROVE BodyIInv /\ [Streams!BodyNext]_bodyVars => BodyIInv'
<1> SUFFICES ASSUME BodyIInv, [Streams!BodyNext]_bodyVars PROVE BodyIInv' OBVIOUS
<1>t. BodyTyped BY DEF BodyIInv
<1>n. None # "body" /\ None # "form" /\ None # "null" BY DEF BodyHypothesis
<1>1. ASSUME NEW r \in Reader, Streams!Call(r) PROVE BodyIInv'
  <2>w. WholeBody' = WholeBody /\ WholeBody \in {"body", "null"} BY <1>1 DEF Streams!Call, WholeBody
  <2>1. BodyTyped'
    <3>1. CASE Streams!Body(r) BY <1>t, <1>1, <3>1 DEF BodyTyped, Streams!Call, Streams!Body, Streams!Answer, Streams!Read
    <3>2. CASE Streams!Form(r) BY <1>t, <1>1, <3>2 DEF BodyTyped, Streams!Call, Streams!Form, Streams!Answer, Streams!Read
    <3>. QED BY <1>1, <3>1, <3>2 DEF Streams!Call
  <2> SUFFICES ASSUME ~overlapped' PROVE (BodyKept /\ BodyReaders /\ Streams!BodyIsReadOnce)'
    BY <2>1 DEF BodyIInv
  <2>2. ~overlapped /\ \A q \in Reader : ~Streams!Reading(q) BY <1>1 DEF Streams!Call
  <2>3. BodyKept /\ BodyReaders /\ Streams!BodyIsReadOnce BY <2>2 DEF BodyIInv
  <2>4. UNCHANGED <<type, valid, parsedForm>>
    BY <1>1 DEF Streams!Call, Streams!Body, Streams!Form, Streams!Answer, Streams!Read
  <2>5. \A q \in Reader \ {r} : reader'[q] = reader[q]
    BY <1>t, <1>1 DEF BodyTyped, Streams!Call, Streams!Body, Streams!Form, Streams!Answer, Streams!Read
  <2>6. \A q \in Reader \ {r} : ~(Streams!Reading(q))' BY <2>2, <2>5 DEF Streams!Reading
  <2>a. ASSUME NEW call_ \in {"body", "form"}, NEW value, Streams!Answer(r, call_, value),
               call_ = "form" => value = "form" /\ parsedBody' = parsedBody,
               call_ = "body" => value = WholeBody /\ parsedBody' = WholeBody,
               parsedBody # None => parsedBody' = parsedBody, type # "none" => parsedBody' = parsedBody
        PROVE  (BodyKept /\ BodyReaders /\ Streams!BodyIsReadOnce)'
    <3>1. reader'[r] = [pc |-> "answered", call |-> call_, answer |-> value] /\ stream' = stream
      BY <1>t, <2>a DEF BodyTyped, Streams!Answer
    <3>2. ~(Streams!Reading(r))' BY <3>1 DEF Streams!Reading
    <3>3. BodyKept' BY <1>n, <2>w, <2>2, <2>3, <2>4, <2>a, <3>1 DEF BodyKept
    <3>4. BodyReaders' BY <2>3, <2>4, <2>5, <2>6, <3>1, <3>2 DEF BodyReaders, Streams!Reading
    <3>5. Streams!BodyIsReadOnce'
      BY <2>2, <2>3, <2>4, <2>5, <2>a, <3>1 DEF Streams!BodyIsReadOnce, Streams!Reading, Streams!BodyAnswers, WholeBody
    <3>. QED BY <3>3, <3>4, <3>5
  <2>b. ASSUME NEW call_ \in {"body", "form"}, NEW parsed \in BOOLEAN, Streams!Read(r, call_, parsed),
               type # "none", parsedBody = None, call_ = "form" => type = "form" /\ parsedForm = None /\ parsed,
               call_ = "body" => parsed = valid
        PROVE  (BodyKept /\ BodyReaders /\ Streams!BodyIsReadOnce)'
    <3>1. /\ stream' = "used" /\ parsedBody' = None
          /\ reader'[r] = [pc |-> IF stream = "unread" THEN "reading" ELSE "refused", call |-> call_,
                           answer |-> IF stream = "unread" /\ parsed THEN call_ ELSE "null"]
      BY <1>t, <2>b DEF BodyTyped, Streams!Read
    <3>2. (Streams!Reading(r))' BY <3>1 DEF Streams!Reading
    <3>3. stream = "used" => parsedForm # None /\ type = "form" /\ call_ = "body"
      BY <1>t, <2>2, <2>3, <2>b DEF BodyKept
    <3>4. BodyKept' BY <1>n, <2>w, <2>3, <2>4, <3>1, <3>2 DEF BodyKept
    <3>5. BodyReaders'
      <4>1. \A q, s \in Reader : (Streams!Reading(q) /\ Streams!Reading(s))' => q = s BY <2>6
      <4>2. (reader'[r].pc = "reading" =>
              /\ stream' = "used" /\ type' # "none" /\ parsedBody' = None /\ parsedForm' = None
              /\ \/ reader'[r].call = "body" /\ reader'[r].answer = WholeBody'
                 \/ reader'[r].call = "form" /\ reader'[r].answer = "form" /\ type' = "form")
        BY <2>3, <2>4, <2>b, <3>1 DEF BodyKept, WholeBody
      <4>3. \A q \in Reader \ {r} : reader'[q].pc \notin {"reading", "refused"}
        BY <2>6 DEF Streams!Reading
      <4>4. \A q \in Reader \ {r} : reader'[q].pc = "idle" => reader'[q].call = None
        BY <2>3, <2>5 DEF BodyReaders
      <4>. QED BY <1>t, <2>4, <3>1, <3>3, <4>1, <4>2, <4>3, <4>4 DEF BodyReaders, BodyTyped
    <3>6. Streams!BodyIsReadOnce'
      BY <2>2, <2>3, <2>4, <2>5, <3>2 DEF Streams!BodyIsReadOnce, Streams!Reading, Streams!BodyAnswers
    <3>. QED BY <3>4, <3>5, <3>6
  <2>7. CASE Streams!Body(r)
    <3>1. CASE parsedBody # None /\ Streams!Answer(r, "body", parsedBody) /\ parsedBody' = parsedBody
      BY <2>3, <2>a, <3>1 DEF BodyKept
    <3>2. CASE parsedBody = None /\ type = "none" /\ Streams!Answer(r, "body", "null") /\ parsedBody' = "null"
      BY <2>a, <3>2 DEF WholeBody
    <3>3. CASE parsedBody = None /\ type # "none" /\ Streams!Read(r, "body", valid) BY <1>t, <2>b, <3>3 DEF BodyTyped
    <3>. QED BY <2>7, <3>1, <3>2, <3>3 DEF Streams!Body
  <2>8. CASE Streams!Form(r)
    <3>1. CASE type = "form" /\ parsedForm # None /\ Streams!Answer(r, "form", parsedForm) /\ parsedBody' = parsedBody
      BY <2>3, <2>a, <3>1 DEF BodyKept
    <3>2. CASE type = "form" /\ parsedForm = None /\ parsedBody # None BY <2>3, <3>2 DEF BodyKept
    <3>3. CASE type = "form" /\ parsedForm = None /\ parsedBody = None /\ Streams!Read(r, "form", TRUE) BY <2>b, <3>3
    <3>. QED BY <2>8, <3>1, <3>2, <3>3 DEF Streams!Form
  <2>. QED BY <1>1, <2>7, <2>8 DEF Streams!Call
<1>2. ASSUME NEW r \in Reader, Streams!Settle(r) PROVE BodyIInv'
  <2> DEFINE kept == reader[r].pc = "reading" \/ type = "json"
  <2>1. /\ Streams!Reading(r) /\ UNCHANGED <<type, valid, stream, overlapped>>
        /\ reader' = [reader EXCEPT ![r].pc = IF kept THEN "answered" ELSE "threw"]
        /\ parsedBody' = IF kept /\ reader[r].call = "body" THEN reader[r].answer ELSE parsedBody
        /\ parsedForm' = IF kept /\ type = "form" THEN "form" ELSE parsedForm
    BY <1>2 DEF Streams!Settle
  <2>2. BodyTyped' BY <1>t, <2>1 DEF BodyTyped
  <2> SUFFICES ASSUME ~overlapped PROVE (BodyKept /\ BodyReaders /\ Streams!BodyIsReadOnce)'
    BY <2>1, <2>2 DEF BodyIInv
  <2>3. BodyKept /\ BodyReaders /\ Streams!BodyIsReadOnce BY DEF BodyIInv
  <2>4. \A q \in Reader \ {r} : reader'[q] = reader[q] /\ ~Streams!Reading(q) /\ ~(Streams!Reading(q))'
    BY <1>t, <2>1, <2>3 DEF BodyTyped, BodyReaders, Streams!Reading
  <2>5. /\ reader'[r].call = reader[r].call /\ reader'[r].answer = reader[r].answer
        /\ reader'[r].pc = (IF kept THEN "answered" ELSE "threw") /\ ~(Streams!Reading(r))'
    BY <1>t, <2>1 DEF BodyTyped, Streams!Reading
  <2>6. reader[r].pc \in {"reading", "refused"} BY <2>1 DEF Streams!Reading
  <2>7. WholeBody' = WholeBody /\ WholeBody \in {"body", "null"} BY <2>1 DEF WholeBody
  <2>8. kept <=> reader[r].pc = "reading" BY <2>3, <2>6 DEF BodyReaders
  <2>9. /\ kept => /\ stream = "used" /\ type # "none" /\ parsedBody = None /\ parsedForm = None
                   /\ \/ reader[r].call = "body" /\ reader[r].answer = WholeBody
                      \/ reader[r].call = "form" /\ reader[r].answer = "form" /\ type = "form"
        /\ ~kept => stream = "used" /\ type = "form" /\ parsedForm # None /\ reader[r].call = "body"
    BY <2>3, <2>6, <2>8 DEF BodyReaders
  <2> HIDE DEF kept
  <2>10. BodyKept' BY <1>n, <2>1, <2>3, <2>7, <2>9 DEF BodyKept
  <2>11. BodyReaders' BY <1>t, <2>3, <2>4, <2>5 DEF BodyReaders, Streams!Reading
  <2>12. Streams!BodyIsReadOnce'
    <3>1. reader[r].call = "body" => (Streams!BodyAnswers(r))' \/ (reader'[r].pc = "threw" /\ parsedForm' # None)
      BY <1>n, <2>1, <2>5, <2>9 DEF Streams!BodyAnswers, WholeBody
    <3>2. reader[r].call = "form" => reader'[r].answer = "form" BY <2>5, <2>9
    <3>3. ASSUME NEW q \in Reader \ {r}
          PROVE  /\ reader'[q].call = "body" => (Streams!BodyAnswers(q))' \/ (reader'[q].pc = "threw" /\ parsedForm' # None)
                 /\ reader'[q].call = "form" => reader'[q].answer = "form"
      BY <1>n, <2>1, <2>3, <2>4, <2>9, <3>3 DEF Streams!BodyIsReadOnce, Streams!BodyAnswers
    <3>. QED BY <2>5, <3>1, <3>2, <3>3 DEF Streams!BodyIsReadOnce
  <2>. QED BY <2>10, <2>11, <2>12
<1>3. CASE UNCHANGED bodyVars
  BY <1>3 DEF BodyIInv, BodyTyped, BodyKept, BodyReaders, WholeBody, bodyVars, Streams!BodyIsReadOnce, Streams!Reading,
              Streams!BodyAnswers
<1>. QED BY <1>1, <1>2, <1>3 DEF Streams!BodyNext

\* HttpRequest.body and its like: readers that wait for one another get the same body, and a form()
\* after a body() that parsed the form gets that form.
THEOREM BodiesAreReadOnce ==
  ASSUME BodyHypothesis
  PROVE  Streams!BodyInit /\ [][Streams!BodyNext]_bodyVars => []Streams!BodyIsReadOnce
<1>1. Streams!BodyInit => BodyIInv BY BodyStarts
<1>2. BodyIInv /\ [Streams!BodyNext]_bodyVars => BodyIInv' BY BodyKeptOn
<1>3. BodyIInv => Streams!BodyIsReadOnce BY DEF BodyIInv, Streams!BodyIsReadOnce
<1>. QED BY <1>1, <1>2, <1>3, PTL

(***************************************************************************)
(* Sagas.                                                                  *)
(***************************************************************************)
SagaStep == [type : {"step", "parallel", "route", "loop"}, comps : Seq(BOOLEAN), max : Int]
SagaTyped ==
    /\ plan \in Seq(SagaStep) /\ Len(plan) <= MaxSteps
    /\ \A i \in DOMAIN plan : plan[i].type # "parallel" => DOMAIN plan[i].comps = {1}
    /\ sagaPc \in {"building", "next", "executing", "compensating", "returned", "failed", "stuck"}
    /\ at \in Nat \ {0} /\ at <= Len(plan) + 1 /\ (sagaPc = "building" => at = 1)
    /\ sagaPc = "executing" => at <= Len(plan)
    /\ handler \in [Saga!Entry -> {"idle", "running", "done", "threw", "late"}]
    /\ completed \in Seq(Nat) /\ Len(completed) = at - 1 /\ \A i \in DOMAIN completed : completed[i] = i

\* The entries of the step that is executed run or are done; between steps those of the
\* steps to come are idle.
Entered ==
    /\ sagaPc \in {"building", "next"} => \A n \in Saga!Entry : handler[n] # "idle" => n[1] < at
    /\ sagaPc = "executing" => \A n \in Saga!Names(at) : handler[n] \in {"running", "done"}

\* What a failed run has to compensate.
ToCompensate == {n \in Saga!Entry : Saga!Compensable(n) /\ n[1] < at}

\* While it compensates, each compensator it has to call was called or is owed, those that
\* were called before those that are owed.
Owed ==
    /\ compensated \in Seq(Saga!Entry)
    /\ sagaPc \notin {"compensating", "failed", "stuck"} => compensated = <<>> /\ failures = {}
    /\ sagaPc = "compensating" =>
         /\ owing \subseteq ToCompensate /\ \A n \in ToCompensate : n \in owing \/ \E i \in DOMAIN compensated : compensated[i] = n
         /\ \A i \in DOMAIN compensated : compensated[i] \in ToCompensate
         /\ \A i, j \in DOMAIN compensated : i < j => Saga!Before(compensated[i], compensated[j])
         /\ \A i \in DOMAIN compensated : \A c \in owing : Saga!Before(compensated[i], c)

SagaIInv == SagaTyped /\ Entered /\ Owed /\ Saga!WorkflowInv

\* What is declared stays declared, and what of it is compensable.
LEMMA EntriesKnown == ASSUME SagaTyped PROVE
  /\ \A n \in Saga!Entry : n[1] \in 1..MaxSteps /\ n[2] \in 1..MaxWidth /\ n = <<n[1], n[2]>>
  /\ \A i \in DOMAIN plan : \A n : n \in Saga!Names(i) <=> n \in Saga!Entry /\ n[1] = i /\ n[2] \in DOMAIN plan[i].comps
  /\ \A n \in Saga!Entry : n \in Saga!Declared <=> n[1] \in DOMAIN plan /\ n \in Saga!Names(n[1])
  /\ DOMAIN plan = 1..Len(plan) /\ Len(plan) \in Nat
BY DEF SagaTyped, Saga!Entry, Saga!Names, Saga!Declared

\* Before a plan is built nothing ran.
LEMMA SagaStarts == ASSUME MaxSteps \in Nat, Saga!Init PROVE SagaIInv
<1>1. SagaTyped BY DEF Saga!Init, SagaTyped
<1>2. Entered /\ Owed BY DEF Saga!Init, Entered, Owed
<1>3. Saga!RolledBack BY DEF Saga!Init, Saga!RolledBack
<1>4. Saga!NothingStartsAfterFailure
  <2>1. \A n \in Saga!Entry : n[1] >= 1 /\ handler[n] = "idle" BY <1>1, EntriesKnown DEF Saga!Init
  <2>2. Saga!Declared = {} BY DEF Saga!Init, Saga!Declared
  <2>. QED BY <2>1, <2>2 DEF Saga!Init, Saga!NothingStartsAfterFailure
<1>. QED BY <1>1, <1>2, <1>3, <1>4 DEF SagaIInv, Saga!WorkflowInv


\* A plan grows while nothing runs, and is then run.
LEMMA BuildKeeps == ASSUME MaxSteps \in Nat, MaxWidth \in Nat, MaxIterations \in Nat, SagaIInv,
    (\E c \in BOOLEAN : Saga!AddStep(c)) \/ (\E width \in 0..MaxWidth : \E comps \in [1..width -> BOOLEAN] : Saga!AddParallel(comps))
      \/ (\E max \in {0, MaxIterations} : Saga!AddLoop(max)) \/ Saga!AddRoute \/ Saga!Start
  PROVE SagaIInv'
<1>t. SagaTyped /\ Entered /\ Owed /\ Saga!RolledBack /\ Saga!NothingStartsAfterFailure BY DEF SagaIInv, Saga!WorkflowInv
<1>0. sagaPc = "building" BY DEF Saga!AddStep, Saga!AddParallel, Saga!AddRoute, Saga!AddLoop, Saga!Build, Saga!Start
<1>e. \A n \in Saga!Entry : n[1] >= 1 /\ handler[n] = "idle" BY <1>0, <1>t, EntriesKnown DEF SagaTyped, Entered
<1>1. ASSUME NEW kind \in {"step", "parallel", "route", "loop"}, NEW comps \in Seq(BOOLEAN), NEW max \in Int,
             kind # "parallel" => DOMAIN comps = {1}, Saga!Build(kind, comps, max)
      PROVE SagaIInv'
  <2> DEFINE x == [type |-> kind, comps |-> comps, max |-> max]
  <2>1. /\ Len(plan) < MaxSteps /\ plan' = Append(plan, x)
        /\ UNCHANGED <<at, sagaPc, handler, iteration, results, completed, owing, compensated, failures>>
    BY <1>1 DEF Saga!Build
  <2>2. x \in SagaStep /\ x.type = kind /\ x.comps = comps BY DEF SagaStep
  <2> HIDE DEF x
  <2>3. plan' \in Seq(SagaStep) /\ Len(plan') = Len(plan) + 1 /\ \A i \in DOMAIN plan' : plan'[i] = IF i = Len(plan) + 1 THEN x ELSE plan[i]
    BY <1>t, <2>1, <2>2 DEF SagaTyped
  <2>4. \A i \in DOMAIN plan' : plan'[i].type # "parallel" => DOMAIN plan'[i].comps = {1}
    <3> SUFFICES ASSUME NEW i \in DOMAIN plan', plan'[i].type # "parallel" PROVE DOMAIN plan'[i].comps = {1} OBVIOUS
    <3>1. CASE i = Len(plan) + 1 BY <1>1, <2>2, <2>3, <3>1
    <3>2. CASE i # Len(plan) + 1
      <4>1. plan \in Seq(SagaStep) /\ \A k \in DOMAIN plan : plan[k].type # "parallel" => DOMAIN plan[k].comps = {1} BY <1>t DEF SagaTyped
      <4>2. i \in DOMAIN plan BY <2>3, <3>2, <4>1
      <4>3. plan'[i] = plan[i] BY <2>3, <3>2
      <4>. QED BY <4>1, <4>2, <4>3
    <3>. QED BY <3>1, <3>2
  <2>5. SagaTyped' BY <1>0, <1>t, <2>1, <2>3, <2>4 DEF SagaTyped
  <2>6. Entered' BY <1>0, <1>t, <2>1 DEF Entered
  <2>7. Owed' BY <1>0, <1>t, <2>1 DEF Owed
  <2>8. Saga!RolledBack' BY <1>0, <2>1 DEF Saga!RolledBack
  <2>9. Saga!NothingStartsAfterFailure'
    <3>1. at = 1 /\ results = {} BY <1>0, <1>e, <1>t DEF SagaTyped, Saga!NothingStartsAfterFailure
    <3>2. Saga!Declared' \subseteq Saga!Entry BY DEF Saga!Declared, Saga!Names
    <3>. QED BY <1>0, <1>e, <2>1, <3>1, <3>2 DEF Saga!NothingStartsAfterFailure
  <2>. QED BY <2>5, <2>6, <2>7, <2>8, <2>9 DEF SagaIInv, Saga!WorkflowInv
<1>2. ASSUME NEW c \in BOOLEAN, Saga!AddStep(c) PROVE SagaIInv'
  <2>1. <<c>> \in Seq(BOOLEAN) /\ DOMAIN <<c>> = {1} OBVIOUS
  <2>2. Saga!Build("step", <<c>>, 0) /\ 0 \in Int /\ "step" # "parallel" BY <1>2 DEF Saga!AddStep
  <2>. QED BY <1>1, <2>1, <2>2
<1>3. ASSUME NEW width \in 0..MaxWidth, NEW comps \in [1..width -> BOOLEAN], Saga!AddParallel(comps) PROVE SagaIInv'
  <2>1. comps \in Seq(BOOLEAN)
    <3>1. width \in Nat BY <1>3
    <3>. QED BY <3>1
  <2>. QED BY <1>1, <1>3, <2>1 DEF Saga!AddParallel
<1>4. ASSUME NEW max \in {0, MaxIterations}, Saga!AddLoop(max) PROVE SagaIInv'
  <2>1. <<FALSE>> \in Seq(BOOLEAN) /\ DOMAIN <<FALSE>> = {1} OBVIOUS
  <2>2. Saga!Build("loop", <<FALSE>>, max) /\ max \in Int BY <1>4 DEF Saga!AddLoop
  <2>. QED BY <1>1, <2>1, <2>2
<1>5. CASE Saga!AddRoute
  <2>1. <<FALSE>> \in Seq(BOOLEAN) /\ DOMAIN <<FALSE>> = {1} OBVIOUS
  <2>2. Saga!Build("route", <<FALSE>>, 0) /\ 0 \in Int /\ "route" # "parallel" BY <1>5 DEF Saga!AddRoute
  <2>. QED BY <1>1, <2>1, <2>2
<1>6. CASE Saga!Start
  <2>1. sagaPc' = "next" /\ UNCHANGED <<plan, at, handler, iteration, results, completed, owing, compensated, failures>>
    BY <1>6 DEF Saga!Start
  <2>2. SagaTyped' /\ Entered' /\ Owed' BY <1>0, <1>t, <2>1 DEF SagaTyped, Entered, Owed
  <2>3. Saga!RolledBack' BY <2>1 DEF Saga!RolledBack
  <2>4. Saga!NothingStartsAfterFailure'
    <3>1. at = 1 /\ results = {} BY <1>0, <1>e, <1>t DEF SagaTyped, Saga!NothingStartsAfterFailure
    <3>2. Saga!Declared' \subseteq Saga!Entry BY DEF Saga!Declared, Saga!Names
    <3>. QED BY <1>e, <2>1, <3>1, <3>2 DEF Saga!NothingStartsAfterFailure
  <2>. QED BY <2>2, <2>3, <2>4 DEF SagaIInv, Saga!WorkflowInv
<1>. QED BY <1>2, <1>3, <1>4, <1>5, <1>6

\* The step run() is at completes: its entries are done, or none was entered.
LEMMA CompleteKeeps == ASSUME SagaIInv, sagaPc \in {"next", "executing"}, at <= Len(plan), plan' = plan,
    handler' \in [Saga!Entry -> {"idle", "running", "done", "threw", "late"}],
    \A n \in Saga!Entry \ Saga!Names(at) : handler'[n] = handler[n],
    NEW W \in SUBSET Saga!Names(at), \A n \in Saga!Names(at) : handler'[n] = IF n \in W THEN "done" ELSE "idle",
    Saga!Complete(W)
  PROVE SagaIInv'
<1>t. SagaTyped /\ Entered /\ Owed /\ Saga!NothingStartsAfterFailure BY DEF SagaIInv, Saga!WorkflowInv
<1>0. /\ results' = results \cup W /\ completed' = Append(completed, at) /\ at' = at + 1 /\ sagaPc' = "next"
      /\ UNCHANGED <<owing, compensated, failures>>
  BY DEF Saga!Complete
<1>e. /\ \A n \in Saga!Entry : n[1] \in Int
      /\ \A n : n \in Saga!Names(at) <=> n \in Saga!Entry /\ n[1] = at /\ n[2] \in DOMAIN plan[at].comps
      /\ \A n \in Saga!Entry : n \in Saga!Declared <=> n[1] \in DOMAIN plan /\ n \in Saga!Names(n[1])
      /\ Saga!Declared \subseteq Saga!Entry /\ at \in DOMAIN plan /\ at \in Int
  BY <1>t, EntriesKnown DEF SagaTyped, Saga!Declared, Saga!Names
<1>d. Saga!Declared' = Saga!Declared BY DEF Saga!Declared, Saga!Names
<1>n. \A n \in Saga!Entry : n[1] = at => (n \in Saga!Names(at) \/ handler[n] = "idle")
  BY <1>e, <1>t DEF Saga!NothingStartsAfterFailure
<1>1. SagaTyped'
  <2>1. completed' \in Seq(Nat) /\ Len(completed') = at' - 1 /\ \A i \in DOMAIN completed' : completed'[i] = i
    BY <1>0, <1>t DEF SagaTyped
  <2>. QED BY <1>0, <1>t, <2>1 DEF SagaTyped
<1>2. \A n \in Saga!Entry : n[1] < at => handler'[n] = handler[n] BY <1>e
<1>3. \A n \in Saga!Entry : handler'[n] # "idle" => n \in Saga!Declared /\ n[1] < at + 1
  BY <1>e, <1>n, <1>t DEF Saga!NothingStartsAfterFailure
<1>4. \A n \in Saga!Entry : n[1] < at + 1 => handler'[n] \in {"done", "idle"}
  <2> SUFFICES ASSUME NEW n \in Saga!Entry, n[1] < at + 1 PROVE handler'[n] \in {"done", "idle"} OBVIOUS
  <2>1. CASE n[1] = at BY <1>e, <1>n, <2>1
  <2>2. CASE n[1] < at BY <1>2, <1>t, <2>2 DEF SagaTyped, Saga!NothingStartsAfterFailure
  <2>. QED BY <1>e, <2>1, <2>2
<1>5. results' = {n \in Saga!Entry : handler'[n] = "done" /\ n[1] < at + 1}
  <2>1. results = {n \in Saga!Entry : handler[n] = "done" /\ n[1] < at} BY <1>t DEF Saga!NothingStartsAfterFailure
  <2>2. ASSUME NEW n \in Saga!Entry PROVE n \in results' <=> handler'[n] = "done" /\ n[1] < at + 1
    <3>1. CASE n \in Saga!Names(at) BY <1>0, <1>e, <2>1, <3>1
    <3>2. CASE n \notin Saga!Names(at) BY <1>0, <1>e, <1>n, <2>1, <3>2
    <3>. QED BY <3>1, <3>2
  <2>3. results' \subseteq Saga!Entry BY <1>0, <1>e, <2>1
  <2>. QED BY <2>2, <2>3
<1>6. Saga!NothingStartsAfterFailure'
  <2>1. \A n \in Saga!Entry : handler'[n] # "idle" => n[1] <= at + 1 BY <1>3, <1>e
  <2>2. \A n \in Saga!Entry : handler'[n] \notin {"running", "late"}
    BY <1>3, <1>4
  <2>. QED BY <1>0, <1>3, <1>4, <1>5, <1>d, <1>e, <2>1, <2>2 DEF Saga!NothingStartsAfterFailure
<1>7. Entered' BY <1>0, <1>3 DEF Entered
<1>8. Owed' /\ Saga!RolledBack' BY <1>0, <1>t DEF Owed, Saga!RolledBack
<1>. QED BY <1>1, <1>6, <1>7, <1>8 DEF SagaIInv, Saga!WorkflowInv

\* The step run() is at fails: of its entries only siblings in a parallel step still run.
LEMMA FailKeeps == ASSUME MaxSteps \in Nat, SagaIInv, sagaPc \in {"next", "executing"}, at <= Len(plan), plan' = plan,
    handler' \in [Saga!Entry -> {"idle", "running", "done", "threw", "late"}],
    \A n \in Saga!Entry \ Saga!Names(at) : handler'[n] = handler[n],
    plan[at].type # "parallel" => \A n \in Saga!Names(at) : handler'[n] \notin {"running", "late"},
    Saga!Fail
  PROVE SagaIInv'
<1>t. SagaTyped /\ Entered /\ Owed /\ Saga!NothingStartsAfterFailure BY DEF SagaIInv, Saga!WorkflowInv
<1>0. sagaPc' = "compensating" /\ owing' = Saga!Rollback(completed) /\ UNCHANGED <<at, results, completed, compensated, failures>>
  BY DEF Saga!Fail
<1>e. /\ \A n \in Saga!Entry : n[1] \in 1..MaxSteps /\ n[2] \in 1..MaxWidth /\ n = <<n[1], n[2]>>
      /\ \A n : n \in Saga!Names(at) <=> n \in Saga!Entry /\ n[1] = at /\ n[2] \in DOMAIN plan[at].comps
      /\ \A n \in Saga!Entry : n \in Saga!Declared <=> n[1] \in DOMAIN plan /\ n \in Saga!Names(n[1])
      /\ Saga!Declared \subseteq Saga!Entry /\ at \in DOMAIN plan /\ at \in Int /\ DOMAIN plan = 1..Len(plan)
  BY <1>t, EntriesKnown DEF SagaTyped, Saga!Declared, Saga!Names
<1>d. Saga!Declared' = Saga!Declared /\ ToCompensate' = ToCompensate
  BY <1>0 DEF Saga!Declared, Saga!Names, ToCompensate, Saga!Compensable, Saga!CompensatorsFor
<1>1. SagaTyped' BY <1>0, <1>t DEF SagaTyped
<1>2. owing' = ToCompensate
  <2>1. DOMAIN completed = 1..(at - 1) /\ \A i \in DOMAIN completed : completed[i] = i BY <1>t DEF SagaTyped
  <2>2. at - 1 <= MaxSteps /\ at - 1 \in Nat BY <1>t DEF SagaTyped
  <2>3. ASSUME NEW i, NEW j PROVE <<i, j>> \in Saga!Rollback(completed) <=> <<i, j>> \in ToCompensate
    <3>1. <<i, j>> \in Saga!Rollback(completed) <=> i \in 1..(at - 1) /\ j \in 1..MaxWidth /\ j \in Saga!CompensatorsFor(plan[i])
      BY <2>1 DEF Saga!Rollback
    <3>2. <<i, j>> \in ToCompensate <=> <<i, j>> \in Saga!Entry /\ i < at /\ <<i, j>> \in Saga!Declared /\ j \in Saga!CompensatorsFor(plan[i])
      BY DEF ToCompensate, Saga!Compensable
    <3>3. <<i, j>> \in Saga!Entry <=> i \in 1..MaxSteps /\ j \in 1..MaxWidth BY DEF Saga!Entry
    <3>4. j \in Saga!CompensatorsFor(plan[i]) => j \in DOMAIN plan[i].comps BY DEF Saga!CompensatorsFor
    <3>5. <<i, j>> \in Saga!Entry /\ i \in DOMAIN plan /\ j \in DOMAIN plan[i].comps => <<i, j>> \in Saga!Declared
      BY <1>e DEF Saga!Names
    <3>6. i \in 1..(at - 1) => i \in 1..MaxSteps /\ i \in DOMAIN plan /\ i < at BY <1>e, <2>2
    <3>7. i \in 1..MaxSteps /\ i < at => i \in 1..(at - 1) BY <1>e
    <3>. QED BY <3>1, <3>2, <3>3, <3>4, <3>5, <3>6, <3>7
  <2>4. \A c \in Saga!Rollback(completed) : c = <<c[1], c[2]>> BY DEF Saga!Rollback
  <2>5. \A c \in ToCompensate : c = <<c[1], c[2]>> BY <1>e DEF ToCompensate
  <2>6. \A c : c \in Saga!Rollback(completed) => c \in ToCompensate
    BY <2>3, <2>4
  <2>7. \A c : c \in ToCompensate => c \in Saga!Rollback(completed)
    BY <2>3, <2>5
  <2>. QED BY <1>0, <2>6, <2>7
<1>3. Owed' BY <1>0, <1>2, <1>d, <1>t DEF Owed
<1>4. Saga!NothingStartsAfterFailure'
  <2>1. \A n \in Saga!Entry : n[1] < at => handler'[n] = handler[n] BY <1>e
  <2>2. \A n \in Saga!Entry : handler'[n] # "idle" => n \in Saga!Declared /\ n[1] <= at
    BY <1>e, <1>t DEF Saga!NothingStartsAfterFailure
  <2>3. \A n \in Saga!Declared : n[1] < at => handler'[n] \in {"done", "idle"} BY <1>e, <1>t, <2>1 DEF Saga!NothingStartsAfterFailure
  <2>4. results = {n \in Saga!Entry : handler'[n] = "done" /\ n[1] < at} BY <1>t, <2>1 DEF Saga!NothingStartsAfterFailure
  <2>5. ASSUME NEW n \in Saga!Entry, handler'[n] \in {"running", "late"} PROVE n[1] = at /\ plan[at].type = "parallel"
    <3>1. n \in Saga!Declared /\ n[1] <= at BY <2>2, <2>5
    <3>2. n[1] = at BY <1>e, <2>3, <2>5, <3>1
    <3>. QED BY <1>e, <2>5, <3>1, <3>2
  <2>. QED BY <1>0, <1>d, <2>2, <2>3, <2>4, <2>5 DEF Saga!NothingStartsAfterFailure, Saga!Step
<1>5. Entered' /\ Saga!RolledBack' BY <1>0 DEF Entered, Saga!RolledBack
<1>. QED BY <1>1, <1>3, <1>4, <1>5 DEF SagaIInv, Saga!WorkflowInv

\* run() enters a step, and its handlers return or throw.
LEMMA RunKeeps == ASSUME MaxSteps \in Nat, SagaIInv,
    Saga!Execute \/ (\E n \in Saga!Entry : Saga!Returns(n) \/ Saga!Iterates(n) \/ Saga!Throws(n) \/ Saga!Straggles(n))
  PROVE SagaIInv'
<1>t. SagaTyped /\ Entered /\ Owed /\ Saga!RolledBack /\ Saga!NothingStartsAfterFailure BY DEF SagaIInv, Saga!WorkflowInv
<1>e. /\ \A n \in Saga!Entry : n[1] \in 1..MaxSteps /\ n[2] \in 1..MaxWidth /\ n = <<n[1], n[2]>>
      /\ \A i \in DOMAIN plan : \A n : n \in Saga!Names(i) <=> n \in Saga!Entry /\ n[1] = i /\ n[2] \in DOMAIN plan[i].comps
      /\ \A n \in Saga!Entry : n \in Saga!Declared <=> n[1] \in DOMAIN plan /\ n \in Saga!Names(n[1])
      /\ Saga!Declared \subseteq Saga!Entry /\ at \in Nat \ {0} /\ DOMAIN plan = 1..Len(plan) /\ Len(plan) \in Nat
  BY <1>t, EntriesKnown DEF SagaTyped, Saga!Declared, Saga!Names
<1>i. sagaPc = "next" => \A n \in Saga!Names(at) : handler[n] = "idle"
  BY <1>t, <1>e DEF Entered, Saga!Names
<1>p. sagaPc = "executing" => at \in DOMAIN plan /\ (plan[at].type # "parallel" => \A n, m \in Saga!Names(at) : n = m)
  <2> SUFFICES ASSUME sagaPc = "executing" PROVE at \in DOMAIN plan /\ (plan[at].type # "parallel" => \A n, m \in Saga!Names(at) : n = m)
    OBVIOUS
  <2>1. at \in DOMAIN plan BY <1>e, <1>t DEF SagaTyped
  <2>2. plan[at].type # "parallel" => DOMAIN plan[at].comps = {1} BY <1>t, <2>1 DEF SagaTyped
  <2>3. \A n \in Saga!Names(at) : n = <<at, n[2]>> /\ n[2] \in DOMAIN plan[at].comps BY <1>e, <2>1
  <2>. QED BY <2>1, <2>2, <2>3
<1>1. CASE Saga!Execute
  <2>0. sagaPc = "next" /\ at <= Len(plan) /\ plan' = plan BY <1>1 DEF Saga!Execute
  <2>d. at \in DOMAIN plan BY <1>e, <2>0
  <2>1. CASE Saga!Enter(Saga!Names(at)) /\ sagaPc' = "executing" /\ UNCHANGED <<at, results, completed, owing, compensated, failures>>
    <3>1. handler' = [n \in Saga!Entry |-> IF n \in Saga!Names(at) THEN "running" ELSE handler[n]] BY <2>1 DEF Saga!Enter
    <3>2. SagaTyped' BY <1>t, <2>0, <2>1, <3>1 DEF SagaTyped
    <3>3. Entered'
      <4>1. Saga!Names(at)' = Saga!Names(at) BY <2>0, <2>1 DEF Saga!Names
      <4>2. \A n \in Saga!Names(at) : handler'[n] = "running" BY <1>e, <2>d, <3>1
      <4>. QED BY <2>1, <4>1, <4>2 DEF Entered
    <3>4. Owed' /\ Saga!RolledBack' BY <1>t, <2>0, <2>1 DEF Owed, Saga!RolledBack
    <3>5. Saga!NothingStartsAfterFailure'
      <4>1. Saga!Declared' = Saga!Declared BY <2>0 DEF Saga!Declared, Saga!Names
      <4>2. \A n \in Saga!Entry : n \in Saga!Names(at) => n \in Saga!Declared /\ n[1] = at BY <1>e, <2>d
      <4>3. \A n \in Saga!Entry : handler'[n] # "idle" => n \in Saga!Declared /\ n[1] <= at
        BY <1>e, <1>t, <3>1, <4>2 DEF Saga!NothingStartsAfterFailure
      <4>4. \A n \in Saga!Entry : n[1] < at => handler'[n] = handler[n] BY <1>e, <3>1, <4>2
      <4>5. results = {n \in Saga!Entry : handler'[n] = "done" /\ n[1] < at} BY <1>t, <4>4 DEF Saga!NothingStartsAfterFailure
      <4>6. \A n \in Saga!Declared : n[1] < at => handler'[n] \in {"done", "idle"} BY <1>e, <1>t, <4>4 DEF Saga!NothingStartsAfterFailure
      <4>. QED BY <2>1, <4>1, <4>3, <4>5, <4>6 DEF Saga!NothingStartsAfterFailure
    <3>. QED BY <3>2, <3>3, <3>4, <3>5 DEF SagaIInv, Saga!WorkflowInv
  <2>2. CASE handler' = handler /\ Saga!Complete({})
    <3>1. \A n \in Saga!Names(at) : handler'[n] = IF n \in {} THEN "done" ELSE "idle" BY <1>i, <2>0, <2>2
    <3>. QED BY <1>t, <2>0, <2>2, <3>1, CompleteKeeps DEF SagaTyped
  <2>3. CASE handler' = handler /\ Saga!Fail BY <1>i, <1>t, <2>0, <2>3, FailKeeps DEF SagaTyped
  <2>. QED BY <1>1, <2>1, <2>2, <2>3 DEF Saga!Execute
<1>2. ASSUME NEW n \in Saga!Entry, Saga!Returns(n) PROVE SagaIInv'
  <2>0. /\ handler[n] = "running" /\ plan' = plan /\ sagaPc = "executing" /\ n \in Saga!Names(at)
        /\ handler' = [handler EXCEPT ![n] = "done"]
    BY <1>2 DEF Saga!Returns, Saga!Running, Saga!Awaited
  <2>1. /\ handler' \in [Saga!Entry -> {"idle", "running", "done", "threw", "late"}]
        /\ \A m \in Saga!Entry : handler'[m] = IF m = n THEN "done" ELSE handler[m]
    BY <1>t, <2>0 DEF SagaTyped
  <2>2. CASE (\A m \in Saga!Names(at) \ {n} : handler[m] = "done") /\ Saga!Complete(Saga!Names(at))
    <3>1. \A m \in Saga!Names(at) : handler'[m] = IF m \in Saga!Names(at) THEN "done" ELSE "idle" BY <1>e, <1>p, <2>0, <2>1, <2>2
    <3>. QED BY <1>t, <2>0, <2>1, <2>2, <3>1, CompleteKeeps DEF SagaTyped
  <2>3. CASE UNCHANGED <<at, sagaPc, results, completed, owing, compensated, failures>>
    <3>1. SagaTyped' BY <1>t, <2>0, <2>1, <2>3 DEF SagaTyped
    <3>2. Entered'
      <4>1. Saga!Names(at)' = Saga!Names(at) BY <2>0, <2>3 DEF Saga!Names
      <4>. QED BY <1>e, <1>p, <1>t, <2>0, <2>1, <2>3, <4>1 DEF Entered
    <3>3. Owed' /\ Saga!RolledBack' BY <1>t, <2>0, <2>3 DEF Owed, Saga!RolledBack
    <3>4. Saga!NothingStartsAfterFailure'
      <4>1. Saga!Declared' = Saga!Declared BY <2>0 DEF Saga!Declared, Saga!Names
      <4>2. n[1] = at BY <1>e, <1>p, <2>0
      <4>3. \A m \in Saga!Entry : m[1] < at => handler'[m] = handler[m] BY <1>e, <2>1, <4>2
      <4>4. results = {m \in Saga!Entry : handler'[m] = "done" /\ m[1] < at} BY <1>t, <4>3 DEF Saga!NothingStartsAfterFailure
      <4>5. \A m \in Saga!Declared : m[1] < at => handler'[m] \in {"done", "idle"} BY <1>e, <1>t, <4>3 DEF Saga!NothingStartsAfterFailure
      <4>6. \A m \in Saga!Entry : handler'[m] # "idle" => m \in Saga!Declared /\ m[1] <= at
        BY <1>t, <2>0, <2>1 DEF Saga!NothingStartsAfterFailure
      <4>. QED BY <2>0, <2>3, <4>1, <4>4, <4>5, <4>6 DEF Saga!NothingStartsAfterFailure
    <3>. QED BY <3>1, <3>2, <3>3, <3>4 DEF SagaIInv, Saga!WorkflowInv
  <2>. QED BY <1>2, <2>2, <2>3 DEF Saga!Returns
<1>3. ASSUME NEW n \in Saga!Entry, Saga!Iterates(n) PROVE SagaIInv'
  <2>0. handler[n] = "running" /\ plan' = plan /\ sagaPc = "executing" /\ n \in Saga!Names(at) /\ plan[at].type = "loop"
    BY <1>3 DEF Saga!Iterates, Saga!Running, Saga!Awaited, Saga!Step
  <2>1. CASE handler' = [handler EXCEPT ![n] = "done"] /\ Saga!Complete(Saga!Names(at))
    <3>1. /\ handler' \in [Saga!Entry -> {"idle", "running", "done", "threw", "late"}]
          /\ \A m \in Saga!Entry : handler'[m] = IF m = n THEN "done" ELSE handler[m]
      BY <1>t, <2>1 DEF SagaTyped
    <3>2. \A m \in Saga!Names(at) : m = n BY <1>p, <2>0
    <3>3. \A m \in Saga!Names(at) : handler'[m] = IF m \in Saga!Names(at) THEN "done" ELSE "idle" BY <3>1, <3>2
    <3>. QED BY <1>t, <2>0, <2>1, <3>1, <3>3, CompleteKeeps DEF SagaTyped
  <2>2. CASE UNCHANGED <<handler, at, sagaPc, results, completed, owing, compensated, failures>>
    BY <1>t, <2>0, <2>2 DEF SagaIInv, SagaTyped, Entered, Owed, ToCompensate, Saga!WorkflowInv, Saga!RolledBack, Saga!NothingStartsAfterFailure,
       Saga!Names, Saga!Declared, Saga!Compensable, Saga!CompensatorsFor, Saga!Step, Saga!Before
  <2>. QED BY <1>3, <2>1, <2>2 DEF Saga!Iterates
<1>4. ASSUME NEW n \in Saga!Entry, Saga!Throws(n) PROVE SagaIInv'
  <2>0. /\ handler[n] = "running" /\ plan' = plan /\ sagaPc = "executing" /\ n \in Saga!Names(at)
        /\ handler' = [handler EXCEPT ![n] = "threw"] /\ Saga!Fail
    BY <1>4 DEF Saga!Throws, Saga!Running, Saga!Awaited
  <2>1. /\ handler' \in [Saga!Entry -> {"idle", "running", "done", "threw", "late"}]
        /\ \A m \in Saga!Entry : handler'[m] = IF m = n THEN "threw" ELSE handler[m]
    BY <1>t, <2>0 DEF SagaTyped
  <2>2. plan[at].type # "parallel" => \A m \in Saga!Names(at) : handler'[m] \notin {"running", "late"} BY <1>e, <1>p, <2>0, <2>1
  <2>. QED BY <1>t, <2>0, <2>1, <2>2, FailKeeps DEF SagaTyped
<1>5. ASSUME NEW n \in Saga!Entry, Saga!Straggles(n) PROVE SagaIInv'
  <2>0. /\ handler[n] = "running" /\ plan' = plan /\ ~(sagaPc = "executing" /\ n \in Saga!Names(at))
        /\ UNCHANGED <<at, sagaPc, results, completed, owing, compensated, failures>>
    BY <1>5 DEF Saga!Straggles, Saga!Running, Saga!Awaited
  <2>1. PICK end \in {"late", "threw"} : handler' = [handler EXCEPT ![n] = end] BY <1>5 DEF Saga!Straggles
  <2>2. /\ handler' \in [Saga!Entry -> {"idle", "running", "done", "threw", "late"}]
        /\ \A m \in Saga!Entry : handler'[m] = IF m = n THEN end ELSE handler[m]
    BY <1>t, <2>1 DEF SagaTyped
  <2>3. n \in Saga!Declared /\ n[1] = at
    <3>1. n \in Saga!Declared /\ n[1] <= at BY <1>t, <2>0 DEF Saga!NothingStartsAfterFailure
    <3>2. ~(n[1] < at) BY <1>t, <2>0, <3>1 DEF Saga!NothingStartsAfterFailure
    <3>. QED BY <1>e, <3>1, <3>2
  <2>4. sagaPc \notin {"executing", "building", "next"} /\ plan[at].type = "parallel"
    <3>1. n \in Saga!Names(at) BY <1>e, <2>3
    <3>2. sagaPc # "executing" BY <2>0, <3>1
    <3>3. sagaPc \notin {"building", "next"} BY <1>e, <1>t, <2>0, <2>3 DEF Entered
    <3>. QED BY <1>t, <2>0, <3>2, <3>3 DEF Saga!NothingStartsAfterFailure, Saga!Step
  <2>5. SagaTyped' BY <1>t, <2>0, <2>2 DEF SagaTyped
  <2>6. Entered' BY <2>0, <2>4 DEF Entered
  <2>7. ToCompensate' = ToCompensate
    BY <2>0 DEF ToCompensate, Saga!Names, Saga!Declared, Saga!Compensable, Saga!CompensatorsFor
  <2>8. Owed' BY <1>t, <2>0, <2>7 DEF Owed, Saga!Before
  <2>9. Saga!RolledBack'
    <3>1. \A m : Saga!Compensable(m)' <=> Saga!Compensable(m)
      BY <2>0 DEF Saga!Names, Saga!Declared, Saga!Compensable, Saga!CompensatorsFor
    <3>. QED BY <1>t, <2>0, <3>1 DEF Saga!RolledBack
  <2>10. Saga!NothingStartsAfterFailure'
    <3>1. Saga!Declared' = Saga!Declared BY <2>0 DEF Saga!Declared, Saga!Names
    <3>2. \A m \in Saga!Entry : m[1] < at => handler'[m] = handler[m] BY <1>e, <2>2, <2>3
    <3>3. results = {m \in Saga!Entry : handler'[m] = "done" /\ m[1] < at} BY <1>t, <3>2 DEF Saga!NothingStartsAfterFailure
    <3>4. \A m \in Saga!Declared : m[1] < at => handler'[m] \in {"done", "idle"} BY <1>e, <1>t, <3>2 DEF Saga!NothingStartsAfterFailure
    <3>5. \A m \in Saga!Entry : handler'[m] # "idle" => m \in Saga!Declared /\ m[1] <= at
      BY <1>t, <2>0, <2>2 DEF Saga!NothingStartsAfterFailure
    <3>6. \A m \in Saga!Entry : handler'[m] \in {"running", "late"} => m[1] = at /\ plan[at].type = "parallel"
      BY <1>t, <2>0, <2>2, <2>3, <2>4 DEF Saga!NothingStartsAfterFailure, Saga!Step
    <3>. QED BY <2>0, <3>1, <3>3, <3>4, <3>5, <3>6 DEF Saga!NothingStartsAfterFailure, Saga!Step
  <2>. QED BY <2>5, <2>6, <2>8, <2>9, <2>10 DEF SagaIInv, Saga!WorkflowInv
<1>. QED BY <1>1, <1>2, <1>3, <1>4, <1>5

\* A compensator is called; the run settles, or rests.
LEMMA RollbackKeeps == ASSUME MaxSteps \in Nat, SagaIInv, Saga!Compensate \/ Saga!Settle \/ Saga!Rest PROVE SagaIInv'
<1>t. SagaTyped /\ Entered /\ Owed /\ Saga!RolledBack /\ Saga!NothingStartsAfterFailure BY DEF SagaIInv, Saga!WorkflowInv
<1>e. \A n \in Saga!Entry : n[1] \in 1..MaxSteps /\ n[2] \in 1..MaxWidth /\ n = <<n[1], n[2]>>
  BY <1>t, EntriesKnown
<1>s. ASSUME UNCHANGED <<plan, at, handler, results>>, sagaPc' = sagaPc \/ (sagaPc # "executing" /\ sagaPc' \in {"compensating", "returned", "failed", "stuck"})
      PROVE /\ Saga!NothingStartsAfterFailure' /\ ToCompensate' = ToCompensate /\ Entered'
            /\ \A n : Saga!Compensable(n)' <=> Saga!Compensable(n)
  <2>1. \A n : Saga!Compensable(n)' <=> Saga!Compensable(n)
    BY <1>s DEF Saga!Names, Saga!Declared, Saga!Compensable, Saga!CompensatorsFor
  <2>2. ToCompensate' = ToCompensate BY <1>s, <2>1 DEF ToCompensate
  <2>3. Saga!Declared' = Saga!Declared BY <1>s DEF Saga!Declared, Saga!Names
  <2>4. Saga!NothingStartsAfterFailure' BY <1>s, <1>t, <2>3 DEF Saga!NothingStartsAfterFailure, Saga!Step
  <2>5. Entered' BY <1>s, <1>t DEF Entered, Saga!Names
  <2>. QED BY <2>1, <2>2, <2>4, <2>5
<1>1. CASE Saga!Compensate
  <2>1. PICK c \in owing :
          /\ sagaPc = "compensating" /\ \A d \in owing \ {c} : Saga!Before(c, d)
          /\ compensated' = Append(compensated, <<completed[c[1]], c[2]>>) /\ owing' = owing \ {c}
          /\ UNCHANGED <<plan, at, sagaPc, handler, iteration, results, completed>>
    BY <1>1 DEF Saga!Compensate
  <2>2. c \in ToCompensate /\ c \in Saga!Entry /\ <<completed[c[1]], c[2]>> = c
    <3>1. c \in ToCompensate BY <1>t, <2>1 DEF Owed
    <3>2. c \in Saga!Entry /\ c[1] < at BY <3>1 DEF ToCompensate
    <3>3. c[1] \in DOMAIN completed BY <1>e, <1>t, <3>2 DEF SagaTyped
    <3>. QED BY <1>e, <1>t, <3>1, <3>2, <3>3 DEF SagaTyped
  <2>3. /\ compensated' \in Seq(Saga!Entry) /\ DOMAIN compensated = 1..Len(compensated) /\ Len(compensated) \in Nat
        /\ DOMAIN compensated' = 1..(Len(compensated) + 1) /\ compensated'[Len(compensated) + 1] = c
        /\ \A i \in DOMAIN compensated : compensated'[i] = compensated[i]
    <3>1. compensated \in Seq(Saga!Entry) BY <1>t DEF Owed
    <3>2. compensated' = Append(compensated, c) BY <2>1, <2>2
    <3>. QED BY <2>2, <3>1, <3>2
  <2>4. Saga!NothingStartsAfterFailure' /\ ToCompensate' = ToCompensate /\ Entered' BY <1>s, <2>1
  <2>5. SagaTyped' BY <1>t, <2>1 DEF SagaTyped
  <2>6. Owed'
    <3>1. \A n \in ToCompensate : n \in owing' \/ \E i \in DOMAIN compensated' : compensated'[i] = n
      <4> SUFFICES ASSUME NEW n \in ToCompensate, n \notin owing' PROVE \E i \in DOMAIN compensated' : compensated'[i] = n OBVIOUS
      <4>1. CASE n = c BY <2>3, <4>1
      <4>2. CASE n # c
        <5>1. PICK i \in DOMAIN compensated : compensated[i] = n BY <1>t, <2>1, <4>2 DEF Owed
        <5>. QED BY <2>3, <5>1
      <4>. QED BY <4>1, <4>2
    <3>2. \A i \in DOMAIN compensated' : compensated'[i] \in ToCompensate
      <4> SUFFICES ASSUME NEW i \in DOMAIN compensated' PROVE compensated'[i] \in ToCompensate OBVIOUS
      <4>1. CASE i \in DOMAIN compensated
        <5>1. compensated[i] \in ToCompensate BY <1>t, <2>1, <4>1 DEF Owed
        <5>2. compensated'[i] = compensated[i] BY <2>3, <4>1
        <5>. QED BY <5>1, <5>2
      <4>2. CASE i = Len(compensated) + 1 BY <2>2, <2>3, <4>2
      <4>3. i \in DOMAIN compensated \/ i = Len(compensated) + 1 BY <2>3
      <4>. QED BY <4>1, <4>2, <4>3
    <3>3. \A i, j \in DOMAIN compensated' : i < j => Saga!Before(compensated'[i], compensated'[j])
      <4> SUFFICES ASSUME NEW i \in DOMAIN compensated', NEW j \in DOMAIN compensated', i < j PROVE Saga!Before(compensated'[i], compensated'[j])
        OBVIOUS
      <4>1. i \in DOMAIN compensated BY <2>3
      <4>2. CASE j \in DOMAIN compensated BY <1>t, <2>1, <2>3, <4>1, <4>2 DEF Owed
      <4>3. CASE j = Len(compensated) + 1 BY <1>t, <2>1, <2>3, <4>1, <4>3 DEF Owed
      <4>. QED BY <2>3, <4>2, <4>3
    <3>4. \A i \in DOMAIN compensated' : \A d \in owing' : Saga!Before(compensated'[i], d)
      <4> SUFFICES ASSUME NEW i \in DOMAIN compensated', NEW d \in owing' PROVE Saga!Before(compensated'[i], d) OBVIOUS
      <4>1. CASE i \in DOMAIN compensated
        <5>1. \A k \in DOMAIN compensated : \A x \in owing : Saga!Before(compensated[k], x) BY <1>t, <2>1 DEF Owed
        <5>2. Saga!Before(compensated[i], d) BY <2>1, <4>1, <5>1
        <5>. QED BY <2>3, <4>1, <5>2
      <4>2. CASE i = Len(compensated) + 1 BY <2>1, <2>3, <4>2
      <4>3. i \in DOMAIN compensated \/ i = Len(compensated) + 1 BY <2>3
      <4>. QED BY <4>1, <4>2, <4>3
    <3>5. \A x, y : Saga!Before(x, y)' <=> Saga!Before(x, y) BY DEF Saga!Before
    <3>6. owing' \subseteq ToCompensate BY <1>t, <2>1 DEF Owed
    <3>. QED BY <2>1, <2>3, <2>4, <3>1, <3>2, <3>3, <3>4, <3>5, <3>6 DEF Owed
  <2>7. Saga!RolledBack' BY <2>1 DEF Saga!RolledBack
  <2>. QED BY <2>4, <2>5, <2>6, <2>7 DEF SagaIInv, Saga!WorkflowInv
<1>2. CASE Saga!Settle
  <2>1. /\ \/ sagaPc = "next" /\ at > Len(plan) /\ sagaPc' = "returned"
           \/ sagaPc = "compensating" /\ owing = {} /\ sagaPc' = IF failures = {} THEN "failed" ELSE "stuck"
        /\ UNCHANGED <<plan, at, handler, iteration, results, completed, owing, compensated, failures>>
    BY <1>2 DEF Saga!Settle
  <2>2. /\ Saga!NothingStartsAfterFailure' /\ ToCompensate' = ToCompensate /\ Entered'
        /\ \A n : Saga!Compensable(n)' <=> Saga!Compensable(n)
    BY <1>s, <2>1
  <2>3. SagaTyped' BY <1>t, <2>1 DEF SagaTyped
  <2>4. Owed' BY <1>t, <2>1 DEF Owed
  <2>5. Saga!RolledBack'
    <3>1. CASE sagaPc = "next" BY <2>1, <3>1 DEF Saga!RolledBack
    <3>2. CASE sagaPc = "compensating" /\ owing = {}
      <4>1. {compensated[i] : i \in DOMAIN compensated} = ToCompensate BY <1>t, <3>2 DEF Owed
      <4>2. \A i, j \in DOMAIN compensated : i < j =>
              compensated[i][1] > compensated[j][1] \/ (compensated[i][1] = compensated[j][1] /\ compensated[i][2] < compensated[j][2])
        BY <1>t, <3>2 DEF Owed, Saga!Before
      <4>3. ToCompensate = {n \in Saga!Entry : Saga!Compensable(n)' /\ n[1] < at} BY <2>2 DEF ToCompensate
      <4>4. (sagaPc' = "stuck") = (failures # {}) BY <2>1, <3>2
      <4>. QED BY <2>1, <4>1, <4>2, <4>3, <4>4 DEF Saga!RolledBack
    <3>. QED BY <2>1, <3>1, <3>2
  <2>. QED BY <2>2, <2>3, <2>4, <2>5 DEF SagaIInv, Saga!WorkflowInv
<1>3. CASE Saga!Rest
  <2>1. UNCHANGED <<plan, at, sagaPc, handler, iteration, results, completed, owing, compensated, failures>>
    BY <1>3 DEF Saga!Rest, Saga!vars
  <2>2. /\ Saga!NothingStartsAfterFailure' /\ ToCompensate' = ToCompensate /\ Entered'
        /\ \A n : Saga!Compensable(n)' <=> Saga!Compensable(n)
    BY <1>s, <2>1
  <2>3. SagaTyped' BY <1>t, <2>1 DEF SagaTyped
  <2>4. Owed' BY <1>t, <2>1, <2>2 DEF Owed, Saga!Before
  <2>5. Saga!RolledBack' BY <1>t, <2>1, <2>2 DEF Saga!RolledBack
  <2>. QED BY <2>2, <2>3, <2>4, <2>5 DEF SagaIInv, Saga!WorkflowInv
<1>. QED BY <1>1, <1>2, <1>3

\* Each step keeps the invariant.
LEMMA SagaKept == ASSUME MaxSteps \in Nat, MaxWidth \in Nat, MaxIterations \in Nat, SagaIInv, [Saga!Next]_sagaVars PROVE SagaIInv'
<1>1. CASE Saga!Next BY <1>1, BuildKeeps, RunKeeps, RollbackKeeps DEF Saga!Next
<1>2. CASE UNCHANGED sagaVars
  <2>1. UNCHANGED <<plan, at, sagaPc, handler, iteration, results, completed, owing, compensated, failures>>
    BY <1>2 DEF sagaVars
  <2>2. ToCompensate' = ToCompensate /\ \A n : Saga!Compensable(n)' <=> Saga!Compensable(n)
    BY <2>1 DEF ToCompensate, Saga!Names, Saga!Declared, Saga!Compensable, Saga!CompensatorsFor
  <2>3. SagaTyped' /\ Entered' BY <2>1 DEF SagaIInv, SagaTyped, Entered, Saga!Names
  <2>4. Owed' BY <2>1, <2>2 DEF SagaIInv, Owed, Saga!Before
  <2>5. Saga!RolledBack' BY <2>1, <2>2 DEF SagaIInv, Saga!WorkflowInv, Saga!RolledBack
  <2>6. Saga!Declared' = Saga!Declared BY <2>1 DEF Saga!Declared, Saga!Names
  <2>7. Saga!NothingStartsAfterFailure' BY <2>1, <2>6 DEF SagaIInv, Saga!WorkflowInv, Saga!NothingStartsAfterFailure, Saga!Step
  <2>. QED BY <2>3, <2>4, <2>5, <2>7 DEF SagaIInv, Saga!WorkflowInv
<1>. QED BY <1>1, <1>2

\* Workflow.run: for any plan of steps, whichever of them fails, what had completed is
\* compensated, last first, and nothing else.
THEOREM SagasCompensate ==
  ASSUME MaxSteps \in Nat, MaxWidth \in Nat, MaxIterations \in Nat
  PROVE  Saga!Init /\ [][Saga!Next]_sagaVars => []Saga!WorkflowInv
<1>1. Saga!Init => SagaIInv BY SagaStarts
<1>2. SagaIInv /\ [Saga!Next]_sagaVars => SagaIInv' BY SagaKept
<1>3. SagaIInv => Saga!WorkflowInv BY DEF SagaIInv
<1>. QED BY <1>1, <1>2, <1>3, PTL

(***************************************************************************)
(* State machines on rows.                                                 *)
(***************************************************************************)
\* What the field may hold.
Values == States \cup {Transitions[t].to : t \in DOMAIN Transitions}
MachineCall == [pc : {"idle", "guard", "set", "effect", "update", "emit", "end"}, copy : Copy \cup {None},
                name : DOMAIN Transitions \cup {None}, from : Values \cup {None}, seen : Nat, clean : BOOLEAN, unit : BOOLEAN]
MachineTyped ==
    /\ history \in Seq(Values) /\ current \in DOMAIN history /\ before \in DOMAIN history
    /\ copy \in [Copy -> [state : Values, seen : Nat, ahead : BOOLEAN]] /\ \A c \in Copy : copy[c].seen \in DOMAIN history
    /\ clerk \in [Clerk -> MachineCall]
    /\ \A a \in Clerk : clerk[a].pc # "idle" =>
         clerk[a].copy \in Copy /\ clerk[a].name \in DOMAIN Transitions /\ clerk[a].seen \in DOMAIN history
    /\ \A w \in rowWrites : w.at \in DOMAIN history
    /\ \A e \in emitted : e.at \in DOMAIN history

\* What a call goes by is what it checked, whatever happened since.
CheckedStands ==
    \A a \in Clerk : clerk[a].pc \in {"guard", "set", "effect", "update"} =>
        /\ clerk[a].from \in Transitions[clerk[a].name].from
        /\ clerk[a].clean => clerk[a].from = history[clerk[a].seen]

\* Outside a unit a write stands once it is made, for nobody else's rollback takes it back:
\* the write a rollback takes back is the last, and its scope's own.
WritesStand ==
    /\ \A a \in Clerk : clerk[a].pc = "emit" /\ ~clerk[a].unit =>
         /\ \E w \in rowWrites : w.at = clerk[a].seen /\ w.name = clerk[a].name
         /\ open # None => clerk[a].seen # current
    /\ \A e \in emitted : ~e.unit => (open # None => e.at # current)
    /\ open # None => open \in Clerk /\ clerk[open].unit /\ clerk[open].pc \in {"emit", "end"}

MachineIInv == MachineTyped /\ CheckedStands /\ WritesStand /\ Machine!StatefulInv

\* At first every copy shows the row.
LEMMA MachineStarts == Machine!Init => MachineIInv
<1> SUFFICES ASSUME Machine!Init PROVE MachineIInv OBVIOUS
<1>1. PICK s \in States : history = <<s>> BY DEF Machine!Init
<1>2. history \in Seq(Values) /\ DOMAIN history = {1} /\ history[1] = s BY <1>1 DEF Values
<1>3. copy = [c \in Copy |-> [state |-> s, seen |-> 1, ahead |-> FALSE]] BY <1>2 DEF Machine!Init, Machine!Row
<1>4. copy \in [Copy -> [state : Values, seen : Nat, ahead : BOOLEAN]] /\ \A c \in Copy : copy[c].seen = 1 /\ copy[c].state = s
  BY <1>3 DEF Values
<1>5. Machine!Idle \in MachineCall /\ Machine!Idle.pc = "idle" BY DEF Machine!Idle, MachineCall
<1>6. clerk \in [Clerk -> MachineCall] /\ \A a \in Clerk : clerk[a].pc = "idle" BY <1>5 DEF Machine!Init
<1>7. MachineTyped BY <1>2, <1>4, <1>6 DEF Machine!Init, MachineTyped
<1>. QED BY <1>2, <1>4, <1>6, <1>7 DEF Machine!Init, MachineIInv, CheckedStands, WritesStand, Machine!StatefulInv,
     Machine!FreshFollowsTheMachine, Machine!RefusalLeavesNoTrace, Machine!EventsTellTheTruth

\* A call moves on and leaves the row alone.
LEMMA CallMoves == ASSUME None \notin Clerk, MachineIInv, NEW a \in Clerk, NEW v \in MachineCall, clerk' = [clerk EXCEPT ![a] = v],
    UNCHANGED <<history, current, deleted, open, before, rowWrites>>, open # a \/ (v.unit /\ v.pc \in {"emit", "end"}),
    v.pc # "idle" => v.copy \in Copy /\ v.name \in DOMAIN Transitions /\ v.seen \in DOMAIN history,
    v.pc \in {"guard", "set", "effect", "update"} =>
        v.from \in Transitions[v.name].from /\ (v.clean => v.from = history[v.seen]),
    v.pc # "emit"
  PROVE /\ clerk' \in [Clerk -> MachineCall]
        /\ \A b \in Clerk : clerk'[b].pc # "idle" =>
              clerk'[b].copy \in Copy /\ clerk'[b].name \in DOMAIN Transitions /\ clerk'[b].seen \in DOMAIN history
        /\ CheckedStands' /\ (emitted' = emitted => WritesStand') /\ Machine!FreshFollowsTheMachine'
        /\ emitted' = emitted => Machine!EventsTellTheTruth'
<1>1. \A b \in Clerk : clerk'[b] = IF b = a THEN v ELSE clerk[b] BY DEF MachineIInv, MachineTyped
<1>2. clerk' \in [Clerk -> MachineCall] BY DEF MachineIInv, MachineTyped
<1>3. \A b \in Clerk : clerk'[b].pc # "idle" =>
          clerk'[b].copy \in Copy /\ clerk'[b].name \in DOMAIN Transitions /\ clerk'[b].seen \in DOMAIN history
  BY <1>1 DEF MachineIInv, MachineTyped
<1>4. CheckedStands' BY <1>1 DEF MachineIInv, CheckedStands
<1>5. emitted' = emitted => WritesStand' BY <1>1 DEF MachineIInv, WritesStand
<1>. QED BY <1>2, <1>3, <1>4, <1>5 DEF MachineIInv, Machine!StatefulInv, Machine!FreshFollowsTheMachine, Machine!EventsTellTheTruth

\* Up to the write the row stays as it is.
LEMMA ChecksKeep == ASSUME None \notin Clerk, MachineIInv, NEW a \in Clerk,
    (\E c \in Copy, t \in DOMAIN Transitions : Machine!Apply(a, c, t)) \/ Machine!Guard(a) \/ Machine!SetField(a)
      \/ Machine!Effect(a) \/ Machine!UpdateMisses(a)
  PROVE MachineIInv'
<1>t. MachineTyped /\ CheckedStands /\ WritesStand /\ Machine!RefusalLeavesNoTrace BY DEF MachineIInv, Machine!StatefulInv
<1>a. clerk[a] \in MachineCall BY <1>t DEF MachineTyped
<1>i. Machine!Idle \in MachineCall /\ Machine!Idle.pc = "idle" BY DEF Machine!Idle, MachineCall
<1>o. clerk[a].pc \notin {"emit", "end"} => open # a BY <1>t DEF WritesStand
<1>p. ASSUME NEW v \in MachineCall, clerk' = [clerk EXCEPT ![a] = v], clerk[a].pc \notin {"emit", "end"},
             UNCHANGED <<history, current, deleted, open, before, rowWrites, emitted, copy>>,
             v.pc # "idle" => v.copy \in Copy /\ v.name \in DOMAIN Transitions /\ v.seen \in DOMAIN history,
             v.pc \in {"guard", "set", "effect", "update"} =>
               v.from \in Transitions[v.name].from /\ (v.clean => v.from = history[v.seen]),
             v.pc # "emit"
      PROVE MachineIInv'
  <2>1. MachineTyped' /\ CheckedStands' /\ WritesStand' /\ Machine!FreshFollowsTheMachine' /\ Machine!EventsTellTheTruth'
    BY <1>o, <1>p, <1>t, CallMoves DEF MachineTyped
  <2>2. Machine!RefusalLeavesNoTrace' BY <1>p, <1>t DEF Machine!RefusalLeavesNoTrace
  <2>. QED BY <2>1, <2>2 DEF MachineIInv, Machine!StatefulInv
<1>m. ASSUME NEW pc \in {"guard", "set", "effect", "update"}, clerk[a].pc \in {"guard", "set", "effect", "update"}
      PROVE LET v == [clerk[a] EXCEPT !.pc = pc] IN
            /\ v \in MachineCall /\ v.pc = pc /\ v.copy = clerk[a].copy /\ v.name = clerk[a].name
            /\ v.seen = clerk[a].seen /\ v.from = clerk[a].from /\ v.clean = clerk[a].clean
            /\ v.copy \in Copy /\ v.name \in DOMAIN Transitions /\ v.seen \in DOMAIN history
            /\ v.from \in Transitions[v.name].from /\ (v.clean => v.from = history[v.seen])
  BY <1>a, <1>m, <1>t DEF MachineTyped, MachineCall, CheckedStands
<1>1. ASSUME NEW c \in Copy, NEW t \in DOMAIN Transitions, Machine!Apply(a, c, t) PROVE MachineIInv'
  <2> DEFINE pc == IF Transitions[t].guarded THEN "guard" ELSE "set"
             v == [pc |-> pc, copy |-> c, name |-> t, from |-> copy[c].state, seen |-> copy[c].seen,
                   clean |-> ~copy[c].ahead, unit |-> a \in InUnit]
  <2>1. /\ clerk[a].pc = "idle" /\ copy[c].state \in Transitions[t].from /\ clerk' = [clerk EXCEPT ![a] = v]
        /\ UNCHANGED <<history, current, deleted, open, before, rowWrites, emitted, copy>>
    BY <1>1 DEF Machine!Apply, Machine!database
  <2>2. pc \in {"guard", "set"} OBVIOUS
  <2> HIDE DEF pc
  <2>3. v \in MachineCall /\ v.seen \in DOMAIN history BY <1>t, <2>2 DEF MachineTyped, MachineCall
  <2>4. v.clean => v.from = history[v.seen] BY <1>t DEF Machine!RefusalLeavesNoTrace
  <2>. QED BY <1>p, <2>1, <2>2, <2>3, <2>4
<1>2. CASE Machine!Guard(a)
  <2>1. /\ clerk[a].pc = "guard" /\ UNCHANGED <<history, current, deleted, open, before, rowWrites, emitted, copy>>
        /\ clerk' = [clerk EXCEPT ![a] = [clerk[a] EXCEPT !.pc = "set"]] \/ clerk' = [clerk EXCEPT ![a] = Machine!Idle]
    BY <1>2, <1>t DEF MachineTyped, Machine!Guard, Machine!database
  <2>. QED BY <1>p, <1>i, <1>m, <2>1
<1>3. CASE Machine!SetField(a)
  <2> DEFINE v == [clerk[a] EXCEPT !.pc = "effect"]
             c == clerk[a].copy
             to == Transitions[clerk[a].name].to
  <2>1. /\ clerk[a].pc = "set" /\ UNCHANGED <<history, current, deleted, open, before, rowWrites, emitted>>
        /\ clerk' = [clerk EXCEPT ![a] = v] /\ copy' = [copy EXCEPT ![c].state = to, ![c].ahead = TRUE]
    BY <1>3, <1>t DEF MachineTyped, Machine!SetField, Machine!database
  <2>2. /\ v \in MachineCall /\ v.pc = "effect" /\ c \in Copy /\ v.copy \in Copy /\ v.name \in DOMAIN Transitions /\ v.seen \in DOMAIN history
        /\ v.from \in Transitions[v.name].from /\ (v.clean => v.from = history[v.seen]) /\ clerk[a].name \in DOMAIN Transitions
    BY <1>m, <1>t, <2>1 DEF MachineTyped
  <2>3. to \in Values BY <2>2 DEF Values
  <2> HIDE DEF v, to, c
  <2>4. /\ copy' \in [Copy -> [state : Values, seen : Nat, ahead : BOOLEAN]]
        /\ \A d \in Copy : copy'[d].seen = copy[d].seen /\ (~copy'[d].ahead => copy'[d] = copy[d])
    <3> DEFINE x == [copy[c] EXCEPT !.state = to, !.ahead = TRUE]
    <3>1. copy' = [copy EXCEPT ![c] = x] BY <1>t, <2>1, <2>2 DEF MachineTyped
    <3>2. x \in [state : Values, seen : Nat, ahead : BOOLEAN] /\ x.seen = copy[c].seen /\ x.ahead
      BY <1>t, <2>2, <2>3 DEF MachineTyped
    <3> HIDE DEF x
    <3>. QED BY <1>t, <2>2, <3>1, <3>2 DEF MachineTyped
  <2>5. /\ clerk' \in [Clerk -> MachineCall]
        /\ \A b \in Clerk : clerk'[b].pc # "idle" =>
             clerk'[b].copy \in Copy /\ clerk'[b].name \in DOMAIN Transitions /\ clerk'[b].seen \in DOMAIN history
        /\ CheckedStands' /\ WritesStand' /\ Machine!FreshFollowsTheMachine' /\ Machine!EventsTellTheTruth'
    BY <1>o, <2>1, <2>2, CallMoves
  <2>6. MachineTyped' BY <1>t, <2>1, <2>4, <2>5 DEF MachineTyped
  <2>7. Machine!RefusalLeavesNoTrace' BY <1>t, <2>1, <2>4 DEF Machine!RefusalLeavesNoTrace
  <2>. QED BY <2>5, <2>6, <2>7 DEF MachineIInv, Machine!StatefulInv
<1>4. CASE Machine!Effect(a)
  <2>1. /\ clerk[a].pc = "effect" /\ UNCHANGED <<history, current, deleted, open, before, rowWrites, emitted, copy>>
        /\ clerk' = [clerk EXCEPT ![a] = [clerk[a] EXCEPT !.pc = "update"]] \/ clerk' = [clerk EXCEPT ![a] = Machine!Idle]
    BY <1>4, <1>t DEF MachineTyped, Machine!Effect, Machine!database
  <2>. QED BY <1>p, <1>i, <1>m, <2>1
<1>5. CASE Machine!UpdateMisses(a)
  BY <1>5, <1>p, <1>i DEF Machine!UpdateMisses, Machine!database
<1>. QED BY <1>1, <1>2, <1>3, <1>4, <1>5

\* The row is written, as the machine says if the copy was in step with it.
LEMMA UpdateKeeps == ASSUME None \notin Clerk, MachineIInv, NEW a \in Clerk, Machine!Update(a) PROVE MachineIInv'
<1>t. MachineTyped /\ CheckedStands /\ WritesStand /\ Machine!FreshFollowsTheMachine /\ Machine!RefusalLeavesNoTrace /\ Machine!EventsTellTheTruth
  BY DEF MachineIInv, Machine!StatefulInv
<1>a. clerk[a] \in MachineCall BY <1>t DEF MachineTyped
<1> DEFINE t == clerk[a]
           to == Transitions[t.name].to
           last == Len(history) + 1
           next == IF Transitions[t.name].event THEN "emit" ELSE "end"
           v == [t EXCEPT !.pc = next, !.seen = last]
           w == [at |-> last, was |-> Machine!Row, from |-> t.from, name |-> t.name, fresh |-> t.clean /\ t.seen = current]
<1>1. /\ t.pc = "update" /\ open = None /\ history' = Append(history, to) /\ current' = last /\ before' = current
      /\ copy' = [copy EXCEPT ![t.copy].seen = last, ![t.copy].ahead = copy[t.copy].state # to]
      /\ rowWrites' = rowWrites \cup {w} /\ clerk' = [clerk EXCEPT ![a] = v]
      /\ open' = (IF t.unit THEN a ELSE None) /\ emitted' = emitted
  BY DEF Machine!Update
<1>2. t.copy \in Copy /\ t.name \in DOMAIN Transitions /\ t.seen \in DOMAIN history BY <1>1, <1>t DEF MachineTyped
<1>3. to \in Values BY <1>2 DEF Values
<1>4. Len(history) \in Nat /\ DOMAIN history = 1..Len(history) BY <1>t DEF MachineTyped
<1>5. /\ history' \in Seq(Values) /\ DOMAIN history' = 1..last /\ history'[last] = to
      /\ \A i \in DOMAIN history : history'[i] = history[i] /\ i \in DOMAIN history' /\ i # last
  BY <1>1, <1>3, <1>4, <1>t DEF MachineTyped
<1>6. next \in {"emit", "end"} OBVIOUS
<1>w. /\ w.at = last /\ w.name = t.name /\ w.was = history[current]
      /\ w.fresh => w.was = t.from /\ w.from = t.from /\ t.from \in Transitions[t.name].from
  <2>1. t.from \in Transitions[t.name].from /\ (t.clean => t.from = history[t.seen]) BY <1>1, <1>t DEF CheckedStands
  <2>. QED BY <2>1 DEF Machine!Row
<1> HIDE DEF next, w, to, last
<1>7. v \in MachineCall /\ v.pc = next /\ v.seen = last /\ v.copy = t.copy /\ v.name = t.name /\ v.unit = t.unit
  <2>1. last \in Nat BY <1>4 DEF last
  <2>. QED BY <1>6, <1>a, <2>1 DEF MachineCall
<1> HIDE DEF v
<1>8. \A b \in Clerk : clerk'[b] = IF b = a THEN v ELSE clerk[b] BY <1>1, <1>t DEF MachineTyped
<1>9. /\ copy' \in [Copy -> [state : Values, seen : Nat, ahead : BOOLEAN]]
      /\ \A c \in Copy : /\ copy'[c].state = copy[c].state
                         /\ copy'[c].seen = IF c = t.copy THEN last ELSE copy[c].seen
                         /\ copy'[c].ahead = IF c = t.copy THEN copy[t.copy].state # to ELSE copy[c].ahead
  <2> DEFINE differs == copy[t.copy].state # to
             x == [copy[t.copy] EXCEPT !.seen = last, !.ahead = differs]
  <2>1. copy' = [copy EXCEPT ![t.copy] = x] BY <1>1, <1>2, <1>t DEF MachineTyped
  <2>2. differs \in BOOLEAN /\ last \in Nat BY <1>4 DEF last
  <2> HIDE DEF differs
  <2>3. /\ x \in [state : Values, seen : Nat, ahead : BOOLEAN] /\ x.seen = last /\ x.state = copy[t.copy].state
        /\ x.ahead = differs
    BY <1>2, <1>t, <2>2 DEF MachineTyped
  <2> HIDE DEF x
  <2>. QED BY <1>2, <1>t, <2>1, <2>3 DEF MachineTyped, differs
<1>10. MachineTyped'
  <2>1. \A c \in Copy : copy'[c].seen \in DOMAIN history' BY <1>4, <1>5, <1>9, <1>t DEF MachineTyped, last
  <2>2. clerk' \in [Clerk -> MachineCall] BY <1>1, <1>7, <1>t DEF MachineTyped
  <2>3. \A b \in Clerk : clerk'[b].pc # "idle" =>
          clerk'[b].copy \in Copy /\ clerk'[b].name \in DOMAIN Transitions /\ clerk'[b].seen \in DOMAIN history'
    BY <1>2, <1>4, <1>5, <1>7, <1>8, <1>t DEF MachineTyped, last
  <2>4. current' \in DOMAIN history' /\ before' \in DOMAIN history' BY <1>1, <1>4, <1>5, <1>t DEF MachineTyped, last
  <2>5. \A x \in rowWrites' : x.at \in DOMAIN history' BY <1>1, <1>4, <1>5, <1>w, <1>t DEF MachineTyped, last
  <2>6. \A e \in emitted' : e.at \in DOMAIN history' BY <1>1, <1>5, <1>t DEF MachineTyped
  <2>. QED BY <1>5, <1>9, <2>1, <2>2, <2>3, <2>4, <2>5, <2>6 DEF MachineTyped
<1>11. CheckedStands' BY <1>5, <1>6, <1>7, <1>8, <1>t DEF MachineTyped, CheckedStands
<1>12. WritesStand'
  <2>1. ASSUME NEW b \in Clerk, clerk'[b].pc = "emit", ~clerk'[b].unit
        PROVE (\E x \in rowWrites' : x.at = clerk'[b].seen /\ x.name = clerk'[b].name) /\ (open' # None => clerk'[b].seen # current')
    <3>1. CASE b = a BY <1>1, <1>7, <1>8, <1>w, <2>1, <3>1
    <3>2. CASE b # a
      <4>1. clerk[b].seen \in DOMAIN history BY <1>8, <1>t, <2>1, <3>2 DEF MachineTyped
      <4>. QED BY <1>1, <1>5, <1>8, <1>t, <2>1, <3>2, <4>1 DEF WritesStand
    <3>. QED BY <3>1, <3>2
  <2>2. \A e \in emitted' : ~e.unit => (open' # None => e.at # current') BY <1>1, <1>5, <1>t DEF MachineTyped
  <2>3. open' # None => open' \in Clerk /\ clerk'[open'].unit /\ clerk'[open'].pc \in {"emit", "end"} BY <1>1, <1>6, <1>7, <1>8
  <2>. QED BY <2>1, <2>2, <2>3 DEF WritesStand
<1>13. Machine!FreshFollowsTheMachine'
  <2> SUFFICES ASSUME NEW x \in rowWrites'
               PROVE history'[x.at] = Transitions[x.name].to /\ (x.fresh => x.was = x.from /\ x.was \in Transitions[x.name].from)
    BY DEF Machine!FreshFollowsTheMachine
  <2>1. CASE x = w BY <1>5, <1>w, <2>1 DEF to
  <2>2. CASE x \in rowWrites BY <1>5, <1>t, <2>2 DEF MachineTyped, Machine!FreshFollowsTheMachine
  <2>. QED BY <1>1, <2>1, <2>2
<1>14. Machine!RefusalLeavesNoTrace'
  <2> SUFFICES ASSUME NEW c \in Copy, ~copy'[c].ahead PROVE copy'[c].state = history'[copy'[c].seen] BY DEF Machine!RefusalLeavesNoTrace
  <2>1. CASE c = t.copy BY <1>5, <1>9, <2>1
  <2>2. CASE c # t.copy BY <1>5, <1>9, <1>t, <2>2 DEF MachineTyped, Machine!RefusalLeavesNoTrace
  <2>. QED BY <2>1, <2>2
<1>15. Machine!EventsTellTheTruth' BY <1>1, <1>t DEF Machine!EventsTellTheTruth
<1>. QED BY <1>10, <1>11, <1>12, <1>13, <1>14, <1>15 DEF MachineIInv, Machine!StatefulInv

\* An event goes out, a scope ends, a copy is loaded or the row deleted.
LEMMA OthersKeep == ASSUME None \notin Clerk, MachineIInv,
    (\E a \in Clerk : Machine!Emit(a) \/ Machine!End(a)) \/ (\E c \in Copy : Machine!Load(c)) \/ Machine!Delete
  PROVE MachineIInv'
<1>t. MachineTyped /\ CheckedStands /\ WritesStand /\ Machine!FreshFollowsTheMachine /\ Machine!RefusalLeavesNoTrace /\ Machine!EventsTellTheTruth
  BY DEF MachineIInv, Machine!StatefulInv
<1>1. ASSUME NEW a \in Clerk, Machine!Emit(a) PROVE MachineIInv'
  <2> DEFINE v == [clerk[a] EXCEPT !.pc = "end"]
             e == [at |-> clerk[a].seen, name |-> clerk[a].name, unit |-> clerk[a].unit]
  <2>1. /\ clerk[a].pc = "emit" /\ clerk' = [clerk EXCEPT ![a] = v] /\ emitted' = emitted \cup {e}
        /\ UNCHANGED <<history, current, deleted, open, before, rowWrites, copy>>
    BY <1>1, <1>t DEF MachineTyped, Machine!Emit, Machine!database
  <2>2. e.at = clerk[a].seen /\ e.name = clerk[a].name /\ e.unit = clerk[a].unit OBVIOUS
  <2>0. clerk[a] \in MachineCall /\ clerk[a].copy \in Copy /\ clerk[a].name \in DOMAIN Transitions /\ clerk[a].seen \in DOMAIN history
    BY <1>t, <2>1 DEF MachineTyped
  <2>3. /\ v \in MachineCall /\ v.pc = "end" /\ v.copy = clerk[a].copy /\ v.name = clerk[a].name /\ v.seen = clerk[a].seen
        /\ v.unit = clerk[a].unit
    BY <2>0 DEF MachineCall
  <2> HIDE DEF v, e
  <2>4. \A b \in Clerk : clerk'[b] = IF b = a THEN v ELSE clerk[b] BY <1>t, <2>1 DEF MachineTyped
  <2>5. clerk' \in [Clerk -> MachineCall] BY <1>t, <2>1, <2>3 DEF MachineTyped
  <2>6. MachineTyped' BY <1>t, <2>0, <2>1, <2>2, <2>3, <2>4, <2>5 DEF MachineTyped
  <2>7. CheckedStands' BY <1>t, <2>1, <2>3, <2>4 DEF CheckedStands
  <2>8. WritesStand' BY <1>t, <2>1, <2>2, <2>3, <2>4 DEF WritesStand
  <2>9. Machine!EventsTellTheTruth' BY <1>t, <2>1, <2>2 DEF WritesStand, Machine!EventsTellTheTruth
  <2>10. Machine!FreshFollowsTheMachine' /\ Machine!RefusalLeavesNoTrace'
    BY <1>t, <2>1 DEF Machine!FreshFollowsTheMachine, Machine!RefusalLeavesNoTrace
  <2>. QED BY <2>6, <2>7, <2>8, <2>9, <2>10 DEF MachineIInv, Machine!StatefulInv
<1>2. ASSUME NEW a \in Clerk, Machine!End(a) PROVE MachineIInv'
  <2>1. /\ clerk[a].pc = "end" /\ clerk' = [clerk EXCEPT ![a] = Machine!Idle] /\ open' = (IF open = a THEN None ELSE open)
        /\ \/ UNCHANGED <<current, rowWrites>>
           \/ open = a /\ current' = before /\ rowWrites' = {w \in rowWrites : w.at # current}
        /\ UNCHANGED <<history, deleted, copy, before, emitted>>
    BY <1>2 DEF Machine!End
  <2>2. Machine!Idle \in MachineCall /\ Machine!Idle.pc = "idle" BY DEF Machine!Idle, MachineCall
  <2>3. \A b \in Clerk : clerk'[b] = IF b = a THEN Machine!Idle ELSE clerk[b] BY <1>t, <2>1 DEF MachineTyped
  <2>4. MachineTyped' BY <1>t, <2>1, <2>2, <2>3 DEF MachineTyped
  <2>5. CheckedStands' BY <1>t, <2>1, <2>2, <2>3 DEF CheckedStands
  <2>6. WritesStand'
    <3>1. CASE open = a BY <1>t, <2>1, <2>2, <2>3, <3>1 DEF WritesStand
    <3>2. CASE open # a BY <1>t, <2>1, <2>2, <2>3, <3>2 DEF WritesStand
    <3>. QED BY <3>1, <3>2
  <2>7. Machine!EventsTellTheTruth'
    <3>1. CASE open = a BY <1>t, <2>1, <3>1 DEF WritesStand, Machine!EventsTellTheTruth
    <3>2. CASE open # a BY <1>t, <2>1, <3>2 DEF Machine!EventsTellTheTruth
    <3>. QED BY <3>1, <3>2
  <2>8. Machine!FreshFollowsTheMachine' /\ Machine!RefusalLeavesNoTrace'
    BY <1>t, <2>1 DEF Machine!FreshFollowsTheMachine, Machine!RefusalLeavesNoTrace
  <2>. QED BY <2>4, <2>5, <2>6, <2>7, <2>8 DEF MachineIInv, Machine!StatefulInv
<1>3. ASSUME NEW c \in Copy, Machine!Load(c) PROVE MachineIInv'
  <2> DEFINE at_ == IF open = None THEN current ELSE before
             x == [state |-> history[at_], seen |-> at_, ahead |-> FALSE]
  <2>1. copy' = [copy EXCEPT ![c] = x] /\ UNCHANGED <<history, current, deleted, open, before, rowWrites, clerk, emitted>>
    BY <1>3 DEF Machine!Load, Machine!database
  <2>2. at_ \in DOMAIN history BY <1>t DEF MachineTyped
  <2> HIDE DEF at_
  <2>3. history[at_] \in Values /\ at_ \in Nat BY <1>t, <2>2 DEF MachineTyped
  <2>4. \A d \in Copy : copy'[d] = IF d = c THEN x ELSE copy[d] BY <1>t, <2>1 DEF MachineTyped
  <2>5. MachineTyped' BY <1>t, <2>1, <2>2, <2>3, <2>4 DEF MachineTyped
  <2>6. Machine!RefusalLeavesNoTrace' BY <1>t, <2>1, <2>4 DEF Machine!RefusalLeavesNoTrace
  <2>7. CheckedStands' /\ WritesStand' /\ Machine!FreshFollowsTheMachine' /\ Machine!EventsTellTheTruth'
    BY <1>t, <2>1 DEF CheckedStands, WritesStand, Machine!FreshFollowsTheMachine, Machine!EventsTellTheTruth
  <2>. QED BY <2>5, <2>6, <2>7 DEF MachineIInv, Machine!StatefulInv
<1>4. CASE Machine!Delete
  <2>1. UNCHANGED <<history, current, copy, clerk, open, before, rowWrites, emitted>> BY <1>4 DEF Machine!Delete
  <2>. QED BY <2>1, <1>t DEF MachineIInv, MachineTyped, CheckedStands, WritesStand, Machine!StatefulInv,
           Machine!FreshFollowsTheMachine, Machine!RefusalLeavesNoTrace, Machine!EventsTellTheTruth
<1>. QED BY <1>1, <1>2, <1>3, <1>4

\* Each step keeps the invariant.
LEMMA MachineKept == ASSUME None \notin Clerk, MachineIInv, [Machine!Next]_machineVars PROVE MachineIInv'
<1>1. CASE Machine!Next BY <1>1, ChecksKeep, UpdateKeeps, OthersKeep DEF Machine!Next
<1>2. CASE UNCHANGED machineVars
  BY <1>2 DEF machineVars, MachineIInv, MachineTyped, CheckedStands, WritesStand, Machine!StatefulInv,
     Machine!FreshFollowsTheMachine, Machine!RefusalLeavesNoTrace, Machine!EventsTellTheTruth
<1>. QED BY <1>1, <1>2

\* stateful(): for any machine, the row follows it as long as the copies that change it are fresh,
\* a refused transition leaves no trace and an event tells a change that was made.
THEOREM RowsFollowTheMachine ==
  ASSUME None \notin Clerk
  PROVE  Machine!Init /\ [][Machine!Next]_machineVars => []Machine!StatefulInv
<1>1. Machine!Init => MachineIInv BY MachineStarts
<1>2. MachineIInv /\ [Machine!Next]_machineVars => MachineIInv' BY MachineKept
<1>3. MachineIInv => Machine!StatefulInv BY DEF MachineIInv
<1>. QED BY <1>1, <1>2, <1>3, PTL

(***************************************************************************)
(* The properties of the run.                                              *)
(***************************************************************************)
\* A step of the platform is a step of each part or leaves it alone.
LEMMA PartsStep ==
  [PlatformNext]_platformVars =>
    /\ [Lock!Next]_lockVars /\ [Tags!Next]_tagVars /\ [Redis!Next]_redisVars /\ [Mcp!Next]_mcpVars
    /\ [Thread!Next]_threadVars /\ [Streams!SseNext]_sseVars /\ [Streams!BodyNext]_bodyVars
    /\ [Migrations!Next]_runnerVars /\ [Saga!Next]_sagaVars /\ [Machine!Next]_machineVars
<1>1. ASSUME PlatformNext
      PROVE  /\ [Lock!Next]_lockVars /\ [Tags!Next]_tagVars /\ [Redis!Next]_redisVars /\ [Mcp!Next]_mcpVars
             /\ [Thread!Next]_threadVars /\ [Streams!SseNext]_sseVars /\ [Streams!BodyNext]_bodyVars
             /\ [Migrations!Next]_runnerVars /\ [Saga!Next]_sagaVars /\ [Machine!Next]_machineVars
  BY <1>1 DEF PlatformNext
<1>2. ASSUME UNCHANGED platformVars
      PROVE  UNCHANGED <<lockVars, tagVars, redisVars, mcpVars, threadVars, sseVars, bodyVars, runnerVars, sagaVars, machineVars>>
  BY <1>2 DEF platformVars
<1>. QED BY <1>1, <1>2

\* The platform starts each part.
LEMMA PartsStart ==
  PlatformInit =>
    /\ Lock!Init /\ Tags!Init /\ Redis!Init /\ Mcp!Init /\ Thread!Init /\ Streams!SseInit /\ Streams!BodyInit
    /\ Migrations!Init /\ Saga!Init /\ Machine!Init
BY DEF PlatformInit

\* What the cache promises: no two handles hold one name within their leases, and an entry is
\* found by each of the tags it was last put with.
THEOREM CacheSafe == ASSUME MaxTokens \in Nat, TagsBounded PROVE PlatformSpec => []CacheInv
<1>1. Lock!OneLease /\ Tags!TaggedInv => CacheInv BY DEF CacheInv
<1>. QED BY <1>1, PartsStart, PartsStep, LeasesExclude, TagsFindEntries, PTL DEF PlatformSpec

\* What is shared between calls has one owner and is given back: MCP transports, the upstream
\* of the Redis backplane, the iterable and the timer of an event stream, the stream of a body.
THEOREM ConnectionsSafe ==
  ASSUME McpBounded, RedisBounded, BodyHypothesis
  PROVE  PlatformSpec => []ConnectionsInv
<1>1. Mcp!McpInv /\ Redis!RedisInv /\ Streams!SseInv /\ Streams!BodyIsReadOnce => ConnectionsInv BY DEF ConnectionsInv
<1>. QED BY <1>1, PartsStart, PartsStep, SessionsHaveOneOwner, BackplaneDelivers, StreamsGiveBack, BodiesAreReadOnce,
            PTL DEF PlatformSpec

\* A stored conversation keeps its numbering, its order and its pointer; the tracking table
\* tells what was applied.
THEOREM RecordsSafe == ASSUME MigrationsAreOrdered PROVE PlatformSpec => []RecordsInv
<1>1. Thread!ThreadInv /\ Migrations!MigrationInv => RecordsInv BY DEF RecordsInv
<1>. QED BY <1>1, PartsStart, PartsStep, ThreadsKeepOrder, TrackingTellsTheSchema, PTL DEF PlatformSpec

\* A saga that fails has compensated what completed, last first; a row follows its machine.
THEOREM WorkflowSafe ==
  ASSUME MaxSteps \in Nat, MaxWidth \in Nat, MaxIterations \in Nat, None \notin Clerk
  PROVE  PlatformSpec => []WorkflowInv
<1>1. Saga!WorkflowInv /\ Machine!StatefulInv => WorkflowInv BY DEF WorkflowInv
<1>. QED BY <1>1, PartsStart, PartsStep, SagasCompensate, RowsFollowTheMachine, PTL DEF PlatformSpec
===============================================================================
