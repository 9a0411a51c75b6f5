----------------------------- MODULE McpClients -----------------------------
(***************************************************************************)
(* The MCP sessions behind a tool loop: MCPClient opens its transport on    *)
(* first use and shares one handshake between concurrent callers,           *)
(* resolveMcpTools makes or borrows a client per server before the loop     *)
(* starts, and MCPClientPool keeps clients between runs until they are      *)
(* evicted or the pool is closed.  A run borrows, lists, calls and ends;    *)
(* another run, an eviction or the shutdown may come between any two steps. *)
(***************************************************************************)
EXTENDS Integers, Sequences, FiniteSets

CONSTANTS AgentRun, Servers,    \* Servers: the sequence in mcpServers, all enabled
          None, MaxClients \* bound: clients ever constructed

Client == 1..MaxClients

VARIABLES pooled,  \* does the driver hand resolveMcpTools a pool
          pool,    \* MCPClientPool.clients: server -> client or None
          made,    \* clients constructed so far
          conn,    \* client -> [live: transport up, flag: _connected, connecting: _connecting]
          shakes,  \* client -> handshakes in the air
          run,     \* run -> [pc, next: server to resolve, mine: its clients, using: client awaited]
          excused  \* clients known to stay open, see Excuse

vars == <<pooled, pool, made, conn, shakes, run, excused>>

Fresh == [live |-> FALSE, flag |-> FALSE, connecting |-> FALSE]

Init == /\ pooled \in BOOLEAN /\ pool = [s \in DOMAIN Servers |-> None] /\ made = 0
        /\ conn = [c \in Client |-> Fresh] /\ shakes = [c \in Client |-> 0]
        /\ run = [r \in AgentRun |-> [pc |-> "idle", next |-> 1, mine |-> {}, using |-> None]]
        /\ excused = {}

(* A run takes the client of the next server: from the pool, or its own. *)
Borrow(r) ==
  /\ run[r].pc \in {"idle", "resolving"} /\ run[r].next \in DOMAIN Servers
  /\ LET s == run[r].next
         old == pooled /\ pool[s] # None
         c == IF old THEN pool[s] ELSE made + 1 IN
     /\ old \/ made < MaxClients
     /\ made' = IF old THEN made ELSE made + 1
     /\ pool' = IF pooled THEN [pool EXCEPT ![s] = c] ELSE pool
     /\ run' = [run EXCEPT ![r] = [@ EXCEPT !.pc = "listing", !.mine = run[r].mine \cup {c}, !.using = c]]
  /\ UNCHANGED <<pooled, conn, shakes, excused>>

(* Mutation of Connect: concurrent callers do not share the promise in flight. *)
ConnectEach(c) ==
  /\ ~conn[c].flag
  /\ conn' = [conn EXCEPT ![c].connecting = TRUE] /\ shakes' = [shakes EXCEPT ![c] = @ + 1]

(* connect(): a handshake is begun unless one is done or under way. *)
Connect(c) ==
  /\ ~conn[c].flag /\ ~conn[c].connecting
  /\ conn' = [conn EXCEPT ![c].connecting = TRUE] /\ shakes' = [shakes EXCEPT ![c] = @ + 1]

Pooled(c) == \E s \in DOMAIN Servers : pool[s] = c

(* listTools and callTool connect first.  A run that still holds a client  *)
(* that was evicted opens it again, and nobody closes it after.            *)
Open(r) ==
  /\ run[r].pc \in {"listing", "calling"} /\ Connect(run[r].using)
  /\ excused' = IF pooled /\ ~Pooled(run[r].using) THEN excused \cup {run[r].using} ELSE excused
  /\ UNCHANGED <<pooled, pool, made, run>>

(* The awaited handshake settles for every caller at once. *)
Shaken(c) ==
  /\ conn[c].connecting /\ shakes' = [shakes EXCEPT ![c] = 0]
  /\ \/ /\ conn' = [conn EXCEPT ![c] = [live |-> TRUE, flag |-> TRUE, connecting |-> FALSE]]
        /\ UNCHANGED <<run, excused>>
     \/ /\ conn' = [conn EXCEPT ![c].connecting = FALSE]
        /\ run' = [r \in AgentRun |-> IF run[r].using # c \/ run[r].pc \notin {"listing", "calling"} THEN run[r]
                                 ELSE [run[r] EXCEPT !.pc = IF @ = "listing" THEN "thrown" ELSE "ready", !.using = None]]
        /\ excused' = excused \cup UNION {run[r].mine : r \in {q \in AgentRun : ~pooled /\ run[q].pc = "listing" /\ run[q].using = c}}
  /\ UNCHANGED <<pooled, pool, made>>

(* Connected: the request goes out. *)
Request(r) ==
  /\ run[r].pc \in {"listing", "calling"} /\ conn[run[r].using].flag
  /\ run' = [run EXCEPT ![r].pc = IF @ = "listing" THEN "list-sent" ELSE "call-sent"]
  /\ UNCHANGED <<pooled, pool, made, conn, shakes, excused>>

(* tools/list answers, or fails: resolveMcpTools throws, before its caller   *)
(* has a close() to call, and the run's own clients stay open.               *)
Listed(r) ==
  /\ run[r].pc = "list-sent"
  /\ \/ /\ run' = [run EXCEPT ![r] = [@ EXCEPT !.next = run[r].next + 1, !.using = None,
                     !.pc = IF run[r].next = Len(Servers) THEN "ready" ELSE "resolving"]]
        /\ UNCHANGED excused
     \/ /\ run' = [run EXCEPT ![r] = [@ EXCEPT !.pc = "thrown", !.using = None]]
        /\ excused' = IF pooled THEN excused ELSE excused \cup run[r].mine
  /\ UNCHANGED <<pooled, pool, made, conn, shakes>>

(* The loop calls an MCP tool; its failure is the loop's to recover. *)
Call(r) ==
  /\ run[r].pc = "ready"
  /\ \E c \in run[r].mine : run' = [run EXCEPT ![r] = [@ EXCEPT !.pc = "calling", !.using = c]]
  /\ UNCHANGED <<pooled, pool, made, conn, shakes, excused>>
Called(r) ==
  /\ run[r].pc = "call-sent"
  /\ run' = [run EXCEPT ![r] = [@ EXCEPT !.pc = "ready", !.using = None]]
  /\ UNCHANGED <<pooled, pool, made, conn, shakes, excused>>

(* close() does nothing to a client that is not connected yet: a handshake   *)
(* in the air survives it.                                                   *)
Closed(c) == IF conn[c].flag THEN Fresh ELSE conn[c]

(* The loop's finally: clients of a pool are left alone. *)
Finish(r) ==
  /\ run[r].pc = "ready"
  /\ run' = [run EXCEPT ![r].pc = "ended"]
  /\ conn' = IF pooled THEN conn ELSE [c \in Client |-> IF c \in run[r].mine THEN Closed(c) ELSE conn[c]]
  /\ UNCHANGED <<pooled, pool, made, shakes, excused>>

Drop(S) ==
  /\ pool' = [s \in DOMAIN Servers |-> IF s \in S THEN None ELSE pool[s]]
  /\ LET gone == {pool[s] : s \in S} \ {None} IN
     /\ conn' = [c \in Client |-> IF c \in gone THEN Closed(c) ELSE conn[c]]
     /\ excused' = excused \cup {c \in gone : conn[c].connecting}
  /\ UNCHANGED <<pooled, made, shakes, run>>

Evict(s) == pool[s] # None /\ Drop({s})
ClosePool == (\E s \in DOMAIN Servers : pool[s] # None) /\ Drop(DOMAIN Servers)

Next == \/ \E r \in AgentRun : Borrow(r) \/ Open(r) \/ Request(r) \/ Listed(r) \/ Call(r) \/ Called(r) \/ Finish(r)
        \/ \E c \in Client : Shaken(c)
        \/ \E s \in DOMAIN Servers : Evict(s)
        \/ ClosePool
Spec == Init /\ [][Next]_vars

-----------------------------------------------------------------------------
TypeOK == /\ pool \in [DOMAIN Servers -> Client \cup {None}] /\ made \in 0..MaxClients
          /\ \A r \in AgentRun : run[r].mine \subseteq Client

(* However many runs share a client, it holds one transport: a second        *)
(* handshake on the same SDK client would break the first.                   *)
OneHandshake == \A c \in Client : shakes[c] + (IF conn[c].live THEN 1 ELSE 0) <= 1

Held == {c \in Client : Pooled(c)} \cup UNION {run[r].mine : r \in {q \in AgentRun : run[q].pc \notin {"ended", "thrown"}}}

(* A live transport belongs to the pool or to a run that goes on.  What the  *)
(* code lets escape is named: the clients of a run whose resolution failed,  *)
(* and pooled clients dropped during their handshake or used after it.       *)
NoneLeaks == \A c \in Client : conn[c].live => c \in Held \cup excused

(* MCP sessions: one handshake per client, and no transport without an owner *)
(* but the ones the code is known to lose.                                   *)
McpInv == TypeOK /\ OneHandshake /\ NoneLeaks
=============================================================================
