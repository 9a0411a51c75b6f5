---------------------------- MODULE BrainDrivers ----------------------------
(***************************************************************************)
(* One conversation, many wire formats.  @strav/brain keeps a conversation  *)
(* as Message[] and lets every call name another provider; each driver      *)
(* writes the whole history in its provider's format and reads the reply    *)
(* back.  Two owners keep the array: a Thread, whose send() pushes the      *)
(* user's turn before it asks and which toJSON()/fromJSON() carry over a    *)
(* restart, and an application that passes [...messages, turn] and takes    *)
(* the messages of the result.  The Responses API also remembers, under the *)
(* id of a response, everything it was told.  The rounds of a tool loop are *)
(* module ToolLoop's; here a round is a request, a reply and its results.   *)
(***************************************************************************)
EXTENDS Naturals, Sequences, SequencesExt

CONSTANTS Sender,       \* callers that may overlap on one Thread
          Providers,    \* the providers the manager was built with
          UserTurns,    \* block types of the turns an application writes
          ServerTools,  \* sets of server tools a call may ask for
          MaxLength,    \* bound: messages in the history
          MaxCalls,     \* bound: calls to the manager
          MaxRestores   \* bound: fromJSON after a restart

VARIABLES owner,     \* "thread" or "app"
          messages,  \* [role, blocks]: the history; a block is [type, id]
          last,      \* Thread.lastResponseId, 0 before the first
          held,      \* the blocks the Responses API remembers, by response id
          call,      \* what each sender is doing
          snapshot,  \* what toJSON() last returned
          calls, era \* calls made, restores made

vars == <<owner, messages, last, held, call, snapshot, calls, era>>

Compat == {"deepseek", "ollama"}
Media == {"image", "document", "audio"}

TypesOf(blocks) == {b.type : b \in ToSet(blocks)}
Only(blocks, types) == SelectSeq(blocks, LAMBDA b : b.type \in types)
Block(type, position, k) == [type |-> type, id |-> <<era, position, k>>]
Written(types, position) == [k \in DOMAIN types |-> Block(types[k], position, k)]
Turn(role, parts) == [role |-> role, parts |-> parts]
AllOf(history) == UNION {ToSet(history[i].blocks) : i \in DOMAIN history}
OfWire(turns) == UNION {ToSet(turns[i].parts) : i \in DOMAIN turns}

Idle == [pc |-> "idle"]
App == CHOOSE s \in Sender : TRUE  \* the sender that is the application
Init == /\ owner \in {"thread", "app"} /\ messages = <<>> /\ last = 0 /\ held = <<>>
        /\ call = [s \in Sender |-> Idle] /\ snapshot = [messages |-> <<>>, last |-> 0]
        /\ calls = 0 /\ era = 0

(***************************************************************************)
(* The formats: the turns a message becomes.                               *)
(***************************************************************************)
\* MCP blocks are inbound only; everything else goes back as it came.
AnthropicTurns(m) == <<Turn(m.role, Only(m.blocks, {"text", "image", "document", "call", "result", "compaction"}))>>
AnthropicRefuses(history) == \E m \in ToSet(history) : "audio" \in TypesOf(m.blocks)

\* Parts of other kinds are dropped.
GeminiTurns(m) == <<Turn(IF m.role = "assistant" THEN "model" ELSE "user", Only(m.blocks, Media \cup {"text", "call", "result"}))>>

Each(blocks, role) == [i \in DOMAIN blocks |-> Turn(role, <<blocks[i]>>)]
IfAny(blocks, role) == IF blocks = <<>> THEN <<>> ELSE <<Turn(role, blocks)>>
Answers(m) == m.role = "user" /\ "result" \in TypesOf(m.blocks)

\* One message of chat completions.  The texts of a turn are joined.
OpenAIMessage(m) ==
    IF m.role = "assistant" THEN Turn("assistant", Only(m.blocks, {"text"}) \o Only(m.blocks, {"call"}))
    ELSE Turn("user", Only(m.blocks, {"text", "image"}))
OpenAIRefuses(history) ==
    \E m \in ToSet(history) : m.role = "user" /\ ~Answers(m) /\ TypesOf(m.blocks) \cap {"document", "audio"} # {}

\* A tool message for each result, and then the text of the turn: its media are dropped.
OpenAITurns(m) ==
    IF Answers(m) THEN Each(Only(m.blocks, {"result"}), "tool") \o IfAny(Only(m.blocks, {"text"}), "user")
    ELSE <<OpenAIMessage(m)>>

\* Items: the text of a turn stands before its results or calls, and media are dropped.
ResponsesTurns(m) ==
    CASE Answers(m) -> IfAny(Only(m.blocks, {"text"}), "user") \o Each(Only(m.blocks, {"result"}), "output")
      [] m.role = "user" /\ ~Answers(m) -> <<Turn("user", Only(m.blocks, {"text"}))>>
      [] m.role = "assistant" -> IfAny(Only(m.blocks, {"text"}), "assistant") \o Each(Only(m.blocks, {"call"}), "call")

(***************************************************************************)
(* The builders: what a call sends, or that it throws before it is sent.   *)
(***************************************************************************)
Params(refused, turns, previous) == [refused |-> refused, turns |-> turns, previous |-> previous]
TurnsOf(history, Format(_)) == FlattenSeq([i \in DOMAIN history |-> Format(history[i])])

AnthropicServerTools == {"web_search", "code_execution", "web_fetch"}
AnthropicParams(history, tools) ==
    Params(AnthropicRefuses(history) \/ ~(tools \subseteq AnthropicServerTools), TurnsOf(history, AnthropicTurns), 0)

GeminiServerTools == {"web_search", "code_execution", "url_context"}
GeminiParams(history, tools) == Params(~(tools \subseteq GeminiServerTools), TurnsOf(history, GeminiTurns), 0)

\* Chat completions take no server tools.
OpenAIParams(history, tools) == Params(OpenAIRefuses(history) \/ tools # {}, TurnsOf(history, OpenAITurns), 0)

\* The whole history, and the previous response's id with it.
ResponsesServerTools == {"web_search", "code_execution"}
ResponsesParams(history, tools, previous) ==
    Params(~(tools \subseteq ResponsesServerTools), TurnsOf(history, ResponsesTurns), previous)

\* The driver of a provider.  The compat drivers inherit the builder of chat completions.
Built(provider, history, tools, previous) ==
    CASE provider = "anthropic" -> AnthropicParams(history, tools)
      [] provider = "google" -> GeminiParams(history, tools)
      [] provider \in {"openai"} \cup Compat -> OpenAIParams(history, tools)
      [] provider = "responses" -> ResponsesParams(history, tools, previous)

Refused(provider, history, tools) == Built(provider, history, tools, 0).refused
Sent(c) == Built(c.provider, c.working, {}, c.previous)
Request(c) == Sent(c).turns
\* What the provider remembers of the conversation.
Memory(c) == IF Sent(c).previous # 0 THEN held[Sent(c).previous] ELSE {}

(***************************************************************************)
(* The calls.                                                              *)
(***************************************************************************)
\* Starts a call over history, or throws where the builder does.
Ask(s, op, provider, history, previous, tools) ==
    call' = [call EXCEPT ![s] =
        IF Refused(provider, history, tools) THEN Idle
        ELSE [pc |-> "asked", op |-> op, provider |-> provider, working |-> history, previous |-> previous]]

Counted == calls < MaxCalls /\ calls' = calls + 1

\* The turn is pushed before anything can fail, and it stays.
Send(s, provider, tools) ==
    /\ owner = "thread" /\ call[s].pc = "idle" /\ Counted /\ Len(messages) < MaxLength
    /\ LET history == Append(messages, [role |-> "user", blocks |-> Written(<<"text">>, Len(messages) + 1)])
       IN messages' = history /\ Ask(s, "chat", provider, history, last, tools)
    /\ UNCHANGED <<owner, last, held, snapshot, era>>

\* Calls of the last turn that a cut reply left unanswered: the next turn of the application answers them first.
CallsOf(m) == Only(m.blocks, {"call"})
Results(m) == [i \in DOMAIN CallsOf(m) |-> [type |-> "result", id |-> CallsOf(m)[i].id]]
Dangling == IF messages # <<>> /\ Last(messages).role = "assistant" THEN Results(Last(messages)) ELSE <<>>

\* The application's own call: the manager passes its array on as it is.
Call(s, op, provider, types, tools) ==
    /\ owner = "app" /\ s = App /\ call[s].pc = "idle"
    /\ Counted /\ Len(messages) < MaxLength
    /\ Ask(s, op, provider,
           Append(messages, [role |-> "user", blocks |-> Dangling \o Written(types, Len(messages) + 1)]), last, tools)
    /\ UNCHANGED <<owner, messages, last, held, snapshot, era>>

Chats(s, provider, types, tools) == Call(s, "chat", provider, types, tools)
Streams(s, provider, types, tools) == Call(s, "stream", provider, types, tools)
Generates(s, provider, types, tools) == Call(s, "generate", provider, types, tools)
Runs(s, provider, types, tools) == Call(s, "run", provider, types, tools)

Fail(s) == /\ call[s].pc = "asked" /\ call' = [call EXCEPT ![s] = Idle]
           /\ UNCHANGED <<owner, messages, last, held, snapshot, calls, era>>

\* Where the reply lands: a Thread appends it to what its array is by now, an
\* application takes the history it asked with.
Base(s) == IF owner = "thread" THEN messages ELSE call[s].working
Reply(s, blocks) == [role |-> "assistant", blocks |-> blocks]

\* The call is over; id is the response's, 0 when the result names none.
Answered(s, blocks, id) ==
    /\ messages' = Append(Base(s), Reply(s, blocks))
    /\ last' = (IF id # 0 THEN id ELSE last)
    /\ call' = [call EXCEPT ![s] = Idle]
    /\ UNCHANGED <<owner, snapshot, calls, era>>

Asking(s, op, provider) == call[s].pc = "asked" /\ call[s].op = op /\ call[s].provider = provider
Said(s, types) == Written(types, Len(Base(s)) + 1)

\* The Responses API remembers a request with what came before it and its reply.
Remembered(s, blocks) == held' = Append(held, Memory(call[s]) \cup OfWire(Request(call[s])) \cup ToSet(blocks))
Forgets == UNCHANGED held

(***************************************************************************)
(* The replies.  Raw ones hold what the drivers leave out: thinking, calls  *)
(* of server tools and of custom tools.                                    *)
(***************************************************************************)
AnthropicRaw == {<<"text">>, <<"thinking", "text">>, <<"compaction">>, <<"compaction", "server", "text">>, <<"mcp", "text">>}
AnthropicBlocks(raw) == SelectSeq(raw, LAMBDA t : t \in {"text", "call", "mcp", "compaction"})
\* Content with a block other than text is kept as blocks, else the joined text.
AnthropicResult(raw) == IF ToSet(AnthropicBlocks(raw)) = {"text"} THEN <<"text">> ELSE AnthropicBlocks(raw)
OpenAIBlocks(raw) == SelectSeq(raw, LAMBDA t : t = "text") \o SelectSeq(raw, LAMBDA t : t = "call")
GeminiBlocks(raw) == SelectSeq(raw, LAMBDA t : t \in {"text", "call"})
ResponsesBlocks(raw) == SelectSeq(raw, LAMBDA t : t \in {"text", "call"})

\* chat(): without tools the drivers of OpenAI and Gemini return text.
AnthropicChat(s) == /\ Asking(s, "chat", "anthropic") /\ Forgets
                    /\ \E raw \in AnthropicRaw : Answered(s, Said(s, AnthropicResult(raw)), 0)
OpenAIChat(s) == (\E p \in {"openai"} \cup Compat : Asking(s, "chat", p)) /\ Answered(s, Said(s, <<"text">>), 0) /\ Forgets
GeminiChat(s) == Asking(s, "chat", "google") /\ Answered(s, Said(s, <<"text">>), 0) /\ Forgets
ResponsesChat(s) == /\ Asking(s, "chat", "responses") /\ Answered(s, Said(s, <<"text">>), Len(held) + 1)
                    /\ Remembered(s, Said(s, <<"text">>))

\* stream(): deltas of text and one stop, which carries no content and no response id.
AnthropicStream(s) == Asking(s, "stream", "anthropic") /\ Answered(s, Said(s, <<"text">>), 0) /\ Forgets
OpenAIStream(s) == (\E p \in {"openai"} \cup Compat : Asking(s, "stream", p)) /\ Answered(s, Said(s, <<"text">>), 0) /\ Forgets
GeminiStream(s) == Asking(s, "stream", "google") /\ Answered(s, Said(s, <<"text">>), 0) /\ Forgets
ResponsesStream(s) == /\ Asking(s, "stream", "responses") /\ Answered(s, Said(s, <<"text">>), 0)
                      /\ Remembered(s, Said(s, <<"text">>))

\* generate(): the text has to parse, or the call throws when the provider has answered.
Unparsed(s) == call' = [call EXCEPT ![s] = Idle] /\ UNCHANGED <<owner, messages, last, snapshot, calls, era>>
Generated(s, id) == Answered(s, Said(s, <<"text">>), id) \/ Unparsed(s)
AnthropicGenerate(s) == Asking(s, "generate", "anthropic") /\ Generated(s, 0) /\ Forgets
OpenAIGenerate(s) == Asking(s, "generate", "openai") /\ Generated(s, 0) /\ Forgets
CompatGenerate(s) == (\E p \in Compat : Asking(s, "generate", p)) /\ Generated(s, 0) /\ Forgets
GeminiGenerate(s) == Asking(s, "generate", "google") /\ Generated(s, 0) /\ Forgets
ResponsesGenerate(s) == /\ Asking(s, "generate", "responses") /\ Generated(s, Len(held) + 1)
                        /\ Remembered(s, Said(s, <<"text">>))

\* runTools(): the blocks of a reply as each driver reads them.
Replies(provider) ==
    CASE provider = "anthropic" ->
           {AnthropicBlocks(raw) : raw \in {<<"text">>, <<"thinking", "text", "call">>, <<"call", "call">>, <<"mcp", "text">>,
                                            <<"compaction", "text", "call">>}}
      [] provider = "google" -> {GeminiBlocks(raw) : raw \in {<<"text">>, <<>>, <<"thought", "call", "text">>, <<"call", "call">>}}
      [] provider = "responses" -> {ResponsesBlocks(raw) : raw \in {<<"text">>, <<>>, <<"server", "call", "text">>, <<"call", "call">>}}
      [] OTHER -> {OpenAIBlocks(raw) : raw \in {<<"text">>, <<>>, <<"text", "call", "custom">>, <<"call", "call">>}}

\* A reply of a run: the loop ends (a reply cut short may leave its calls), goes on
\* with the results of its calls, or suspends before one of them.
Round(s) ==
    /\ call[s].pc = "asked" /\ call[s].op = "run"
    /\ \E types \in Replies(call[s].provider) :
         LET said == Said(s, types)
             turn == Reply(s, said)
             id == IF call[s].provider = "responses" THEN Len(held) + 1 ELSE 0
             working == Append(call[s].working, turn)
         IN /\ IF id # 0 THEN Remembered(s, said) ELSE Forgets
            /\ \/ Answered(s, said, id)
               \/ /\ CallsOf(turn) # <<>> /\ Len(working) < MaxLength
                  /\ \/ call' = [call EXCEPT ![s].working = Append(working, [role |-> "user", blocks |-> Results(turn)])]
                     \/ call' = [call EXCEPT ![s].pc = "suspended", ![s].working = working, ![s].previous = id]
                  /\ UNCHANGED <<owner, messages, last, snapshot, calls, era>>

\* resumeTools() with a result for each call, on any provider; when that one refuses the
\* history the suspended state is still there to be resumed on another.
Resume(s, provider) ==
    /\ call[s].pc = "suspended" /\ Counted
    /\ LET history == Append(call[s].working, [role |-> "user", blocks |-> Results(Last(call[s].working))])
       IN IF Refused(provider, history, {}) THEN UNCHANGED call
          ELSE call' = [call EXCEPT ![s].pc = "asked", ![s].provider = provider, ![s].working = history]
    /\ UNCHANGED <<owner, messages, last, held, snapshot, era>>

(***************************************************************************)
(* toJSON() and, in another process, fromJSON().                           *)
(***************************************************************************)
Save == /\ owner = "thread" /\ snapshot' = [messages |-> messages, last |-> last]
        /\ UNCHANGED <<owner, messages, last, held, call, calls, era>>

Restore ==
    /\ owner = "thread" /\ era < MaxRestores /\ era' = era + 1
    /\ messages' = snapshot.messages /\ last' = snapshot.last /\ call' = [s \in Sender |-> Idle]
    /\ UNCHANGED <<owner, held, snapshot, calls>>

Chat(s) == AnthropicChat(s) \/ OpenAIChat(s) \/ GeminiChat(s) \/ ResponsesChat(s)
Stream(s) == AnthropicStream(s) \/ OpenAIStream(s) \/ GeminiStream(s) \/ ResponsesStream(s)
Generate(s) == AnthropicGenerate(s) \/ OpenAIGenerate(s) \/ CompatGenerate(s) \/ GeminiGenerate(s) \/ ResponsesGenerate(s)

Next == \/ \E s \in Sender, p \in Providers, tools \in ServerTools :
             \/ Send(s, p, tools)
             \/ \E types \in UserTurns : Chats(s, p, types, tools) \/ Streams(s, p, types, tools)
                                       \/ Generates(s, p, types, tools) \/ Runs(s, p, types, tools)
        \/ \E s \in Sender : Chat(s) \/ Stream(s) \/ Generate(s) \/ Round(s) \/ Fail(s)
        \/ \E s \in Sender, p \in Providers : Resume(s, p)
        \/ Save \/ Restore

Spec == Init /\ [][Next]_vars

-----------------------------------------------------------------------------
TypeOK == /\ last \in 0..Len(held) /\ calls \in 0..MaxCalls /\ era \in 0..MaxRestores
          /\ \A i \in DOMAIN messages : messages[i].role \in {"user", "assistant"}
          /\ \A s \in Sender : call[s].pc \in {"idle", "asked", "suspended"}

Asked == {call[s] : s \in {r \in Sender : call[r].pc = "asked"}}

(* What the guides say a provider does not take.  OpenAI and the compat       *)
(* drivers drop the media of a turn that answers calls, the Responses driver  *)
(* those of any turn.                                                         *)
LeftOut(provider, m) ==
    CASE provider = "anthropic" -> {"mcp"}
      [] provider = "google" -> {"mcp", "compaction"}
      [] provider = "responses" -> {"mcp", "compaction"} \cup Media
      [] OTHER -> {"mcp", "compaction"} \cup (IF Answers(m) THEN Media ELSE {})
Due(c) == UNION {{b \in ToSet(m.blocks) : b.type \notin LeftOut(c.provider, m)} : m \in ToSet(c.working)}

(* The model that answers knows every turn of the conversation, whoever       *)
(* answered it and whatever failed in between: the request and what the       *)
(* provider remembers hold every block its format can carry.                  *)
NothingMissing == \A c \in Asked : Due(c) \subseteq OfWire(Request(c)) \cup Memory(c)

(* And nothing else: what the Responses API remembers under the id a request  *)
(* names are turns of this conversation, also after a restart.                *)
NothingForeign == \A c \in Asked : Memory(c) \cup OfWire(Request(c)) \subseteq AllOf(c.working)

(* Turns reach the provider in the order of the conversation.                 *)
Positions(c) == FlattenSeq([i \in DOMAIN Request(c) |->
                    [k \in DOMAIN Request(c)[i].parts |-> Request(c)[i].parts[k]]])
TurnOf(c, b) == CHOOSE i \in DOMAIN c.working : b \in ToSet(c.working[i].blocks)
InOrder == \A c \in Asked : LET sent == Positions(c) IN
               \A i, j \in DOMAIN sent : i < j => TurnOf(c, sent[i]) <= TurnOf(c, sent[j])

(* Every call is answered where its provider looks for the answer: in the     *)
(* next turn and before anything else in it, on chat completions in the tool  *)
(* messages that follow at once, among the items of the Responses API later.  *)
IdsIn(parts, type) == {b.id : b \in {x \in ToSet(parts) : x.type = type}}
Heads(turns, from, n) == UNION {IdsIn(turns[i].parts, "result") : i \in {j \in DOMAIN turns : j > from /\ j <= from + n}}
AnsweredAt(c, turns, i) ==
    LET ids == IdsIn(turns[i].parts, "call")
        n == Len(Only(turns[i].parts, {"call"}))
    IN CASE c.provider \in {"anthropic", "google"} ->
              /\ i < Len(turns)
              /\ ids = IdsIn(SubSeq(turns[i + 1].parts, 1, n), "result")
         [] c.provider = "responses" -> ids \subseteq Heads(turns, i, Len(turns))
         [] OTHER -> ids = Heads(turns, i, n)
Paired == \A c \in Asked : LET turns == Request(c) IN
              \A i \in DOMAIN turns : IdsIn(turns[i].parts, "call") # {} => AnsweredAt(c, turns, i)

(* A conversation survives its formats, failures and restarts: every provider *)
(* sees all of it, nothing else, in order and with its calls answered.        *)
BrainDriversInv == TypeOK /\ NothingMissing /\ NothingForeign /\ InOrder /\ Paired
=============================================================================
