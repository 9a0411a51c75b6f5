------------------------------ MODULE ToolLoop ------------------------------
(***************************************************************************)
(* The agentic tool loop of @strav/brain: ask the model, run the tools it   *)
(* calls, send the results back, until it answers in prose or the budget of *)
(* rounds is spent.  The source writes the loop out again and again - five  *)
(* drivers, buffered or streamed, with or without an output schema - each   *)
(* with its own test for going on, its own treatment of calls it cannot     *)
(* parse, of an abort and of the last round.  Here the steps they share are *)
(* operators, and every loop is the action that puts them together as its   *)
(* own code does.  BrainManager and AgentRunner are the entries, resume()   *)
(* continues a run that a human-in-the-loop gate suspended.                 *)
(***************************************************************************)
EXTENDS Integers, Sequences, FiniteSets

CONSTANTS Loops,           \* the loops a caller may start, see Buffered and Streamed
          MaxIterations,   \* options.maxIterations
          MaxBatch,        \* bound: tool calls in one reply
          MaxResumes       \* bound: how often a suspended run is resumed

VARIABLES loop,       \* the loop that runs
          gate,       \* [set: options.shouldSuspend is set, asked: ids of this round it let through]
          pc,         \* where the loop stands
          aborted,    \* options.signal.aborted
          late,       \* requests that left after the abort
          log,        \* workingMessages, without the caller's first messages
          batch, at,  \* the calls of the last reply, and the next one to run
          results,    \* ids in resultBlocks
          ran,        \* ids of this round whose tool.execute() was entered
          count,      \* [iterations, usage, replies]: iterations and aggregated of this leg, replies of the whole run
          carry,      \* what mergeResumeCounters adds to this leg: [iterations, usage]
          pending,    \* pendingToolCalls of the suspended run
          resumes     \* how often it was resumed

loopVars == <<loop, gate, pc, aborted, late, log, batch, at, results, ran, count, carry, pending, resumes>>
round == <<batch, at, results, ran>>
leg == <<loop, gate, carry, pending, resumes>>

Plain == {"anthropic-run", "openai-run", "responses-run", "gemini-run"}
Buffered == Plain \cup {"anthropic-schema", "openai-schema", "responses-schema", "gemini-schema", "compat-schema"}
Streamed == {"anthropic-stream", "anthropic-stream-schema", "openai-stream", "openai-stream-schema",
             "responses-stream", "responses-stream-schema", "gemini-stream", "gemini-stream-schema",
             "compat-stream-schema"}
Gemini == {"gemini-run", "gemini-schema", "gemini-stream", "gemini-stream-schema"}

Ended == {"done", "max", "thrown", "abandoned"}

(* What a reply's calls may be.  "foreign" is a call that is not a function, *)
(* or a streamed one whose id or name never came; "unparsed" has arguments   *)
(* that are no JSON; "respond" is the synthetic tool of the compat driver.   *)
Kinds == {"good", "unregistered"}
ChatKinds == Kinds \cup {"unparsed", "foreign"}
JsonKinds == Kinds \cup {"unparsed"}

Id(i) == <<count.replies, i>>
Calls(turn) == IF turn.role = "assistant" THEN turn.ids ELSE {}
Listed(b, reply) == {<<reply, i>> : i \in {j \in DOMAIN b : b[j] # "foreign"}}

LoopInit ==
  /\ loop = "none" /\ gate = [set |-> FALSE, asked |-> {}] /\ pc = "idle"
  /\ aborted = FALSE /\ late = 0 /\ log = <<>>
  /\ batch = <<>> /\ at = 1 /\ results = {} /\ ran = {}
  /\ count = [iterations |-> 0, usage |-> 0, replies |-> 0]
  /\ carry = [iterations |-> 0, usage |-> 0] /\ pending = {} /\ resumes = 0

(***************************************************************************)
(* The entries.                                                            *)
(***************************************************************************)
Start(l, gated) ==
  /\ pc = "idle" /\ loop' = l /\ gate' = [gate EXCEPT !.set = gated] /\ pc' = "top"
  /\ UNCHANGED <<aborted, late, log, round, count, carry, pending, resumes>>

(* runTools takes a gate; the streamed and the schema entries reject one. *)
RunTools == \E l \in Loops \cap Plain, gated \in BOOLEAN : Start(l, gated)
GenerateWithTools == \E l \in (Loops \cap Buffered) \ Plain : Start(l, FALSE)
StreamTools == \E l \in Loops \cap Streamed : Start(l, FALSE)

(***************************************************************************)
(* The steps.                                                              *)
(***************************************************************************)
Throw == pc' = "thrown" /\ UNCHANGED <<leg, aborted, late, log, round, count>>

(* checkAborted, at the top of a round only. *)
Stopped == pc = "top" /\ aborted /\ Throw

(* The SDKs of OpenAI and Anthropic refuse a request whose signal is aborted. *)
(* The Gemini driver passes no signal on.                                     *)
Send == IF aborted /\ loop \notin Gemini
        THEN Throw
        ELSE pc' = "asked" /\ late' = late + (IF aborted THEN 1 ELSE 0)
             /\ UNCHANGED <<leg, aborted, log, round, count>>

Ask == pc = "top" /\ ~aborted /\ Send
AskUnchecked == pc = "top" /\ Send
IterationStart == pc = "top" /\ ~aborted /\ pc' = "started" /\ UNCHANGED <<leg, aborted, late, log, round, count>>
AskStream == pc = "started" /\ Send

(* The reply with batch b: usage is added, the assistant turn pushed, and the *)
(* loop either runs the calls or ends.                                        *)
Take(b, next) ==
  /\ count' = [count EXCEPT !.usage = @ + 1, !.replies = @ + 1]
  /\ log' = Append(log, [role |-> "assistant", ids |-> Listed(b, count.replies + 1)])
  /\ batch' = b /\ at' = 1 /\ results' = {} /\ pc' = next
  /\ UNCHANGED <<leg, aborted, late, ran>>

Answers(kinds) == UNION {[1..n -> kinds] : n \in 0..MaxBatch}

(* The request fails, or its answer holds no choice or candidate. *)
Failed == pc = "asked" /\ Throw

(* stop_reason alone decides. *)
ReplyByStopReason(kinds, after) ==
  /\ pc = "asked"
  /\ \E b \in Answers(kinds) : \E next \in {"calls"} \cup after : Take(b, next)

(* finish_reason and a call are both needed to go on. *)
ReplyByBoth(kinds, after) ==
  /\ pc = "asked"
  /\ \E b \in Answers(kinds) : \E next \in (IF b = <<>> THEN {} ELSE {"calls"}) \cup after : Take(b, next)

(* The calls alone decide. *)
ReplyByCalls(kinds, after) ==
  /\ pc = "asked"
  /\ \E b \in Answers(kinds) : \E next \in (IF b = <<>> THEN after ELSE {"calls"}) : Take(b, next)

(* The stream of the Responses API ended without response.completed. *)
Incomplete == pc = "asked" /\ pc' = "done" /\ UNCHANGED <<leg, aborted, late, log, round, count>>

(* onToolError may turn the error into a result, or the loop throws. *)
Recover(i) ==
  \/ Throw
  \/ /\ results' = results \cup {Id(i)} /\ at' = at + 1
     /\ UNCHANGED <<leg, pc, aborted, late, log, count, batch, ran>>

Execute(i) ==
  /\ ran' = ran \cup {Id(i)}
  /\ \/ pc' = "thrown" /\ UNCHANGED <<results, at>>
     \/ results' = results \cup {Id(i)} /\ at' = at + 1 /\ pc' = pc
  /\ UNCHANGED <<leg, aborted, late, log, count, batch>>

(* runToolWithRecovery *)
RunTool ==
  /\ pc = "calls" /\ at \in DOMAIN batch
  /\ gate.set => Id(at) \in gate.asked
  /\ CASE batch[at] = "good" -> Execute(at)
       [] batch[at] = "unregistered" -> Recover(at)
       [] OTHER -> FALSE

(* A call whose arguments do not parse is never shown to the gate. *)
RunUnparsed == pc = "calls" /\ at \in DOMAIN batch /\ batch[at] = "unparsed" /\ Recover(at)

(* Mutation of SkipForeign: the loop over the calls does not move past it. *)
SkipForeignStuck ==
  /\ pc = "calls" /\ at \in DOMAIN batch /\ batch[at] = "foreign" /\ at' = at
  /\ UNCHANGED <<leg, pc, aborted, late, log, count, batch, results, ran>>

SkipForeign ==
  /\ pc = "calls" /\ at \in DOMAIN batch /\ batch[at] = "foreign" /\ at' = at + 1
  /\ UNCHANGED <<leg, pc, aborted, late, log, count, batch, results, ran>>

(* The gate lets the call through, or the run returns suspended: the results *)
(* of the calls before this one stay behind in resultBlocks.                 *)
AskGate ==
  /\ pc = "calls" /\ at \in DOMAIN batch /\ gate.set /\ batch[at] \in Kinds
  /\ Id(at) \notin gate.asked
  /\ \/ gate' = [gate EXCEPT !.asked = @ \cup {Id(at)}] /\ UNCHANGED <<pc, pending>>
     \/ /\ pc' = "suspended" /\ gate' = gate
        /\ pending' = {Id(i) : i \in {j \in at..Len(batch) : batch[j] # "foreign"}}
  /\ UNCHANGED <<loop, aborted, late, log, round, count, carry, resumes>>

(* The results go back as one user turn and the round is counted. *)
Round(atMax) ==
  /\ pc = "calls" /\ at = Len(batch) + 1
  /\ log' = Append(log, [role |-> "user", ids |-> results])
  /\ count' = [count EXCEPT !.iterations = @ + 1]
  /\ IF count.iterations + 1 >= MaxIterations THEN pc' \in atMax ELSE pc' = "top"
  /\ batch' = <<>> /\ at' = 1 /\ results' = {} /\ ran' = {} /\ gate' = [gate EXCEPT !.asked = {}]
  /\ UNCHANGED <<loop, aborted, late, carry, pending, resumes>>

(* parseGenerated reads the last text, which may be no JSON of the schema. *)
Parsed == {"done", "thrown"}
ParsedAtMax == {"max", "thrown"}

(***************************************************************************)
(* The loops.                                                              *)
(***************************************************************************)
AnthropicRound(after, atMax) ==
  \/ Stopped \/ Ask \/ Failed \/ ReplyByStopReason(Kinds, after) \/ AskGate \/ RunTool \/ Round(atMax)
AnthropicRun == loop = "anthropic-run" /\ AnthropicRound({"done"}, {"max"})
AnthropicSchema == loop = "anthropic-schema" /\ AnthropicRound(Parsed, ParsedAtMax)
AnthropicStream ==
  /\ loop = "anthropic-stream"
  /\ \/ Stopped \/ IterationStart \/ AskStream \/ Failed \/ ReplyByStopReason(Kinds, {"done"})
     \/ RunTool \/ Round({"max"})
AnthropicStreamSchema ==
  /\ loop = "anthropic-stream-schema"
  /\ \/ Stopped \/ IterationStart \/ AskStream \/ Failed \/ ReplyByStopReason(Kinds, Parsed)
     \/ RunTool \/ Round(ParsedAtMax)

OpenAIRound(after, atMax) ==
  \/ Stopped \/ Ask \/ Failed \/ ReplyByBoth(ChatKinds, after)
  \/ AskGate \/ RunTool \/ RunUnparsed \/ SkipForeign \/ Round(atMax)
OpenAIRun == loop = "openai-run" /\ OpenAIRound({"done"}, {"max"})
OpenAISchema == loop = "openai-schema" /\ OpenAIRound(Parsed, ParsedAtMax)
OpenAIStream ==
  /\ loop = "openai-stream"
  /\ \/ Stopped \/ IterationStart \/ AskStream \/ Failed \/ ReplyByBoth(ChatKinds, {"done"})
     \/ RunTool \/ RunUnparsed \/ SkipForeign \/ Round({"max"})
OpenAIStreamSchema ==
  /\ loop = "openai-stream-schema"
  /\ \/ Stopped \/ IterationStart \/ AskStream \/ Failed \/ ReplyByBoth(ChatKinds, Parsed)
     \/ RunTool \/ RunUnparsed \/ SkipForeign \/ Round(ParsedAtMax)

ResponsesRun ==
  /\ loop = "responses-run"
  /\ \/ Stopped \/ Ask \/ Failed \/ ReplyByCalls(JsonKinds, {"done"})
     \/ AskGate \/ RunTool \/ RunUnparsed \/ Round({"max"})
ResponsesSchema ==
  /\ loop = "responses-schema"
  /\ \/ Stopped \/ Ask \/ Failed \/ ReplyByCalls(JsonKinds, Parsed)
     \/ RunTool \/ RunUnparsed \/ Round(ParsedAtMax)
ResponsesStream ==
  /\ loop = "responses-stream"
  /\ \/ Stopped \/ IterationStart \/ AskStream \/ Failed \/ Incomplete \/ ReplyByCalls(JsonKinds, {"done"})
     \/ RunTool \/ RunUnparsed \/ Round({"max"})
ResponsesStreamSchema ==
  /\ loop = "responses-stream-schema"
  /\ \/ Stopped \/ IterationStart \/ AskStream \/ Failed \/ Incomplete \/ ReplyByCalls(JsonKinds, Parsed)
     \/ RunTool \/ RunUnparsed \/ Round(ParsedAtMax)

GeminiRun ==
  /\ loop = "gemini-run"
  /\ \/ Stopped \/ Ask \/ Failed \/ ReplyByCalls(Kinds, {"done"}) \/ AskGate \/ RunTool \/ Round({"max"})
(* The one loop that never looks at the signal. *)
GeminiSchema ==
  /\ loop = "gemini-schema"
  /\ \/ AskUnchecked \/ Failed \/ ReplyByCalls(Kinds, Parsed) \/ RunTool \/ Round(ParsedAtMax)
GeminiStream ==
  /\ loop = "gemini-stream"
  /\ \/ Stopped \/ IterationStart \/ AskStream \/ Failed \/ ReplyByCalls(Kinds, {"done"})
     \/ RunTool \/ Round({"max"})
GeminiStreamSchema ==
  /\ loop = "gemini-stream-schema"
  /\ \/ Stopped \/ IterationStart \/ AskStream \/ Failed \/ ReplyByCalls(Kinds, Parsed)
     \/ RunTool \/ Round(ParsedAtMax)

(* The compat driver ends when the batch holds the respond tool, whatever     *)
(* else the batch asks for, and throws where the others stop.                 *)
ReplyForced ==
  /\ pc = "asked"
  /\ \E b \in Answers(ChatKinds \cup {"respond"}) :
       IF \E i \in DOMAIN b : b[i] = "respond"
       THEN \E next \in Parsed : Take(b, next)
       ELSE \E next \in (IF b = <<>> THEN {} ELSE {"calls"}) \cup {"thrown"} : Take(b, next)
CompatSchema ==
  /\ loop = "compat-schema"
  /\ \/ Stopped \/ Ask \/ Failed \/ ReplyForced
     \/ RunTool \/ RunUnparsed \/ SkipForeign \/ Round({"thrown"})
CompatStreamSchema ==
  /\ loop = "compat-stream-schema"
  /\ \/ Stopped \/ IterationStart \/ AskStream \/ Failed \/ ReplyForced
     \/ RunTool \/ RunUnparsed \/ SkipForeign \/ Round({"thrown"})

(***************************************************************************)
(* The caller: aborts, leaves a stream at a yield, resumes.                *)
(***************************************************************************)
Abort == /\ pc \notin Ended \cup {"idle", "suspended"} /\ ~aborted /\ aborted' = TRUE
         /\ UNCHANGED <<leg, pc, late, log, round, count>>

Abandon == /\ loop \in Streamed /\ pc \in {"started", "asked", "calls"} /\ pc' = "abandoned"
           /\ UNCHANGED <<leg, aborted, late, log, round, count>>

Reported == [iterations |-> count.iterations + carry.iterations, usage |-> count.usage + carry.usage]

(* Mutation of Carried: the round that was cut is not counted, as if results on resume did not complete it. *)
CarriedAsIs(r) == [iterations |-> r.iterations, usage |-> r.usage]

(* mergeResumeCounters counts the suspended round as completed. *)
Carried(r) == [iterations |-> r.iterations + 1, usage |-> r.usage]

(* appendResumeResults: every id of the last assistant turn needs a result. *)
Covers(turn, given) == Calls(turn) \subseteq given

Resume(given) ==
  /\ pc = "suspended" /\ resumes < MaxResumes /\ Covers(log[Len(log)], given)
  /\ log' = Append(log, [role |-> "user", ids |-> given])
  /\ carry' = Carried(Reported) /\ count' = [count EXCEPT !.iterations = 0, !.usage = 0]
  /\ pc' = "top" /\ resumes' = resumes + 1 /\ pending' = {} /\ aborted' = FALSE /\ late' = 0
  /\ batch' = <<>> /\ at' = 1 /\ results' = {} /\ ran' = {} /\ gate' = [gate EXCEPT !.asked = {}]
  /\ UNCHANGED loop
ResumeTools == \E given \in SUBSET Calls(log[Len(log)]) : Resume(given)

Step == \/ AnthropicRun \/ AnthropicSchema \/ AnthropicStream \/ AnthropicStreamSchema
        \/ OpenAIRun \/ OpenAISchema \/ OpenAIStream \/ OpenAIStreamSchema
        \/ ResponsesRun \/ ResponsesSchema \/ ResponsesStream \/ ResponsesStreamSchema
        \/ GeminiRun \/ GeminiSchema \/ GeminiStream \/ GeminiStreamSchema
        \/ CompatSchema \/ CompatStreamSchema

LoopNext ==
  \/ RunTools \/ GenerateWithTools \/ StreamTools \/ Step \/ Abort \/ Abandon
  \/ pc = "suspended" /\ ResumeTools
LoopSpec == LoopInit /\ [][LoopNext]_loopVars

\* Requests and tools answer; consumers and callers need not do anything.
LoopFairness == WF_loopVars(Step)

-----------------------------------------------------------------------------
LoopTypeOK ==
  /\ loop \in Loops \cup {"none"} /\ aborted \in BOOLEAN /\ late \in Nat /\ at \in 1..(MaxBatch + 1)
  /\ pc \in Ended \cup {"idle", "top", "started", "asked", "calls", "suspended"}
  /\ resumes \in 0..MaxResumes

(* A request never carries a tool call without its result: the provider      *)
(* refuses one, and the run - or the thread its messages are kept in - is    *)
(* lost.                                                                     *)
Balanced ==
  pc = "asked" =>
    \A i \in 1..Len(log) : log[i].role = "assistant" =>
      i < Len(log) /\ log[i + 1].role = "user" /\ Calls(log[i]) \subseteq log[i + 1].ids

(* A result stands for a call of the turn before it, and a tool only runs    *)
(* for a call the gate, where there is one, has let through.                 *)
Asked == /\ results \subseteq {Id(i) : i \in DOMAIN batch}
         /\ gate.set => ran \subseteq gate.asked

(* What a run reports counts the rounds whose results went back and the      *)
(* replies that were paid for, over all its suspensions.                     *)
Counted ==
  pc \in {"done", "max", "suspended"} =>
    /\ Reported.iterations = Cardinality({i \in 1..Len(log) : log[i].role = "user"})
    /\ Reported.usage = count.replies

(* After an abort a loop sends nothing more.  The exceptions are the code's: *)
(* a Gemini stream may still send the request whose iteration_start the      *)
(* consumer just saw, and the Gemini schema loop never looks.                *)
AbortHolds ==
  /\ loop \notin Gemini \cup {"none"} => late = 0
  /\ loop = "gemini-run" => late = 0
  /\ loop \in Gemini \cap Streamed => late <= 1

(* The conversation of a run: requests are balanced, counters add up over    *)
(* suspensions, tools run only as asked, an abort is obeyed.                 *)
ToolLoopInv == LoopTypeOK /\ Balanced /\ Asked /\ Counted /\ AbortHolds

(* A run ends, suspends or is left by its consumer, whatever the model says: *)
(* the budget of rounds bounds every loop.                                   *)
RunEnds == (pc = "top") ~> (pc \in Ended \cup {"suspended"})

(* suspended_run.ts: the caller answers pendingToolCalls and resumes. *)
PendingResumes == pc = "suspended" => Covers(log[Len(log)], pending)
=============================================================================
