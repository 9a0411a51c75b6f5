----------------------------- MODULE HttpStreams -----------------------------
(***************************************************************************)
(* The two streams of an HTTP exchange in @strav/http: the request's body   *)
(* and a response of server-sent events.  They share no state.              *)
(*                                                                         *)
(* The body's stream can be read once; body() - and json() and input()      *)
(* through it - and form() - and file() - keep what they read, each in a    *)
(* field of its own, after an await.                                        *)
(*                                                                         *)
(* The response: a loop takes the items of an iterable and enqueues their   *)
(* frames, a timer enqueues heartbeats, the client's abort signal or the    *)
(* cancellation of the stream ends them.  The iterable is an async          *)
(* generator, whose return() waits for the next() before it, or a broadcast *)
(* subscription, whose return() answers it.                                 *)
(***************************************************************************)
EXTENDS Integers, Sequences, FiniteSets

CONSTANTS Reader, None,
          MaxItems,      \* bound: items produced
          MaxHeartbeats  \* bound: heartbeats sent

VARIABLES type,        \* content-type: "json", "form", "text" or "none"
          valid,       \* the body parses
          stream,      \* "unread" or "used"
          parsedBody, parsedForm,  \* None or what was read: "body", "null" or "form"
          reader,      \* reader -> [pc, call: "body" or "form", answer]
          overlapped   \* one called while another was reading

bodyVars == <<type, valid, stream, parsedBody, parsedForm, reader, overlapped>>

BodyInit == /\ type \in {"json", "form", "text", "none"} /\ valid \in BOOLEAN /\ (type # "json" => valid)
            /\ stream = "unread" /\ parsedBody = None /\ parsedForm = None /\ overlapped = FALSE
            /\ reader = [r \in Reader |-> [pc |-> "idle", call |-> None, answer |-> None]]

VARIABLES kind,        \* "generator" or "subscription"
          iterator,    \* "fresh", "waiting" for an event, "suspended" at a yield, "done": its finally ran
          queued,      \* a return() waits for the event a generator waits for
          answer,      \* what the loop's next() has: "none", "pending", "item", "end", "error"
          loop,        \* "starting", "running", "ended"
          controller,  \* "open", "closed", "errored"
          aborted, timer,
          gone,        \* the client is
          frames,      \* the frames enqueued: item numbers, 0 for a heartbeat
          produced

sseVars == <<kind, iterator, queued, answer, loop, controller, aborted, timer, gone, frames, produced>>

SseInit == /\ kind \in {"generator", "subscription"} /\ iterator = "fresh" /\ queued = FALSE
           /\ answer = "none" /\ loop = "starting" /\ controller = "open"
           /\ aborted = FALSE /\ timer = FALSE /\ gone \in BOOLEAN /\ frames = <<>> /\ produced = 0

Reading(r) == reader[r].pc \in {"reading", "refused"}

(* The stream is read once; whoever asks again is refused, which the JSON      *)
(* parser's catch turns into null.                                             *)
Read(r, call, parsed) ==
  /\ stream' = "used"
  /\ reader' = [reader EXCEPT ![r] = [pc |-> IF stream = "unread" THEN "reading" ELSE "refused", call |-> call,
                                      answer |-> IF stream = "unread" /\ parsed THEN call ELSE "null"]]
  /\ UNCHANGED <<parsedBody, parsedForm>>

Answer(r, call, value) ==
  /\ reader' = [reader EXCEPT ![r] = [pc |-> "answered", call |-> call, answer |-> value]]
  /\ UNCHANGED <<stream, parsedForm>>

(* body(). *)
Body(r) ==
  \/ parsedBody # None /\ Answer(r, "body", parsedBody) /\ parsedBody' = parsedBody
  \/ parsedBody = None /\ type = "none" /\ Answer(r, "body", "null") /\ parsedBody' = "null"
  \/ parsedBody = None /\ type # "none" /\ Read(r, "body", valid)

(* form(): the kept form, an empty one when body() read something else, or a read. *)
Form(r) ==
  /\ type = "form"
  /\ \/ parsedForm # None /\ Answer(r, "form", parsedForm) /\ parsedBody' = parsedBody
     \/ parsedForm = None /\ parsedBody # None /\ Answer(r, "form", "null") /\ parsedBody' = parsedBody
     \/ parsedForm = None /\ parsedBody = None /\ Read(r, "form", TRUE)

Call(r) ==
  /\ ~Reading(r) /\ (Body(r) \/ Form(r))
  /\ overlapped' = (overlapped \/ \E q \in Reader : Reading(q))
  /\ UNCHANGED <<type, valid>>

(* The read ends: what it gave is kept, the null of a refused JSON too, or it throws. *)
Settle(r) ==
  /\ Reading(r)
  /\ LET kept == reader[r].pc = "reading" \/ type = "json" IN
     /\ reader' = [reader EXCEPT ![r].pc = IF kept THEN "answered" ELSE "threw"]
     /\ parsedBody' = IF kept /\ reader[r].call = "body" THEN reader[r].answer ELSE parsedBody
     /\ parsedForm' = IF kept /\ type = "form" THEN "form" ELSE parsedForm
  /\ UNCHANGED <<type, valid, stream, overlapped>>

BodyNext == \E r \in Reader : Call(r) \/ Settle(r)

(***************************************************************************)
(* The iterable.                                                           *)
(***************************************************************************)
(* An event: the generator yields it - and ends there if its return() was queued. *)
Produce ==
  /\ iterator = "waiting" /\ produced < MaxItems /\ produced' = produced + 1
  /\ answer' = "item" /\ iterator' = IF queued THEN "done" ELSE "suspended"
  /\ UNCHANGED <<kind, queued, loop, controller, aborted, timer, gone, frames>>

(* It returns, or throws. *)
Finish ==
  /\ iterator = "waiting" /\ iterator' = "done" /\ answer' \in {"end", "error"}
  /\ UNCHANGED <<kind, queued, loop, controller, aborted, timer, gone, frames, produced>>

(* close(): the timer is cleared and return() called. *)
Close(stopped) ==
  /\ timer' = IF stopped THEN FALSE ELSE timer
  /\ IF iterator # "waiting" THEN iterator' = "done" /\ UNCHANGED <<queued, answer>>
     ELSE IF kind = "generator" THEN queued' = TRUE /\ UNCHANGED <<iterator, answer>>
     ELSE iterator' = "done" /\ answer' = "end" /\ queued' = queued

(* next(). *)
Pull(from) == IF from = "done" THEN iterator' = "done" /\ answer' = "end"
              ELSE iterator' = "waiting" /\ answer' = "pending"

(***************************************************************************)
(* start(): the heartbeat, the abort listener - or the abort at once, when *)
(* the client is gone already - and the loop up to its first next().       *)
(***************************************************************************)
Start ==
  /\ loop = "starting" /\ loop' = "running"
  /\ aborted' = gone /\ timer' = ~gone /\ controller' = IF gone THEN "closed" ELSE "open"
  /\ Pull(IF gone THEN "done" ELSE "fresh")
  /\ UNCHANGED <<kind, queued, gone, frames, produced>>

(* The signal aborts, or the stream's reader cancels. *)
Leave ==
  /\ ~gone /\ loop # "starting" /\ gone' = TRUE
  /\ aborted' = TRUE /\ controller' = IF controller = "open" THEN "closed" ELSE controller
  /\ Close(TRUE)
  /\ UNCHANGED <<kind, loop, frames, produced>>

(* The loop has an item: it enqueues the frame and asks for the next, or ends. *)
Take ==
  /\ loop = "running" /\ answer = "item"
  /\ IF aborted
     THEN loop' = "ended" /\ answer' = "none" /\ iterator' = "done"
          /\ timer' = FALSE /\ UNCHANGED <<queued, frames>>
     ELSE /\ frames' = Append(frames, produced)
          /\ Pull(iterator) /\ UNCHANGED <<queued, loop, timer>>
  /\ UNCHANGED <<kind, controller, aborted, gone, produced>>

(* The iterable ended or threw: the stream is closed, or errored. *)
EndLoop ==
  /\ loop = "running" /\ answer \in {"end", "error"} /\ loop' = "ended"
  /\ controller' = IF aborted THEN controller ELSE IF answer = "end" THEN "closed" ELSE "errored"
  /\ iterator' = "done" /\ timer' = FALSE /\ answer' = "none"
  /\ UNCHANGED <<kind, queued, aborted, gone, frames, produced>>

(* The interval fires; enqueue() on a closed stream throws and is caught. *)
Heartbeat ==
  /\ timer /\ ~aborted /\ Cardinality({i \in DOMAIN frames : frames[i] = 0}) < MaxHeartbeats
  /\ frames' = IF controller = "open" THEN Append(frames, 0) ELSE frames
  /\ UNCHANGED <<kind, iterator, queued, answer, loop, controller, aborted, timer, gone, produced>>

SseNext == Start \/ Produce \/ Finish \/ Leave \/ Take \/ EndLoop \/ Heartbeat

Init == BodyInit /\ SseInit
Next == (BodyNext /\ UNCHANGED sseVars) \/ (SseNext /\ UNCHANGED bodyVars)
Spec == Init /\ [][Next]_<<bodyVars, sseVars>>

-----------------------------------------------------------------------------
BodyAnswers(r) == reader[r].pc = "answered" /\ reader[r].answer = (IF type = "none" \/ ~valid THEN "null" ELSE "body")

(* Readers that wait for one another get the same body from body(), and a     *)
(* form() after a body() that parsed the form gets that form - but a body()   *)
(* after a form() asks for the stream again and throws (http_request.ts).     *)
BodyIsReadOnce ==
  ~overlapped => \A r \in Reader :
    /\ reader[r].call = "body" /\ ~Reading(r) => BodyAnswers(r) \/ (reader[r].pc = "threw" /\ parsedForm # None)
    /\ reader[r].call = "form" /\ ~Reading(r) => reader[r].answer = "form"

(* docs/http/api.md:224 says that calls after the first return the cached     *)
(* value and the body is read at most once.                                   *)
EveryReaderIsAnswered ==
  \A r \in Reader : reader[r].call = "body" /\ ~Reading(r) => BodyAnswers(r)

Items == {frames[i] : i \in DOMAIN frames} \ {0}

(* When the loop has ended, or the client left and nothing is on its way to   *)
(* the loop, the timer is gone and the iterable has run its finally; the one  *)
(* exception is a generator in the middle of an await, which runs it with the *)
(* next event it gets (sse_response.ts close).                                *)
StreamIsReleased ==
  /\ loop = "ended" => ~timer /\ iterator = "done" /\ controller # "open"
  /\ aborted => /\ ~timer /\ controller # "open"
                /\ iterator \in {"suspended", "waiting"} => kind = "generator" /\ queued /\ iterator = "waiting"

(* Frames are the items in order, none twice and none left out before the     *)
(* last, and nothing was enqueued on a stream that was closed.                *)
FramesInOrder ==
  /\ \A i, j \in DOMAIN frames : i < j /\ frames[i] # 0 /\ frames[j] # 0 => frames[i] < frames[j]
  /\ \E n \in 0..produced : Items = 1..n /\ (~aborted => n = produced - (IF answer = "item" THEN 1 ELSE 0))

SseInv == StreamIsReleased /\ FramesInOrder

(* sse_response.ts:17-20 says that the client's abort makes generators run    *)
(* their finally blocks: whatever is left to do, an event is not needed.      *)
AbortReleases == aborted /\ answer = "pending" => iterator = "done"
=============================================================================
