------------------------------- MODULE Mailing -------------------------------
(***************************************************************************)
(* @strav/mail and @strav/instant: mailables sent by queue workers through  *)
(* a transport, inbound mail parsed from a provider's webhook and answered  *)
(* unless it was generated, and the LINE channel with its batches of events *)
(* and reply tokens.  Providers are external: they may take a message in    *)
(* and lose the answer, and deliver a webhook again when its answer is lost. *)
(***************************************************************************)
EXTENDS Naturals, Sequences, FiniteSets, SequencesExt

CONSTANTS Transports,   \* drivers of the two sides' default transport
          PeerTransports, Parsers,
          Messages,     \* the first message: the fields it has
          MarkOf,       \* side -> the headers it puts on the answers it generates
          DefaultFrom,  \* config.mail.from is set
          Batches,      \* LINE's webhook requests: the types of their events
          MaxAttempts, MaxLost, MaxMails

VARIABLES via,      \* side -> driver of its default transport
          parser,   \* of both sides' inbound mail
          jobs,     \* the mailables dispatched
          mails,    \* what the providers took in
          batch,    \* LINE's delivery: [events, at, deliveries]
          tokens,   \* event -> replies LINE took in with its token
          handled,  \* event -> times the handler ran to its end
          lost      \* answers lost so far

vars == <<via, parser, jobs, mails, batch, tokens, handled, lost>>

Side == {"app", "peer"}
HeaderNames == {"auto-submitted", "precedence", "x-auto-response-suppress"}
Other(side) == CHOOSE s \in Side : s # side

(***************************************************************************)
(* The transports' send(): what is refused before the request, what goes     *)
(* into it, what a status comes to (0: no answer).  "noCc" is an empty list   *)
(* of them, "to" at least one recipient, "badBase64" an attachment that       *)
(* claims to be encoded.                                                     *)
(***************************************************************************)
Refused == [ok |-> FALSE, retryable |-> FALSE, sent |-> {}]
IsRetryableStatus(status) == status >= 500 \/ status \in {408, 429}
Answered(status, fields) ==
  [ok |-> status \in 200..299, retryable |-> status = 0 \/ IsRetryableStatus(status), sent |-> fields]

ResendSend(m, status) == IF "from" \notin m THEN Refused ELSE Answered(status, m)
\* One reply_to only.
SendGridSend(m, status) ==
  IF "from" \notin m \/ m \cap {"text", "html"} = {} THEN Refused ELSE Answered(status, m \ {"secondReplyTo"})
\* atob() throws an error that says nothing of retrying.
AttachmentToBlob(m) == "badBase64" \notin m
MailgunSend(m, status) == IF "from" \notin m \/ ~AttachmentToBlob(m) THEN Refused ELSE Answered(status, m)
AlibabaSend(m, status) ==
  IF "from" \notin m \/ m \cap {"cc", "noCc", "bcc", "attachments"} # {} \/ "to" \notin m THEN Refused
  ELSE Answered(status, m \ {"secondReplyTo", "headers"})
LogSend(m) == Answered(202, m)
ArraySend(m) == Answered(202, m)

BuildTransport(driver, m, status) ==
  CASE driver = "resend" -> ResendSend(m, status) [] driver = "sendgrid" -> SendGridSend(m, status)
    [] driver = "mailgun" -> MailgunSend(m, status) [] driver = "alibaba" -> AlibabaSend(m, status)
    [] driver = "log" -> LogSend(m) [] driver = "array" -> ArraySend(m)
Local == {"log", "array"}
ApplyDefaultFrom(m) == IF DefaultFrom THEN m \cup {"from"} ELSE m

(***************************************************************************)
(* Inbound: the parsers, the guard of auto-replies.                         *)
(***************************************************************************)
\* A Mailgun request is refused before its signature is looked at when it is stale.
MailgunVerifies(request) == request.multipart /\ request.complete /\ request.fresh /\ request.signed
Parses(request) == IF parser = "mailgun" THEN MailgunVerifies(request) ELSE request.decodes
\* Of a header given twice the last value stays.
Value(headers, name) ==
  LET at == {i \in DOMAIN headers : headers[i][1] = name} IN
  IF at = {} THEN "none" ELSE headers[CHOOSE i \in at : \A j \in at : j <= i][2]
MailgunHeaders(mail) == [name \in HeaderNames |-> Value(mail.headers, name)]
PostmarkHeaders(mail) == [name \in HeaderNames |-> Value(mail.headers, name)]
IsAutoGeneratedMessage(headers) ==
  \/ headers["auto-submitted"] \notin {"none", "no"}
  \/ headers["precedence"] \in {"bulk", "junk", "list"}
  \/ headers["x-auto-response-suppress"] # "none"
IsAutoGenerated(mail) ==
  IsAutoGeneratedMessage(IF parser = "mailgun" THEN MailgunHeaders(mail) ELSE PostmarkHeaders(mail))

(***************************************************************************)
(* LINE: what is sent of a message, what a batch of events becomes.         *)
(***************************************************************************)
ToLineAttachment(type) == IF type = "file" THEN "text" ELSE type
ToLineMessages(m) ==
  IF "raw" \in DOMAIN m THEN <<m.raw>>
  ELSE (IF m.text THEN <<"text">> ELSE <<>>) \o [i \in DOMAIN m.attachments |-> ToLineAttachment(m.attachments[i])]
LineReplies == {[raw |-> "flex"], [text |-> TRUE, attachments |-> <<"file">>], [text |-> FALSE, attachments |-> <<>>]}

ReplyToken(type) == IF type \in {"text", "postback", "follow", "join", "beacon"} THEN {type} ELSE {}
\* An event whose body misses what its type promises throws, and the batch with it.
Readable(type) == type # "malformed"
ParseLineWebhook(events) == IF \A i \in DOMAIN events : Readable(events[i]) THEN events ELSE <<>>

-----------------------------------------------------------------------------
Init ==
  /\ via \in [Side -> Transports] /\ via.peer \in PeerTransports /\ parser \in Parsers
  /\ jobs = <<>> /\ mails = <<>> /\ lost = 0
  /\ batch \in {[events |-> events, at |-> 0, deliveries |-> 0] : events \in Batches}
  /\ tokens = [i \in DOMAIN batch.events |-> 0] /\ handled = [i \in DOMAIN batch.events |-> 0]

Job(side, m, headers, answers) ==
  [by |-> side, message |-> m, headers |-> headers, answers |-> answers, state |-> "queued", attempts |-> 0,
   last |-> Answered(202, {}), taken |-> FALSE, accepted |-> 0, unheard |-> 0]

\* queue.dispatch(Mailable, payload)
Dispatch(m) == /\ jobs = <<>> /\ batch.events = <<>>
               /\ jobs' = <<Job("app", m, <<>>, 0)>>
               /\ UNCHANGED <<via, parser, mails, batch, tokens, handled, lost>>

\* One attempt of a worker: build, default sender, transport, provider.  A request
\* that was served may go unheard: its answer lost, or the worker dead.
Handle(j) ==
  \E status \in {0, 202, 422, 429, 503}, served, dies \in BOOLEAN :
    LET driver == via[jobs[j].by]
        answer == BuildTransport(driver, ApplyDefaultFrom(jobs[j].message), status)
        attempts == jobs[j].attempts + 1
        unheard == IF served /\ (dies \/ ~answer.ok) THEN 1 ELSE 0
        mail == [by |-> jobs[j].by, fields |-> answer.sent, job |-> j, answers |-> jobs[j].answers,
                 headers |-> IF "headers" \in answer.sent THEN jobs[j].headers ELSE <<>>,
                 hook |-> IF driver \in Local THEN "kept" ELSE "due", deliveries |-> 0, unheard |-> 0] IN
    /\ jobs[j].state = "queued"
    /\ answer.sent = {} \/ driver \in Local => status = 202
    /\ served => answer.sent # {} /\ status \in {0, 202, 503}
    /\ (answer.ok => served) /\ (dies => answer.ok)
    /\ lost' = lost + unheard /\ lost' <= MaxLost
    /\ mails' = IF served THEN Append(mails, mail) ELSE mails
    /\ jobs' = [jobs EXCEPT ![j].attempts = attempts, ![j].last = answer, ![j].taken = served,
                  ![j].accepted = IF served THEN @ + 1 ELSE @, ![j].unheard = @ + unheard,
                  ![j].state = IF answer.ok /\ ~dies THEN "sent" ELSE IF attempts = MaxAttempts THEN "dead" ELSE "queued"]
    /\ UNCHANGED <<via, parser, batch, tokens, handled>>

\* The provider posts mail i to the other side's webhook, whose handler answers it.
Request == {[multipart |-> TRUE, decodes |-> TRUE, complete |-> TRUE, signed |-> TRUE, fresh |-> fresh] :
             fresh \in BOOLEAN}
Receive(i) ==
  /\ mails[i].hook = "due"
  /\ \E request \in Request, heard \in BOOLEAN :
       /\ request.fresh \/ mails[i].deliveries > 0
       /\ heard \/ lost < MaxLost
       /\ lost' = IF heard THEN lost ELSE lost + 1
       /\ mails' = [mails EXCEPT ![i].hook = IF heard THEN "answered" ELSE "due", ![i].deliveries = @ + 1,
                      ![i].unheard = IF heard THEN @ ELSE @ + 1]
       /\ IF Parses(request) /\ ~IsAutoGenerated(mails[i])
          THEN LET side == Other(mails[i].by) IN jobs' = Append(jobs, Job(side, {"to", "text", "headers"}, MarkOf[side], i))
          ELSE UNCHANGED jobs
  /\ UNCHANGED <<via, parser, batch, tokens, handled>>

\* LINE posts its batch, and again when it was not answered with 200.
Deliver ==
  /\ batch.events # <<>> /\ batch.at = 0 /\ batch.deliveries < MaxAttempts
  /\ batch' = [batch EXCEPT !.deliveries = @ + 1, !.at = IF ParseLineWebhook(batch.events) = <<>> THEN 0 ELSE 1]
  /\ UNCHANGED <<via, parser, jobs, mails, tokens, handled, lost>>

\* The route handles one event after the other; what throws ends the request.
Throws == batch' = [batch EXCEPT !.at = 0] /\ UNCHANGED handled
Returns == batch' = [batch EXCEPT !.at = @ + 1] /\ handled' = [handled EXCEPT ![batch.at] = @ + 1]
HandleEvent ==
  /\ batch.at \in DOMAIN batch.events
  /\ IF ReplyToken(batch.events[batch.at]) = {} THEN Returns /\ UNCHANGED <<tokens, lost>>
     ELSE \E m \in LineReplies :
            IF ToLineMessages(m) = <<>> \/ tokens[batch.at] > 0 THEN Throws /\ UNCHANGED <<tokens, lost>>
            ELSE /\ tokens' = [tokens EXCEPT ![batch.at] = @ + 1]
                 /\ \/ Returns /\ UNCHANGED lost
                    \/ lost < MaxLost /\ lost' = lost + 1 /\ Throws
  /\ UNCHANGED <<via, parser, jobs, mails>>

Next == \/ \E m \in Messages : Dispatch(m)
        \/ \E j \in DOMAIN jobs : Len(mails) < MaxMails /\ Handle(j)
        \/ \E i \in DOMAIN mails : Receive(i)
        \/ Deliver \/ HandleEvent

Spec == Init /\ [][Next]_vars

-----------------------------------------------------------------------------
(* An answer to an answer exists only where a transport dropped the headers   *)
(* that mark the first as generated: two sides that answer each other stop    *)
(* after one round (isAutoGeneratedMessage, mailgun and postmark parsers).    *)
LoopsEnd ==
  \A j \in DOMAIN jobs :
    LET i == jobs[j].answers IN
    i # 0 /\ mails[i].answers # 0 => via[mails[i].by] = "alibaba"

(* A mailable arrives at most once more than its worker failed to hear of it, *)
(* and an attempt that ends in a permanent error sent nothing (the transports'  *)
(* `retryable`).                                                              *)
CopiesHaveACause ==
  \A j \in DOMAIN jobs :
    /\ jobs[j].accepted <= 1 + jobs[j].unheard
    /\ jobs[j].state = "sent" => jobs[j].accepted > 0
    /\ ~jobs[j].last.ok /\ ~jobs[j].last.retryable => ~jobs[j].taken

(* Whatever was taken in has every field of its message, but for a second     *)
(* replyTo and, at Alibaba, the headers; a sender is never missing, unless     *)
(* nothing was sent at all (transports' send).                                *)
NothingDropped ==
  \A i \in DOMAIN mails :
    LET m == ApplyDefaultFrom(jobs[mails[i].job].message) IN
    /\ m \ mails[i].fields \subseteq {"secondReplyTo"} \cup (IF via[mails[i].by] = "alibaba" THEN {"headers"} ELSE {})
    /\ via[mails[i].by] \notin Local => "from" \in mails[i].fields

(* A mail is answered at most once for each time its webhook was delivered.   *)
AnswersHaveACause ==
  \A i \in DOMAIN mails : Cardinality({j \in DOMAIN jobs : jobs[j].answers = i}) <= 1 + mails[i].unheard

(* The events of a LINE request are answered in order and once each: one that  *)
(* cannot be read keeps back them all, and one whose answer was lost keeps    *)
(* back those behind it in every later delivery, its token being spent        *)
(* (parseLineWebhook, LineDriver.reply).                                      *)
BatchInOrder ==
  \A i \in DOMAIN batch.events :
    /\ ~Readable(batch.events[i]) => \A k \in DOMAIN batch.events : tokens[k] + handled[k] = 0
    /\ tokens[i] > handled[i] /\ batch.at # i => \A k \in DOMAIN batch.events : k > i => tokens[k] + handled[k] = 0

MailingInv == LoopsEnd /\ CopiesHaveACause /\ NothingDropped /\ AnswersHaveACause /\ BatchInOrder
=============================================================================
