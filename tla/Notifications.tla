---------------------------- MODULE Notifications ----------------------------
(***************************************************************************)
(* @strav/notification: the manager's fan-out over its channels, the        *)
(* channel drivers, and the registry of the SSE channel, whose subscribers  *)
(* come and go while a dispatch awaits its hook.  The endpoints, Discord    *)
(* and the mail transport behind a channel are external: they may serve a   *)
(* request and lose the answer.                                             *)
(***************************************************************************)
EXTENDS Naturals, Sequences

CONSTANTS Dispatch,      \* calls of NotificationManager.send
          Vias,          \* what via() may answer: a channel list for each dispatch
          Subscriber,
          Keys,          \* subscriber keys; dispatches are for the first of them
          KeyOf,         \* the key of the notifiable
          QueueSize

VARIABLES dispatch,   \* dispatch -> [at, via, answers, bucket]
          received,   \* (channel, dispatch) pairs the other side took in
          records,    \* ids of the rows of the database channel
          sub,        \* subscriber -> [at, key, queue, taken, dropped, pushed, closed]
          registry,   \* key -> the bucket it names, 0: none
          buckets     \* every Set made for a key

vars == <<dispatch, received, records, sub, registry, buckets>>

(***************************************************************************)
(* The channel drivers: what send() comes to when the other side answers a  *)
(* status (0: no answer).                                                   *)
(***************************************************************************)
Delivered == [is |-> "delivered", retryable |-> FALSE]
Skipped == [is |-> "skipped", retryable |-> FALSE]   \* no hook, or nobody to send to
Error(retryable) == [is |-> "error", retryable |-> retryable]
Ok(status) == status \in 200..299

WebhookSend(hook, status) ==
  IF hook = "none" THEN Skipped ELSE IF hook = "throws" THEN Error(FALSE)
  ELSE IF status = 0 THEN Error(TRUE) ELSE IF Ok(status) THEN Delivered
  ELSE Error(status >= 500 \/ status \in {408, 429})
\* Without a URL in the message, the notifiable or the config nothing is sent.
DiscordSend(hook, status) ==
  IF hook \in {"none", "noUrl"} THEN Skipped ELSE IF hook = "throws" THEN Error(FALSE)
  ELSE IF status = 0 THEN Error(TRUE) ELSE IF Ok(status) THEN Delivered
  ELSE Error(status >= 500 \/ status = 429)
MailSend(hook, status) ==
  IF hook = "none" THEN Skipped ELSE IF hook = "throws" \/ ~Ok(status) THEN Error(FALSE) ELSE Delivered
BroadcastSend(hook, status) ==
  IF hook = "none" THEN Skipped ELSE IF hook = "throws" THEN Error(FALSE)
  ELSE IF Ok(status) THEN Delivered ELSE Error(FALSE)
\* One row per dispatch: its id is the primary key.
DatabaseSend(hook, taken) ==
  IF hook = "none" THEN Skipped ELSE IF hook = "throws" \/ taken THEN Error(FALSE) ELSE Delivered
LogSend(hook) == IF hook = "throws" THEN Error(FALSE) ELSE Delivered

Send(channel, hook, status, taken) ==
  CASE channel = "webhook" -> WebhookSend(hook, status) [] channel = "discord" -> DiscordSend(hook, status)
    [] channel = "mail" -> MailSend(hook, status) [] channel = "broadcast" -> BroadcastSend(hook, status)
    [] channel = "database" -> DatabaseSend(hook, taken) [] channel = "log" -> LogSend(hook)
Remote == {"webhook", "discord", "mail", "broadcast"}
Use(channel) == channel # "unknown"   \* configured, with a driver that is registered

-----------------------------------------------------------------------------
NotYet == [at |-> "off", key |-> "none", queue |-> <<>>, taken |-> <<>>, dropped |-> 0, pushed |-> <<>>, closed |-> FALSE]
Init == /\ dispatch \in {[d \in Dispatch |-> [at |-> "start", via |-> via[d], answers |-> <<>>, bucket |-> 0]] : via \in Vias}
        /\ received = {} /\ records = {}
        /\ sub = [s \in Subscriber |-> NotYet]
        /\ registry = [k \in Keys |-> 0] /\ buckets = <<>>

(***************************************************************************)
(* NotificationManager.send: one channel after the other, whatever throws.  *)
(***************************************************************************)
Channel(d) == dispatch[d].via[Len(dispatch[d].answers) + 1]
Busy(d) == dispatch[d].at = "start" /\ Len(dispatch[d].answers) < Len(dispatch[d].via)
Answers(d, answer) ==
  dispatch' = [dispatch EXCEPT ![d].answers = Append(@, [channel |-> Channel(d), is |-> answer.is, retryable |-> answer.retryable]), ![d].at = "start"]

UnknownChannel(d) ==
  /\ Busy(d) /\ ~Use(Channel(d)) /\ Answers(d, Error(FALSE))
  /\ UNCHANGED <<received, records, sub, registry, buckets>>

SendByDriver(d) ==
  /\ Busy(d) /\ Use(Channel(d)) /\ Channel(d) # "sse"
  /\ \E hook \in {"none", "throws", "answers", "noUrl"}, status \in {0, 200, 204, 408, 422, 503} :
       LET sent == hook = "answers" /\ Channel(d) \in Remote
           answer == Send(Channel(d), hook, status, d \in records) IN
       /\ hook = "noUrl" => Channel(d) = "discord"
       /\ Channel(d) \in Remote <=> status # 200    \* 200: nothing is sent to another process
       /\ Answers(d, answer)
       /\ \E served \in SUBSET {<<Channel(d), d>>} :
            /\ served # {} => sent /\ status \notin {408, 422}
            /\ sent /\ Ok(status) => served # {}
            /\ received' = received \cup served
       /\ records' = IF Channel(d) = "database" /\ answer = Delivered THEN records \cup {d} ELSE records
  /\ UNCHANGED <<sub, registry, buckets>>

(***************************************************************************)
(* The SSE channel.                                                        *)
(***************************************************************************)
\* The bucket is looked up before toSSE() is awaited ...
SseSend(d) ==
  /\ Busy(d) /\ Channel(d) = "sse"
  /\ LET b == registry[KeyOf] IN
     \/ Answers(d, Skipped)                        \* no hook
     \/ b = 0 /\ Answers(d, Skipped)
     \/ b # 0 /\ dispatch' = [dispatch EXCEPT ![d].at = "hook", ![d].bucket = b]
  /\ UNCHANGED <<received, records, sub, registry, buckets>>
SseHookThrows(d) == /\ dispatch[d].at = "hook" /\ Answers(d, Error(FALSE))
                    /\ UNCHANGED <<received, records, sub, registry, buckets>>

\* push(): a full queue loses its oldest event; a waiting consumer is woken.
Pushed(s, d) ==
  IF s.closed THEN s
  ELSE [s EXCEPT !.queue = Append(IF Len(@) >= QueueSize THEN Tail(@) ELSE @, d),
                 !.dropped = IF Len(s.queue) >= QueueSize THEN @ + 1 ELSE @,
                 !.pushed = Append(@, d), !.at = IF @ = "waiting" THEN "woken" ELSE @]

\* ... and pushed to when it answered: to those then in it.
SsePush(d) ==
  /\ dispatch[d].at = "hook" /\ Answers(d, Delivered)
  /\ sub' = [s \in Subscriber |-> IF s \in buckets[dispatch[d].bucket] THEN Pushed(sub[s], d) ELSE sub[s]]
  /\ UNCHANGED <<received, records, registry, buckets>>

\* Iterating the subscription registers it.
Subscribe(s, k) ==
  /\ sub[s].at = "off"
  /\ sub' = [sub EXCEPT ![s].at = "idle", ![s].key = k]
  /\ IF registry[k] = 0
     THEN buckets' = Append(buckets, {s}) /\ registry' = [registry EXCEPT ![k] = Len(buckets')]
     ELSE buckets' = [buckets EXCEPT ![registry[k]] = @ \cup {s}] /\ UNCHANGED registry
  /\ UNCHANGED <<dispatch, received, records>>

\* next(), and again when the wait ends: an event, the end, or a wait.
Pulled(s) ==
  IF s.queue # <<>> THEN [s EXCEPT !.at = "idle", !.taken = Append(s.taken, Head(s.queue)), !.queue = Tail(s.queue)]
  ELSE [s EXCEPT !.at = IF s.closed THEN "ended" ELSE "waiting"]
Pull(s) ==
  /\ sub[s].at \in {"idle", "woken"}
  /\ sub' = [sub EXCEPT ![s] = Pulled(sub[s])]
  /\ UNCHANGED <<dispatch, received, records, registry, buckets>>

\* return() or throw(): by the consumer, or by the response while next() waits.
Detach(s) ==
  /\ sub[s].at \notin {"off", "ended"} /\ ~sub[s].closed
  /\ sub' = [sub EXCEPT ![s].closed = TRUE, ![s].at = IF @ = "waiting" THEN "woken" ELSE @]
  /\ LET b == registry[sub[s].key] left == buckets[b] \ {s} IN
     /\ buckets' = [buckets EXCEPT ![b] = left]
     /\ registry' = IF left = {} THEN [registry EXCEPT ![sub[s].key] = 0] ELSE registry
  /\ UNCHANGED <<dispatch, received, records>>

Next == \/ \E d \in Dispatch : UnknownChannel(d) \/ SendByDriver(d) \/ SseSend(d) \/ SseHookThrows(d) \/ SsePush(d)
        \/ \E s \in Subscriber : Pull(s) \/ Detach(s) \/ \E k \in Keys : Subscribe(s, k)

Spec == Init /\ [][Next]_vars

-----------------------------------------------------------------------------
(* Every channel via() named is answered once and in its place, whatever the  *)
(* channels before it threw (notification_manager.ts send).                   *)
EveryChannelAnswered ==
  \A d \in Dispatch : \A i \in DOMAIN dispatch[d].answers : dispatch[d].answers[i].channel = dispatch[d].via[i]

(* An application that resends what failed as retryable, and drops what did   *)
(* not, is told the truth: delivered was taken in, skipped and refused were   *)
(* not, and what may have been taken in although it failed is either flagged  *)
(* retryable or of a channel that flags nothing (mail, broadcast).            *)
AnswersAreTrue ==
  \A d \in Dispatch : \A i \in DOMAIN dispatch[d].answers :
    LET a == dispatch[d].answers[i]
        once == \A j \in DOMAIN dispatch[d].via : dispatch[d].via[j] = a.channel => j = i IN
    a.channel \in Remote =>
      /\ a.is = "delivered" => <<a.channel, d>> \in received
      /\ once /\ a.is = "skipped" => <<a.channel, d>> \notin received
      /\ once /\ a.is = "error" /\ ~a.retryable /\ a.channel \notin {"mail", "broadcast"} => <<a.channel, d>> \notin received

(* The registry names the open subscriptions of a key and no empty bucket,    *)
(* though a dispatch may still hold a bucket that was dropped.                *)
RegistryHoldsTheOpen ==
  \A k \in Keys :
    LET open == {s \in Subscriber : sub[s].at # "off" /\ ~sub[s].closed /\ sub[s].key = k} IN
    IF registry[k] = 0 THEN open = {} ELSE buckets[registry[k]] = open /\ open # {}

(* A subscriber gets what was pushed to it in order and once, the oldest lost *)
(* when it is slow, and never waits while an event or the end is there for it *)
(* (sse_notification_driver.ts makeSubscription).                             *)
SubscribersGetTheirEvents ==
  \A s \in Subscriber :
    LET got == sub[s].taken \o sub[s].queue IN
    /\ Len(got) + sub[s].dropped = Len(sub[s].pushed)
    /\ \E f \in [DOMAIN got -> DOMAIN sub[s].pushed] :
         \A i, j \in DOMAIN got : got[i] = sub[s].pushed[f[i]] /\ (i < j => f[i] < f[j])
    /\ Len(sub[s].queue) <= QueueSize
    /\ sub[s].at = "waiting" => sub[s].queue = <<>> /\ ~sub[s].closed

NotificationsInv == EveryChannelAnswered /\ AnswersAreTrue /\ RegistryHoldsTheOpen /\ SubscribersGetTheirEvents
=============================================================================
