------------------------------ MODULE MCDelivery ------------------------------
(***************************************************************************)
(* What must be answered: a provider's webhook event, a run of a tool loop. *)
(* The modules share no state, so one run checks both, each behaviour being *)
(* of the part it starts with.                                              *)
(***************************************************************************)
EXTENDS PaymentWebhook, ToolLoop

VARIABLE part

(***************************************************************************)
(* Two events of one subscription, one of a charge without a tenant, and    *)
(* the handlers an application registered for them.                         *)
(***************************************************************************)
Delivered(id, provider, key, object, version, tenant) ==
    [id |-> id, provider |-> provider, key |-> key, object |-> object,
     version |-> version, tenant |-> tenant]
Events ==
    {Delivered("e1", "stripe", "customer.subscription.created", "sub", 1, TRUE),
     Delivered("e2", "stripe", "customer.subscription.deleted", "sub", 2, TRUE),
     Delivered("e3", "omise", "charge.complete", "charge", 1, FALSE)}
OnWebhookEvent ==
    <<[type |-> "subscription.created", provider |-> "any"],
      [type |-> "charge.succeeded", provider |-> "stripe"],
      [type |-> "subscription.created", provider |-> "stripe"],
      [type |-> "subscription.canceled", provider |-> "stripe"],
      [type |-> "charge.succeeded", provider |-> "omise"]>>

AllLoops == {
    "anthropic-run", "openai-run", "responses-run", "gemini-run",
    "anthropic-schema", "openai-schema", "responses-schema", "gemini-schema", "compat-schema",
    "anthropic-stream", "anthropic-stream-schema", "openai-stream", "openai-stream-schema",
    "responses-stream", "responses-stream-schema", "gemini-stream", "gemini-stream-schema",
    "compat-stream-schema"}

DeliveryInit == part \in {"payment", "tools"} /\ Init /\ LoopInit

DeliveryNext ==
    /\ part' = part
    /\ \/ part = "payment" /\ Next /\ UNCHANGED loopVars
       \/ part = "tools" /\ LoopNext /\ UNCHANGED vars

\* The fairness of the part the behaviour is of.
PartFairness ==
    \/ [](part = "payment") /\ Fairness
    \/ [](part = "tools") /\ LoopFairness

FairSpec == DeliveryInit /\ [][DeliveryNext]_<<part, vars, loopVars>> /\ PartFairness

\* Every event is answered 200 in the end (payment_webhook.ts).
PaymentAnswered == part = "payment" => EveryEventAnswered
===============================================================================
