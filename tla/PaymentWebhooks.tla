-------------------------- MODULE PaymentWebhooks --------------------------
(***************************************************************************)
(* payment_link.paid events of the payment provider, from delivery to the  *)
(* attribution of the payment: internal/integrations/razorpay/webhook.go   *)
(* composed with the transactions of PromiseLifecycle.                     *)
(*                                                                         *)
(* An event is reserved in webhook_events in a transaction of its own,     *)
(* then processed, then marked in a third transaction.  The provider       *)
(* delivers an event until it is answered with success, perhaps again      *)
(* while an earlier delivery is still being handled.  Observers that are   *)
(* not handlers serve the API's recovery-observations endpoint.            *)
(***************************************************************************)
EXTENDS PromiseProperties

CONSTANTS
    Events,         \* provider event identities
    Handlers,       \* the observers that serve webhook requests
    NoEvent,
    PaymentOf(_)    \* the payment link an event reports as paid

ASSUME WebhookAssumption ==
    /\ Handlers \subseteq Observers
    /\ NoEvent \notin Events
    /\ \A e \in Events : PaymentOf(e) \in Payments

VARIABLES
    event,          \* webhook_events.status, "absent" before the insert
    handling,       \* the event a handler has reserved and works on
    acknowledged    \* the events the provider will not send again

webhookVars == <<event, handling, acknowledged>>
allVars == <<vars, webhookVars>>

WInit ==
    /\ Init
    /\ event = [e \in Events |-> "absent"]
    /\ handling = [h \in Handlers |-> NoEvent]
    /\ acknowledged = {}

\* Mutant: an event that was not processed to the end is taken up again.
ReserveEvent_Unfinished(h, e) ==
    /\ handling[h] = NoEvent
    /\ e \notin acknowledged
    /\ event[e] # "PROCESSED"
    /\ event' = [event EXCEPT ![e] = "RECEIVED"]
    /\ handling' = [handling EXCEPT ![h] = e]
    /\ UNCHANGED <<vars, acknowledged>>

\* Ingest, up to InsertWebhook: the event was unknown and is this handler's.
ReserveEvent(h, e) ==
    /\ handling[h] = NoEvent
    /\ e \notin acknowledged
    /\ event[e] = "absent"
    /\ event' = [event EXCEPT ![e] = "RECEIVED"]
    /\ handling' = [handling EXCEPT ![h] = e]
    /\ UNCHANGED <<vars, acknowledged>>

\* Ingest of an event whose row exists, in whatever status it is: a duplicate,
\* which is answered with success.
AnswerDuplicate(e) ==
    /\ event[e] # "absent"
    /\ e \notin acknowledged
    /\ acknowledged' = acknowledged \cup {e}
    /\ UNCHANGED <<vars, event, handling>>

\* observePaymentLinkPaid: the payment is attributed to the case its link
\* resolves to.  A link that does not resolve is a failure.
ProcessEvent(h) ==
    /\ handling[h] # NoEvent
    /\ \/ Observe(h, PaymentOf(handling[h]))
       \/ FailObserver(h, PaymentOf(handling[h]))
       \/ FulfilPromise(h)
    /\ UNCHANGED webhookVars

\* Mutant: the mark is the attribution's answer.
FinishEvent_AnswerAsStatus(h) ==
    /\ handling[h] # NoEvent
    /\ event' = [event EXCEPT ![handling[h]] = observer[h].answer]
    /\ acknowledged' = acknowledged \cup {handling[h]}
    /\ handling' = [handling EXCEPT ![h] = NoEvent]
    /\ TakeAnswer(h)

\* finish: the event is marked, and a success is answered with success; the
\* answer may be lost on its way.
FinishEvent(h) ==
    /\ handling[h] # NoEvent
    /\ event' = [event EXCEPT ![handling[h]] =
           IF observer[h].answer = "error" THEN "FAILED" ELSE "PROCESSED"]
    /\ \/ UNCHANGED acknowledged
       \/ /\ observer[h].answer # "error"
          /\ acknowledged' = acknowledged \cup {handling[h]}
    /\ handling' = [handling EXCEPT ![h] = NoEvent]
    /\ TakeAnswer(h)

\* The API process dies, its request is cancelled or the mark fails: the event
\* stays RECEIVED, and an open transaction is rolled back.
LoseHandler(h) ==
    /\ handling[h] # NoEvent
    /\ handling' = [handling EXCEPT ![h] = NoEvent]
    /\ LoseObserver(h)
    /\ UNCHANGED <<event, acknowledged>>

\* An observation through the API, with the payment reference of the caller.
ObserveByAPI(q) ==
    /\ \/ \E pay \in Payments : Observe(q, pay) \/ FailObserver(q, pay)
       \/ FulfilPromise(q)
       \/ TakeAnswer(q)
       \/ LoseObserver(q)
    /\ UNCHANGED webhookVars

WNext ==
    \/ (Clients \/ Resolving \/ Aborting \/ Environment) /\ UNCHANGED webhookVars
    \/ \E q \in Observers \ Handlers : ObserveByAPI(q)
    \/ \E h \in Handlers : ProcessEvent(h) \/ FinishEvent(h) \/ LoseHandler(h)
    \/ \E h \in Handlers, e \in Events : ReserveEvent(h, e)
    \/ \E e \in Events : AnswerDuplicate(e)

WSpec == WInit /\ [][WNext]_allVars

-----------------------------------------------------------------------------

\* The webhook tables and the handlers keep their types (webhook.go,
\* store/integrations.go).
WTypeOK ==
    /\ event \in [Events -> {"absent", "RECEIVED", "PROCESSED", "FAILED"}]
    /\ handling \in [Handlers -> Events \cup {NoEvent}]
    /\ acknowledged \subseteq {e \in Events : event[e] # "absent"}

\* Whatever the provider repeats, no two handlers ever work on one event, and
\* nobody works on an event that is marked: its effect is applied by one
\* delivery only (InsertWebhook before any effect, finish after it).
OneHandlerPerEvent ==
    \A h \in Handlers : handling[h] # NoEvent =>
        /\ event[handling[h]] = "RECEIVED"
        /\ \A g \in Handlers \ {h} : handling[g] # handling[h]

\* A claim: an event marked PROCESSED has had its effect, so its case is over.
ProcessedIsSettled ==
    \A e \in Events : event[e] = "PROCESSED" => caseState \in Terminal

\* A handler that has begun comes to an end, and the provider repeats what was
\* not answered with success.
WFairness ==
    /\ \A h \in Handlers : SF_allVars(ProcessEvent(h)) /\ WF_allVars(FinishEvent(h))
    /\ \A h \in Handlers, e \in Events : WF_allVars(ReserveEvent(h, e))
    /\ \A e \in Events : WF_allVars(AnswerDuplicate(e))
    /\ \A k \in Resolvers : SF_allVars(Resolve(k) /\ UNCHANGED webhookVars)
    /\ WF_allVars(Aborting /\ UNCHANGED webhookVars)

WFairSpec == WSpec /\ WFairness

\* A claim: processing is at least once, so a payment that was delivered, and
\* goes on being delivered until it is acknowledged, closes its case.
DeliveredPaymentCounts ==
    \A e \in Events : (event[e] # "absent") ~> (caseState \in Terminal)
=============================================================================
