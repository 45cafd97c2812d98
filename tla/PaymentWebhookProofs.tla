------------------------ MODULE PaymentWebhookProofs ------------------------
(***************************************************************************)
(* Proofs about PaymentWebhooks, for any number of events, deliveries and  *)
(* handlers: its types, the exclusive handling of an event, and that the   *)
(* composition implements PromiseLifecycle, so that what is proved there   *)
(* holds of payments that arrive as webhooks.                              *)
(***************************************************************************)
EXTENDS PaymentWebhooks, PromiseProofs

LEMMA WebhookInit == WInit => WTypeOK /\ OneHandlerPerEvent
BY WebhookAssumption DEF WInit, WTypeOK, OneHandlerPerEvent, WebhookAssumption

\* A step that leaves the webhook tables and handlers alone.
LEMMA OtherStep ==
    ASSUME WTypeOK, OneHandlerPerEvent, UNCHANGED webhookVars
    PROVE  WTypeOK' /\ OneHandlerPerEvent'
BY DEF webhookVars, WTypeOK, OneHandlerPerEvent

LEMMA ReserveStep ==
    ASSUME WTypeOK, OneHandlerPerEvent, NEW h \in Handlers, NEW e \in Events, ReserveEvent(h, e)
    PROVE  WTypeOK' /\ OneHandlerPerEvent'
<1>1. /\ event[e] = "absent"
      /\ event' = [event EXCEPT ![e] = "RECEIVED"]
      /\ handling' = [handling EXCEPT ![h] = e]
      /\ acknowledged' = acknowledged
  BY DEF ReserveEvent
<1>2. WTypeOK'
  BY <1>1 DEF WTypeOK
<1>3. \A g \in Handlers \ {h} : handling[g] # e
  BY <1>1, WebhookAssumption DEF OneHandlerPerEvent, WebhookAssumption
<1>4. OneHandlerPerEvent'
  BY <1>1, <1>3, WebhookAssumption DEF OneHandlerPerEvent, WTypeOK, WebhookAssumption
<1> QED BY <1>2, <1>4

LEMMA DuplicateStep ==
    ASSUME WTypeOK, OneHandlerPerEvent, NEW e \in Events, AnswerDuplicate(e)
    PROVE  WTypeOK' /\ OneHandlerPerEvent'
BY DEF AnswerDuplicate, WTypeOK, OneHandlerPerEvent

\* A handler that marks its event, or dies, works on none.
LEMMA EndStep ==
    ASSUME WTypeOK, OneHandlerPerEvent, NEW h \in Handlers, FinishEvent(h) \/ LoseHandler(h)
    PROVE  WTypeOK' /\ OneHandlerPerEvent'
<1>1. handling[h] \in Events /\ event[handling[h]] = "RECEIVED"
  BY DEF FinishEvent, LoseHandler, WTypeOK, OneHandlerPerEvent
<1>2. /\ handling' = [handling EXCEPT ![h] = NoEvent]
      /\ acknowledged' \in {acknowledged, acknowledged \cup {handling[h]}}
  BY DEF FinishEvent, LoseHandler
<1>3. PICK mark \in {"RECEIVED", "PROCESSED", "FAILED"} :
          event' = [event EXCEPT ![handling[h]] = mark]
  BY <1>1 DEF FinishEvent, LoseHandler, WTypeOK
<1>4. WTypeOK'
  BY <1>1, <1>2, <1>3 DEF WTypeOK
<1>5. \A g \in Handlers : handling'[g] # NoEvent =>
          g # h /\ handling'[g] = handling[g] /\ handling[g] # handling[h]
  BY <1>1, <1>2, WebhookAssumption DEF OneHandlerPerEvent, WTypeOK, WebhookAssumption
<1>6. OneHandlerPerEvent'
  BY <1>1, <1>3, <1>5 DEF OneHandlerPerEvent, WTypeOK
<1> QED BY <1>4, <1>6

LEMMA WebhookStep ==
    WTypeOK /\ OneHandlerPerEvent /\ [WNext]_allVars => WTypeOK' /\ OneHandlerPerEvent'
<1> SUFFICES ASSUME WTypeOK, OneHandlerPerEvent, [WNext]_allVars
             PROVE  WTypeOK' /\ OneHandlerPerEvent'
  OBVIOUS
<1>1. ASSUME NEW h \in Handlers, ProcessEvent(h)
      PROVE  WTypeOK' /\ OneHandlerPerEvent'
  BY <1>1, OtherStep DEF ProcessEvent
<1>2. ASSUME NEW q \in Observers, ObserveByAPI(q)
      PROVE  WTypeOK' /\ OneHandlerPerEvent'
  BY <1>2, OtherStep DEF ObserveByAPI
<1> QED BY <1>1, <1>2, OtherStep, ReserveStep, DuplicateStep, EndStep DEF WNext, allVars

LEMMA WebhookInv == WSpec => [](WTypeOK /\ OneHandlerPerEvent)
BY WebhookInit, WebhookStep, PTL DEF WSpec

\* The webhook tables keep their types (webhook.go, store/integrations.go).
THEOREM WebhooksTyped == WSpec => []WTypeOK
BY WebhookInv, PTL

\* However often and however late the provider repeats an event, at most one
\* handler works on it, and none once it is marked (InsertWebhook before any
\* effect, finish after it).
THEOREM EventHandledOnce == WSpec => []OneHandlerPerEvent
BY WebhookInv, PTL

-----------------------------------------------------------------------------
(* The composition implements PromiseLifecycle.                            *)

LEMMA WebhookStepsPromises == WTypeOK /\ [WNext]_allVars => [Next]_vars
<1> SUFFICES ASSUME WTypeOK, [WNext]_allVars PROVE Next \/ UNCHANGED vars
  OBVIOUS
<1>1. CASE (Clients \/ Resolving \/ Aborting \/ Environment) /\ UNCHANGED webhookVars
  BY <1>1 DEF Next
<1>2. ASSUME NEW q \in Observers, ObserveByAPI(q)
      PROVE  Next
  BY <1>2 DEF ObserveByAPI, Next
<1>3. ASSUME NEW h \in Handlers, ProcessEvent(h)
      PROVE  Next
  <2>1. h \in Observers /\ PaymentOf(handling[h]) \in Payments
    BY <1>3, WebhookAssumption DEF ProcessEvent, WTypeOK, WebhookAssumption
  <2> QED BY <1>3, <2>1 DEF ProcessEvent, Next
<1>4. ASSUME NEW h \in Handlers, FinishEvent(h) \/ LoseHandler(h)
      PROVE  Next
  <2>1. h \in Observers
    BY WebhookAssumption DEF WebhookAssumption
  <2> QED BY <1>4, <2>1 DEF FinishEvent, LoseHandler, Next
<1>5. ASSUME NEW h \in Handlers, NEW e \in Events, ReserveEvent(h, e)
      PROVE  UNCHANGED vars
  BY <1>5 DEF ReserveEvent
<1>6. ASSUME NEW e \in Events, AnswerDuplicate(e)
      PROVE  UNCHANGED vars
  BY <1>6 DEF AnswerDuplicate
<1>7. CASE UNCHANGED allVars
  BY <1>7 DEF allVars
<1> QED BY <1>1, <1>2, <1>3, <1>4, <1>5, <1>6, <1>7 DEF WNext

\* Payments that arrive as webhooks, repeated, lost or handled by a process
\* that dies, are attributions of PromiseLifecycle.
THEOREM WebhooksImplementPromises == WSpec => Spec
<1>1. WInit => Init
  BY DEF WInit
<1> QED BY <1>1, WebhooksTyped, WebhookStepsPromises, PTL DEF WSpec, Spec

\* So a payment that arrived as a webhook is counted once and keeps its
\* promise for ever.
THEOREM WebhookPaymentIsFinal == WSpec => []PaymentKeepsPromise
BY WebhooksImplementPromises, PaymentIsFinal, PTL
=============================================================================
