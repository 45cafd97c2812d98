------------------------ MODULE MCRecoveryWorkflow ------------------------
(***************************************************************************)
(* TLC instances of RecoveryWorkflow.  The configurations choose who takes *)
(* part; processes and payments are model values.                          *)
(***************************************************************************)
EXTENDS RecoveryProperties, TLC

CONSTANTS w1, w2, d1, o1, r1, pay1, pay2

OneWorker == {w1}
TwoWorkers == {w1, w2}
OneDecider == {d1}
OneOperator == {o1}
OneReviewer == {r1}
OnePayment == {pay1}
TwoPayments == {pay1, pay2}
Nobody == {}

\* The operator's requests that a TLC instance enumerates.
PullBack == {"REASSESSING", "ACTION_PENDING"}

\* What the optimizer may select: always a justified action, sometimes one
\* the gate blocks, sometimes to wait.
ActOnly == {[action |-> "ACT", gate |-> "ALLOW"]}
AnyCandidate == ActOnly \cup {[action |-> "ACT", gate |-> "BLOCK"], [action |-> "WAIT", gate |-> "ALLOW"]}

BothEvents == {"deadline", "response"}

Twins == Permutations(TwoWorkers)
===========================================================================
