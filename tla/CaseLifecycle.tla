--------------------------- MODULE CaseLifecycle ---------------------------
(***************************************************************************)
(* What the rest of the system may assume of one row of recovery_cases,    *)
(* whoever writes it: the case starts DETECTED at version 1; it moves only *)
(* along paths of the transition table, one version per edge, a whole path *)
(* being committed at once (no transaction of the code walks more than     *)
(* three edges); a payment may take any live case straight to RECOVERED;   *)
(* nothing leaves a terminal state.                                        *)
(*                                                                         *)
(* RecoveryWorkflow, with its workers, crashes, leases and reviewers, is   *)
(* shown to implement this specification.                                  *)
(***************************************************************************)
EXTENDS CaseStateMachine, Naturals

VARIABLES caseState, version

vars == <<caseState, version>>

Init == caseState = "DETECTED" /\ version = 1

\* A transaction that walks one, two or three edges of the table.
WalkOne ==
    /\ \E t \in Transitions[caseState] : caseState' = t
    /\ version' = version + 1

WalkTwo ==
    /\ \E u \in Transitions[caseState] : \E t \in Transitions[u] : caseState' = t
    /\ version' = version + 2

WalkThree ==
    /\ \E u \in Transitions[caseState] : \E v \in Transitions[u] :
          \E t \in Transitions[v] : caseState' = t
    /\ version' = version + 3

\* The one move that is not bound to the table: an attributed payment.
PaymentObserved ==
    /\ caseState \notin Terminal
    /\ caseState' = "RECOVERED"
    /\ version' = version + 1

Next == WalkOne \/ WalkTwo \/ WalkThree \/ PaymentObserved

Spec == Init /\ [][Next]_vars
=============================================================================
