-------------------------- MODULE PromiseContract --------------------------
(***************************************************************************)
(* What the rest of the system may assume of the promises of one recovery  *)
(* case, whatever checkers, payments and clients do at the same time: at   *)
(* most one promise is active; an active promise is settled once, by a     *)
(* verdict, a withdrawal or a payment, and that is final; a payment keeps  *)
(* its promise in the same step as it recovers the case; and a check never *)
(* blames a customer whose case is recovered.                              *)
(***************************************************************************)
EXTENDS CaseStateMachine

CONSTANTS Promises,
          Simulated      \* may a demonstration force an outcome?

VARIABLES caseState, status

vars == <<caseState, status>>

Init == caseState = "DETECTED" /\ status = [p \in Promises |-> "NONE"]

Make(p) ==
    /\ status[p] = "NONE"
    /\ \A r \in Promises : status[r] # "ACTIVE"
    /\ status' = [status EXCEPT ![p] = "ACTIVE"]
    /\ UNCHANGED caseState

Withdraw(p) ==
    /\ status[p] = "ACTIVE"
    /\ status' = [status EXCEPT ![p] = "CANCELLED"]
    /\ UNCHANGED caseState

\* A verdict; a broken promise ends the case's waiting.
Judge(p, verdict) ==
    /\ status[p] = "ACTIVE"
    /\ caseState = "RECOVERED" /\ ~Simulated => verdict = "FULFILLED"
    /\ status' = [status EXCEPT ![p] = verdict]
    /\ caseState' = IF verdict = "BROKEN" /\ caseState \in {"WAITING_OUTCOME", "ESCALATED"}
                    THEN "ACTION_PENDING" ELSE caseState

\* A payment recovers a live case and keeps at most one promise.
Pay ==
    /\ caseState \notin Terminal
    /\ caseState' = "RECOVERED"
    /\ \/ UNCHANGED status
       \/ \E p \in Promises :
            /\ status[p] = "ACTIVE"
            /\ status' = [status EXCEPT ![p] = "FULFILLED"]

\* Every other writer of the case row.
MoveCase ==
    /\ caseState' \in Transitions[caseState]
    /\ UNCHANGED status

Next ==
    \/ \E p \in Promises :
          \/ Make(p)
          \/ Withdraw(p)
          \/ \E verdict \in {"FULFILLED", "BROKEN", "EXPIRED"} : Judge(p, verdict)
    \/ Pay
    \/ MoveCase

Spec == Init /\ [][Next]_vars
=============================================================================
