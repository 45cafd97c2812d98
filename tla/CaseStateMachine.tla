------------------------- MODULE CaseStateMachine -------------------------
(***************************************************************************)
(* The recovery-case state machine of internal/domain/state_machine.go:    *)
(* the twelve lifecycle states, the table of permitted transitions and the *)
(* predicates every writer of a case is expected to respect.  The module   *)
(* has no variables; CaseLifecycle and RecoveryWorkflow extend it.         *)
(***************************************************************************)

\* The states a case can be in (const block, StateDetected ... StateStopped).
CaseStates ==
    {"DETECTED", "DIAGNOSING", "ACTION_PENDING", "POLICY_REVIEW", "SCHEDULED",
     "EXECUTING", "WAITING_OUTCOME", "REASSESSING", "RECOVERED", "ESCALATED",
     "EXHAUSTED", "STOPPED"}

\* CaseState.IsTerminal
Terminal == {"RECOVERED", "EXHAUSTED", "STOPPED"}

\* The transitions map: for every state, the states it may move to.
Transitions ==
    [s \in CaseStates |->
        CASE s = "DETECTED"        -> {"DIAGNOSING", "STOPPED"}
          [] s = "DIAGNOSING"      -> {"ACTION_PENDING", "ESCALATED", "STOPPED"}
          [] s = "ACTION_PENDING"  -> {"POLICY_REVIEW", "ESCALATED", "EXHAUSTED", "STOPPED"}
          [] s = "POLICY_REVIEW"   -> {"SCHEDULED", "REASSESSING", "ESCALATED", "STOPPED"}
          [] s = "SCHEDULED"       -> {"EXECUTING", "REASSESSING", "STOPPED"}
          [] s = "EXECUTING"       -> {"WAITING_OUTCOME", "REASSESSING", "ESCALATED", "STOPPED"}
          [] s = "WAITING_OUTCOME" -> {"RECOVERED", "REASSESSING", "ESCALATED", "EXHAUSTED", "STOPPED"}
          [] s = "REASSESSING"     -> {"ACTION_PENDING", "RECOVERED", "ESCALATED", "EXHAUSTED", "STOPPED"}
          [] s = "ESCALATED"       -> {"REASSESSING", "ACTION_PENDING", "RECOVERED", "EXHAUSTED", "STOPPED"}
          [] OTHER                 -> {}]

\* CanTransition / ValidateTransition: the guard of every table-driven move.
CanTransition(from, to) == to \in Transitions[from]

===========================================================================
