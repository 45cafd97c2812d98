-------------------------- MODULE RecoveryWorkflow --------------------------
(***************************************************************************)
(* The durable recovery workflow of one case: the deciders that turn a     *)
(* case into scheduled work, the workers that claim, authorise, execute    *)
(* and observe that work under leases, the reviewers that approve          *)
(* escalated decisions, the operators that use the transition API, the     *)
(* customer's responses and the payments that end the case.                *)
(*                                                                         *)
(* Every store function is one READ COMMITTED transaction that locks the   *)
(* case row, so each is one action; what a process has read stays in its   *)
(* local copies (job, snap, result) until its next transaction, and any    *)
(* other process may commit in between.  Cases share no row, so one case   *)
(* is modelled.                                                            *)
(***************************************************************************)
EXTENDS CaseStateMachine, Naturals, FiniteSets

CONSTANTS
    Workers,         \* durable workers (cmd/worker), one goroutine each
    Deciders,        \* concurrent callers of POST /cases/{id}/decide
    Operators,       \* concurrent callers of the transition API
    Reviewers,       \* concurrent callers of the human review API
    OperatorTargets, \* the states operators ask for
    Payments,        \* payment references that may be observed
    Candidates,      \* what the optimizer may select: action and gate result
    Escalates,       \* does the merchant's policy escalate anything?
    WorldEvents,     \* which of "deadline", "response" may happen
    MaxAttempts,     \* scheduled_actions.max_attempts, 3 in the code
    MaxSchedules,    \* bound: rows of scheduled_actions for the case
    MaxVersion,      \* bound: operators stop at this case version
    MaxCrashes,      \* bound: handler runs abandoned by a crash or an error
    MaxOverruns      \* bound: leases that lapse under a live holder

Procs == Workers \cup Deciders \cup Operators \cup Reviewers

Rows == 1 .. MaxSchedules

ASSUME BoundsAssumption ==
    /\ MaxAttempts \in Nat /\ MaxSchedules \in Nat /\ MaxVersion \in Nat
    /\ MaxCrashes \in Nat /\ MaxOverruns \in Nat

ASSUME InputsAssumption ==
    /\ OperatorTargets \subseteq CaseStates
    /\ Escalates \in BOOLEAN
    /\ Candidates \subseteq {[action |-> "ACT", gate |-> "ALLOW"],
                            [action |-> "ACT", gate |-> "BLOCK"],
                            [action |-> "WAIT", gate |-> "ALLOW"]}
    /\ WorldEvents \subseteq {"deadline", "response"}

VARIABLES
    caseState,      \* recovery_cases.current_state
    version,        \* recovery_cases.version
    deadlinePassed, \* recovery_deadline <= now
    attributed,     \* payment references in recovery_attributions
    sched,          \* scheduled_actions (with its decision and action rows)
    executions,     \* executions, unique on idempotency_key = (row, attempt)
    lastDecision,   \* recovery_decisions row with the latest created_at
    pc,             \* where each process is in its handler
    job,            \* the worker's copy of the row it claimed
    snap,           \* what a client handler has read or computed
    result,         \* the worker's executor result
    crashes, overruns

caseVars   == <<caseState, version, deadlinePassed, attributed>>
tableVars  == <<sched, executions, lastDecision>>
localVars  == <<pc, job, snap, result>>
budgetVars == <<crashes, overruns>>
vars == <<caseVars, tableVars, localVars, budgetVars>>

-----------------------------------------------------------------------------
PolicyResults == {"APPROVE", "DENY", "ESCALATE", "STOP"}

\* A decision: its policy result, the economic gate's result, whether the
\* selected action is WAIT or one a worker can execute, and its case version.
Decisions == [policy : PolicyResults, gate : {"ALLOW", "BLOCK"},
              action : {"ACT", "WAIT"}, version : Nat]

NoDecision == [policy |-> "NONE", gate |-> "NONE", action |-> "NONE", version |-> 0]

RowStatuses == {"NONE", "PENDING", "CLAIMED", "EXECUTING", "RETRY_PENDING", "FAILED",
                "SUPERSEDED", "OBSERVATION_PENDING", "OBSERVATION_CLAIMED", "OBSERVED"}

NoRow == [status |-> "NONE", attempt |-> 0, version |-> 0, leased |-> FALSE,
          decision |-> NoDecision, human |-> FALSE, reference |-> FALSE]

NoJob  == [row |-> 0, attempt |-> 0, version |-> 0]
NoSnap == [state |-> "DETECTED", version |-> 0, decision |-> NoDecision, policy |-> "NONE",
           raced |-> FALSE]

\* Rows that still ask for an execution, for an observation, or for nothing.
Live(s)     == sched[s].status \in {"PENDING", "CLAIMED", "EXECUTING", "RETRY_PENDING"}
Watching(s) == sched[s].status \in {"OBSERVATION_PENDING", "OBSERVATION_CLAIMED"}
Leasable(s) == sched[s].status \in {"CLAIMED", "EXECUTING", "OBSERVATION_CLAIMED"}

Init ==
    /\ caseState = "DETECTED" /\ version = 1
    /\ deadlinePassed = FALSE /\ attributed = {}
    /\ sched = [s \in Rows |-> NoRow]
    /\ executions = {}
    /\ lastDecision = NoDecision
    /\ pc = [p \in Procs |-> "idle"]
    /\ job = [p \in Procs |-> NoJob]
    /\ snap = [p \in Procs |-> NoSnap]
    /\ result = [p \in Procs |-> "NONE"]
    /\ crashes = 0 /\ overruns = 0

\* The handler of p returns or dies: its local copies are gone.
Release(p) ==
    /\ pc' = [pc EXCEPT ![p] = "idle"]
    /\ job' = [job EXCEPT ![p] = NoJob]
    /\ snap' = [snap EXCEPT ![p] = NoSnap]
    /\ result' = [result EXCEPT ![p] = "NONE"]

Goto(p, label) == pc' = [pc EXCEPT ![p] = label]

MoveCase(to, edges) == caseState' = to /\ version' = version + edges

KeepCase == UNCHANGED <<caseState, version>>

-----------------------------------------------------------------------------
(* Policy.  The checks read data this module does not carry (opt-out,       *)
(* contact history, confidence, merchant settings), so every result that    *)
(* the precedence STOP > DENY > ESCALATE > APPROVE leaves open is possible. *)

PolicyOutcomes(gate) ==
    IF caseState \in Terminal \/ deadlinePassed THEN {"STOP"}
    ELSE IF gate # "ALLOW" THEN {"STOP", "DENY"}
    ELSE IF Escalates THEN PolicyResults
    ELSE PolicyResults \ {"ESCALATE"}

\* RunOnce: a fresh ESCALATE passes only on a row a human has approved.
Permits(policy, human) == policy = "APPROVE" \/ (policy = "ESCALATE" /\ human)

-----------------------------------------------------------------------------
(* Decisions: DecisionCoordinator.Decide, called by the API (Deciders) and  *)
(* by a worker that reassesses.                                             *)

FreeRows == {s \in Rows : sched[s].status = "NONE"}

\* The row a decision schedules (bound MaxSchedules: only while one is free).
NextRow(s) == s \in FreeRows /\ \A t \in FreeRows : s <= t

NewRow(decision, rowVersion, human) ==
    [NoRow EXCEPT !.status = "PENDING", !.version = rowVersion,
                  !.decision = decision, !.human = human]

PrepareForDecision(p) ==
    /\ \/ p \in Deciders /\ pc[p] = "idle"
       \/ p \in Workers /\ pc[p] = "reassess"
    /\ \/ caseState = "DETECTED" /\ MoveCase("ACTION_PENDING", 2) /\ Goto(p, "prepared")
          /\ UNCHANGED <<job, snap, result>>
       \/ caseState \in {"DIAGNOSING", "REASSESSING"} /\ MoveCase("ACTION_PENDING", 1)
          /\ Goto(p, "prepared") /\ UNCHANGED <<job, snap, result>>
       \/ caseState = "ACTION_PENDING" /\ KeepCase /\ Goto(p, "prepared")
          /\ UNCHANGED <<job, snap, result>>
       \/ caseState \notin {"DETECTED", "DIAGNOSING", "REASSESSING", "ACTION_PENDING"}
          /\ pc[p] = "reassess" /\ KeepCase /\ Release(p)
    /\ UNCHANGED <<deadlinePassed, attributed, tableVars, budgetVars>>

\* Service.Evaluate: read the context, rank, gate and apply policy, all on
\* the case version read here; nothing is written.
Evaluate(p) ==
    /\ pc[p] = "prepared"
    /\ \E c \in Candidates : \E policy \in PolicyOutcomes(c.gate) :
          /\ policy = "APPROVE" /\ c.action = "ACT" => FreeRows # {}
          /\ snap' = [snap EXCEPT ![p].decision =
                [policy |-> policy, gate |-> c.gate, action |-> c.action, version |-> version]]
    /\ Goto(p, "evaluated")
    /\ UNCHANGED <<caseVars, tableVars, job, result, budgetVars>>

\* saveDecisionTx and scheduleDecisionTx in one transaction.
SaveEscalated(d) ==
    /\ d.policy = "ESCALATE" /\ caseState = "ACTION_PENDING"
    /\ MoveCase("ESCALATED", 1)
    /\ UNCHANGED sched

SaveStopped(d) ==
    /\ d.policy = "STOP" /\ caseState \notin Terminal
    /\ MoveCase("STOPPED", 1)
    /\ UNCHANGED sched

SaveOnly(d) ==
    /\ \/ d.policy = "DENY"
       \/ d.policy = "STOP" /\ caseState \in Terminal
       \/ d.policy = "APPROVE" /\ d.gate = "ALLOW" /\ d.action = "WAIT"
    /\ KeepCase
    /\ UNCHANGED sched

\* Mutant of SaveAndSchedule: an approved WAIT is scheduled like an action.
SaveAndSchedule_AnyAction(d) ==
    /\ d.policy = "APPROVE" /\ d.gate = "ALLOW"
    /\ caseState = "ACTION_PENDING"
    /\ MoveCase("SCHEDULED", 2)
    /\ \E s \in Rows : NextRow(s) /\ sched' = [sched EXCEPT ![s] = NewRow(d, version + 2, FALSE)]

SaveAndSchedule(d) ==
    /\ d.policy = "APPROVE" /\ d.gate = "ALLOW" /\ d.action # "WAIT"
    /\ caseState = "ACTION_PENDING"
    /\ MoveCase("SCHEDULED", 2)
    /\ \E s \in Rows : NextRow(s) /\ sched' = [sched EXCEPT ![s] = NewRow(d, version + 2, FALSE)]

\* A decision is dated when it is evaluated, not when it is saved: of two
\* evaluations in flight together, the one saved first may be the later one.
SaveDecisionAndSchedule(p) ==
    LET d == snap[p].decision IN
    /\ pc[p] = "evaluated"
    /\ version = d.version
    /\ SaveEscalated(d) \/ SaveStopped(d) \/ SaveOnly(d) \/ SaveAndSchedule(d)
    /\ lastDecision' \in (IF snap[p].raced THEN {d, lastDecision} ELSE {d})
    /\ Goto(p, "idle")
    /\ snap' = [q \in Procs |-> IF q = p THEN NoSnap
                                ELSE [snap[q] EXCEPT !.raced = @ \/ pc[q] = "evaluated"]]
    /\ UNCHANGED <<job, result>>
    /\ UNCHANGED <<deadlinePassed, attributed, executions, budgetVars>>

\* ErrConflict: another writer moved the case, or the state forbids the save.
SaveDecisionConflict(p) ==
    LET d == snap[p].decision IN
    /\ pc[p] = "evaluated"
    /\ \/ version # d.version
       \/ d.policy = "ESCALATE" /\ caseState # "ACTION_PENDING"
       \/ d.policy = "APPROVE" /\ d.action # "WAIT" /\ caseState # "ACTION_PENDING"
    /\ Release(p)
    /\ UNCHANGED <<caseVars, tableVars, budgetVars>>

-----------------------------------------------------------------------------
(* Worker.RunOnce.                                                          *)

\* Mutant of Claimable: a lapsed lease frees nothing.
Claimable_NoReclaim(s) == sched[s].status \in {"PENDING", "RETRY_PENDING"}

\* Due times are not kept: a PENDING or RETRY_PENDING row may be due at any
\* moment, a claimed or executing one once its lease has lapsed.
Claimable(s) ==
    \/ sched[s].status \in {"PENDING", "RETRY_PENDING"}
    \/ sched[s].status \in {"CLAIMED", "EXECUTING"} /\ ~sched[s].leased

\* Mutant of ClaimDue: attempt_count is not incremented.
ClaimDue_SameAttempt(w) ==
    /\ pc[w] = "idle"
    /\ \E s \in Rows :
          /\ Claimable(s)
          /\ sched' = [sched EXCEPT ![s].status = "CLAIMED", ![s].leased = TRUE]
          /\ job' = [job EXCEPT ![w] = [row |-> s, attempt |-> sched[s].attempt,
                                        version |-> sched[s].version]]
    /\ Goto(w, "claimed")
    /\ UNCHANGED <<caseVars, executions, lastDecision, snap, result, budgetVars>>

ClaimDue(w) ==
    /\ pc[w] = "idle"
    /\ \E s \in Rows :
          /\ Claimable(s)
          /\ sched' = [sched EXCEPT ![s].status = "CLAIMED", ![s].leased = TRUE,
                                    ![s].attempt = @ + 1]
          /\ job' = [job EXCEPT ![w] = [row |-> s, attempt |-> sched[s].attempt + 1,
                                        version |-> sched[s].version]]
    /\ Goto(w, "claimed")
    /\ UNCHANGED <<caseVars, executions, lastDecision, snap, result, budgetVars>>

\* The context read, the staleness check and the policy recheck.
ReadContext(w) ==
    LET row == sched[job[w].row] IN
    /\ pc[w] = "claimed"
    /\ \E policy \in PolicyOutcomes(row.decision.gate) :
          Goto(w, IF /\ version = job[w].version
                     /\ caseState # "RECOVERED"
                     /\ row.decision.gate = "ALLOW"
                     /\ Permits(policy, row.human)
                  THEN "authorized" ELSE "suppress")
    /\ UNCHANGED <<caseVars, tableVars, job, snap, result, budgetVars>>

MarkSuppressed(w) ==
    LET s == job[w].row IN
    /\ pc[w] = "suppress"
    /\ sched' = IF sched[s].status \in {"CLAIMED", "PENDING", "RETRY_PENDING"}
                THEN [sched EXCEPT ![s].status = "SUPERSEDED", ![s].leased = FALSE]
                ELSE sched
    /\ Release(w)
    /\ UNCHANGED <<caseVars, executions, lastDecision, budgetVars>>

\* Mutant of MarkRow: the case is moved whatever its state is.
MarkRow_AnyState(s) ==
    /\ sched[s].status = "CLAIMED"
    /\ MoveCase("EXECUTING", 1)
    /\ sched' = [sched EXCEPT ![s].status = "EXECUTING", ![s].version = version + 1]

\* The transaction of Postgres.MarkExecuting on row s.
MarkRow(s) ==
    /\ sched[s].status = "CLAIMED"
    /\ IF caseState = "SCHEDULED"
       THEN /\ MoveCase("EXECUTING", 1)
            /\ sched' = [sched EXCEPT ![s].status = "EXECUTING", ![s].version = version + 1]
       ELSE /\ KeepCase
            /\ sched' = [sched EXCEPT ![s].status = "EXECUTING"]

MarkExecuting(w) ==
    /\ pc[w] = "authorized"
    /\ MarkRow(job[w].row)
    /\ Goto(w, "executing")
    /\ UNCHANGED <<deadlinePassed, attributed, executions, lastDecision, job, snap, result, budgetVars>>

\* Registry.Reconcile found the provider's answer to an earlier attempt.
MarkReconciled(w) ==
    /\ pc[w] = "authorized"
    /\ job[w].attempt > 1 /\ sched[job[w].row].reference
    /\ MarkRow(job[w].row)
    /\ Goto(w, "executed")
    /\ result' = [result EXCEPT ![w] = "SUCCEEDED"]
    /\ UNCHANGED <<deadlinePassed, attributed, executions, lastDecision, job, snap, budgetVars>>

\* ErrConflict: the row is no longer CLAIMED.
MarkExecutingConflict(w) ==
    /\ pc[w] = "authorized"
    /\ sched[job[w].row].status # "CLAIMED"
    /\ Release(w)
    /\ UNCHANGED <<caseVars, tableVars, budgetVars>>

\* Registry.Execute: the external call.  No executor supports WAIT.
Execute(w) ==
    LET s == job[w].row IN
    /\ pc[w] = "executing"
    /\ \E r \in IF sched[s].decision.action = "WAIT" THEN {"PERMANENT"}
                ELSE {"SUCCEEDED", "RETRYABLE", "PERMANENT"} :
          /\ result' = [result EXCEPT ![w] = r]
          /\ sched' = [sched EXCEPT ![s].reference = @ \/ r = "SUCCEEDED"]
    /\ Goto(w, "executed")
    /\ UNCHANGED <<caseVars, executions, lastDecision, job, snap, budgetVars>>

\* INSERT INTO executions ... ON CONFLICT(idempotency_key) DO NOTHING
RecordExecution(w) ==
    LET key == [row |-> job[w].row, attempt |-> job[w].attempt]
        status == IF result[w] = "SUCCEEDED" THEN "SUCCEEDED" ELSE "FAILED"
    IN executions' = IF \E e \in executions : e.row = key.row /\ e.attempt = key.attempt
                     THEN executions
                     ELSE executions \cup {[row |-> key.row, attempt |-> key.attempt, status |-> status]}

\* Mutant of FinishRow: the action's status is written to the schedule.
FinishRow_ActionStatus(s, status) ==
    sched' = [sched EXCEPT ![s].leased = FALSE,
                 ![s].status = IF status = "OBSERVATION_PENDING" THEN "EXECUTED" ELSE status]

FinishRow(s, status) == sched' = [sched EXCEPT ![s].status = status, ![s].leased = FALSE]

Retries(w) == result[w] = "RETRYABLE" /\ job[w].attempt < MaxAttempts

\* CompleteExecution, one action per branch.
CompleteWithRetry(w) ==
    /\ pc[w] = "executed" /\ Retries(w)
    /\ RecordExecution(w)
    /\ FinishRow(job[w].row, "RETRY_PENDING")
    /\ Release(w)
    /\ UNCHANGED <<caseVars, lastDecision, budgetVars>>

\* Mutant of CompleteSucceeded: a late success moves any case.
CompleteSucceeded_AnyState(w) ==
    /\ pc[w] = "executed" /\ result[w] = "SUCCEEDED"
    /\ RecordExecution(w)
    /\ FinishRow(job[w].row, "OBSERVATION_PENDING")
    /\ MoveCase("WAITING_OUTCOME", 1)
    /\ Release(w)
    /\ UNCHANGED <<deadlinePassed, attributed, lastDecision, budgetVars>>

CompleteSucceeded(w) ==
    /\ pc[w] = "executed" /\ result[w] = "SUCCEEDED"
    /\ RecordExecution(w)
    /\ FinishRow(job[w].row, "OBSERVATION_PENDING")
    /\ IF caseState = "EXECUTING" THEN MoveCase("WAITING_OUTCOME", 1) ELSE KeepCase
    /\ Release(w)
    /\ UNCHANGED <<deadlinePassed, attributed, lastDecision, budgetVars>>

\* Only a permanent failure is followed by Reassess.
CompleteFailed(w) ==
    /\ pc[w] = "executed" /\ result[w] # "SUCCEEDED" /\ ~Retries(w)
    /\ RecordExecution(w)
    /\ FinishRow(job[w].row, "FAILED")
    /\ IF caseState = "EXECUTING" THEN MoveCase("ACTION_PENDING", 2) ELSE KeepCase
    /\ Goto(w, IF result[w] = "PERMANENT" THEN "reassess" ELSE "idle")
    /\ job' = [job EXCEPT ![w] = NoJob]
    /\ result' = [result EXCEPT ![w] = "NONE"]
    /\ UNCHANGED <<deadlinePassed, attributed, lastDecision, snap, budgetVars>>

-----------------------------------------------------------------------------
(* Worker.RunObservationOnce.                                               *)

\* Mutant of DueObservation: likewise.
DueObservation_NoReclaim(s) == sched[s].status = "OBSERVATION_PENDING"

DueObservation(s) ==
    \/ sched[s].status = "OBSERVATION_PENDING"
    \/ sched[s].status = "OBSERVATION_CLAIMED" /\ ~sched[s].leased

ClaimDueObservation(w) ==
    /\ pc[w] = "idle"
    /\ \E s \in Rows :
          /\ DueObservation(s)
          /\ sched' = [sched EXCEPT ![s].status = "OBSERVATION_CLAIMED", ![s].leased = TRUE]
          /\ job' = [job EXCEPT ![w] = [row |-> s, attempt |-> sched[s].attempt,
                                        version |-> sched[s].version]]
    /\ Goto(w, "observing")
    /\ UNCHANGED <<caseVars, executions, lastDecision, snap, result, budgetVars>>

\* Mutant of PrepareReassessment: the observation is closed, the case stays.
PrepareReassessment_RowOnly(w) ==
    LET s == job[w].row IN
    /\ pc[w] = "observing"
    /\ KeepCase
    /\ sched' = [sched EXCEPT ![s].status = "OBSERVED", ![s].leased = FALSE]
    /\ Goto(w, "idle")
    /\ job' = [job EXCEPT ![w] = NoJob]
    /\ UNCHANGED <<deadlinePassed, attributed, executions, lastDecision, snap, result, budgetVars>>

PrepareReassessment(w) ==
    LET s == job[w].row
        ready == caseState = "WAITING_OUTCOME" /\ ~deadlinePassed
    IN
    /\ pc[w] = "observing"
    /\ IF ready THEN MoveCase("ACTION_PENDING", 2)
       ELSE IF caseState = "WAITING_OUTCOME" THEN MoveCase("EXHAUSTED", 1)
       ELSE KeepCase
    /\ sched' = IF sched[s].status = "OBSERVATION_CLAIMED"
                THEN [sched EXCEPT ![s].status = "OBSERVED", ![s].leased = FALSE]
                ELSE sched
    /\ Goto(w, IF ready THEN "reassess" ELSE "idle")
    /\ job' = [job EXCEPT ![w] = NoJob]
    /\ UNCHANGED <<deadlinePassed, attributed, executions, lastDecision, snap, result, budgetVars>>

-----------------------------------------------------------------------------
(* Human review: operations.Service.Review and Postgres.ApplyHumanReview.   *)

\* The reviewer sees a case of the queue and remembers its version.
ViewQueue(r) ==
    /\ r \in Reviewers /\ pc[r] = "idle"
    /\ caseState \in {"ESCALATED", "EXHAUSTED"} /\ lastDecision # NoDecision
    /\ snap' = [snap EXCEPT ![r].state = caseState, ![r].version = version]
    /\ Goto(r, "viewed")
    /\ UNCHANGED <<caseVars, tableVars, job, result, budgetVars>>

\* Review re-reads the queue item: the latest decision at this moment.
LoadReviewItem(r) ==
    /\ pc[r] = "viewed"
    /\ snap' = [snap EXCEPT ![r].decision = lastDecision]
    /\ Goto(r, "item")
    /\ UNCHANGED <<caseVars, tableVars, job, result, budgetVars>>

\* The fresh context and policy of an APPROVE.
ReviewEvaluate(r) ==
    /\ pc[r] = "item"
    /\ \E policy \in PolicyOutcomes(snap[r].decision.gate) :
          snap' = [snap EXCEPT ![r].policy = policy]
    /\ Goto(r, "reviewed")
    /\ UNCHANGED <<caseVars, tableVars, job, result, budgetVars>>

\* AuthorizeApproval, up to the merchant policy's version.
Authorizes(r) ==
    /\ caseState = "ESCALATED" /\ version = snap[r].version /\ ~deadlinePassed
    /\ snap[r].policy \in {"APPROVE", "ESCALATE"}

ApproveReview(r) ==
    /\ pc[r] = "reviewed" /\ Authorizes(r)
    /\ MoveCase("SCHEDULED", 3)
    /\ \E s \in Rows :
          NextRow(s) /\ sched' = [sched EXCEPT ![s] = NewRow(snap[r].decision, version + 3, TRUE)]
    /\ Release(r)
    /\ UNCHANGED <<deadlinePassed, attributed, executions, lastDecision, budgetVars>>

\* Recorded, but not scheduled: a stale, denied or stopped approval (the
\* merchant may have changed its policy, so this is always possible), a
\* rejection, a deferral, or a case that is not reviewable any more.
RecordReview(r) ==
    /\ pc[r] \in {"item", "reviewed"}
    /\ Release(r)
    /\ UNCHANGED <<caseVars, tableVars, budgetVars>>

\* Mutant of StopReview: the update is not restricted to ESCALATED cases.
StopReview_AnyState(r) ==
    /\ pc[r] = "item"
    /\ MoveCase("STOPPED", 1)
    /\ Release(r)
    /\ UNCHANGED <<deadlinePassed, attributed, tableVars, budgetVars>>

\* STOP does not compare the version the reviewer saw.
StopReview(r) ==
    /\ pc[r] = "item" /\ caseState = "ESCALATED"
    /\ MoveCase("STOPPED", 1)
    /\ Release(r)
    /\ UNCHANGED <<deadlinePassed, attributed, tableVars, budgetVars>>

-----------------------------------------------------------------------------
(* recovery.Service.Transition: read, validate, compare-and-set.            *)

ReadForTransition(o) ==
    /\ o \in Operators /\ pc[o] = "idle"
    /\ version < MaxVersion
    /\ snap' = [snap EXCEPT ![o].state = caseState, ![o].version = version]
    /\ Goto(o, "read")
    /\ UNCHANGED <<caseVars, tableVars, job, result, budgetVars>>

\* Mutants of ApplyTransition: without the compare, and without the set, of
\* the version.
ApplyTransition_NoCompare(o) ==
    /\ pc[o] = "read"
    /\ \E to \in OperatorTargets : CanTransition(snap[o].state, to) /\ MoveCase(to, 1)
    /\ Release(o)
    /\ UNCHANGED <<deadlinePassed, attributed, tableVars, budgetVars>>

ApplyTransition_SameVersion(o) ==
    /\ pc[o] = "read"
    /\ version = snap[o].version
    /\ \E to \in OperatorTargets : CanTransition(snap[o].state, to) /\ MoveCase(to, 0)
    /\ Release(o)
    /\ UNCHANGED <<deadlinePassed, attributed, tableVars, budgetVars>>

ApplyTransition(o) ==
    /\ pc[o] = "read"
    /\ \E to \in OperatorTargets :
          /\ CanTransition(snap[o].state, to)
          /\ version = snap[o].version
          /\ MoveCase(to, 1)
    /\ Release(o)
    /\ UNCHANGED <<deadlinePassed, attributed, tableVars, budgetVars>>

\* An invalid transition or a lost compare-and-set.
RefuseTransition(o) ==
    /\ pc[o] = "read"
    /\ \/ version # snap[o].version
       \/ \E to \in CaseStates : ~CanTransition(snap[o].state, to)
    /\ Release(o)
    /\ UNCHANGED <<caseVars, tableVars, budgetVars>>

-----------------------------------------------------------------------------
(* The outside world.                                                       *)

\* AttributeRecovery: a live case goes to RECOVERED whatever its state.
ObservePayment ==
    /\ caseState \notin Terminal
    /\ \E reference \in Payments \ attributed : attributed' = attributed \cup {reference}
    /\ MoveCase("RECOVERED", 1)
    /\ UNCHANGED <<deadlinePassed, tableVars, localVars, budgetVars>>

\* Mutant of CustomerResponse: the version is left alone.
CustomerResponse_SameVersion ==
    /\ "response" \in WorldEvents
    /\ caseState = "WAITING_OUTCOME"
    /\ MoveCase("ACTION_PENDING", 0)
    /\ UNCHANGED <<deadlinePassed, attributed, tableVars, localVars, budgetVars>>

\* SaveCustomerResponse, for the responses that are neither an
\* acknowledgement nor a promise to pay.
CustomerResponse ==
    /\ "response" \in WorldEvents
    /\ caseState = "WAITING_OUTCOME"
    /\ MoveCase("ACTION_PENDING", 2)
    /\ UNCHANGED <<deadlinePassed, attributed, tableVars, localVars, budgetVars>>

DeadlinePasses ==
    /\ "deadline" \in WorldEvents
    /\ ~deadlinePassed
    /\ deadlinePassed' = TRUE
    /\ UNCHANGED <<caseState, version, attributed, tableVars, localVars, budgetVars>>

\* The process that last claimed row s is still at work on it.
Held(s) == \E w \in Workers : job[w].row = s /\ job[w].attempt = sched[s].attempt

\* lease_expires_at passes, its holder being gone.
LeaseExpires(s) ==
    /\ Leasable(s) /\ sched[s].leased /\ ~Held(s)
    /\ sched' = [sched EXCEPT ![s].leased = FALSE]
    /\ UNCHANGED <<caseVars, executions, lastDecision, localVars, budgetVars>>

\* lease_expires_at passes under a holder that is slow but alive.
LeaseOverruns(s) ==
    /\ Leasable(s) /\ sched[s].leased /\ Held(s)
    /\ overruns < MaxOverruns
    /\ overruns' = overruns + 1
    /\ sched' = [sched EXCEPT ![s].leased = FALSE]
    /\ UNCHANGED <<caseVars, executions, lastDecision, localVars, crashes>>

\* A crash, a lost database connection, an unreachable decision service, a
\* response that never reached the handler: it stops where it is.
Abandon(p) ==
    /\ pc[p] # "idle"
    /\ crashes < MaxCrashes
    /\ crashes' = crashes + 1
    /\ Release(p)
    /\ UNCHANGED <<caseVars, tableVars, overruns>>

-----------------------------------------------------------------------------
DecideStep(p) ==
    PrepareForDecision(p) \/ Evaluate(p) \/ SaveDecisionAndSchedule(p) \/ SaveDecisionConflict(p)

WorkerStep(w) ==
    \/ ClaimDue(w) \/ ReadContext(w) \/ MarkSuppressed(w)
    \/ MarkExecuting(w) \/ MarkReconciled(w) \/ MarkExecutingConflict(w)
    \/ Execute(w) \/ CompleteWithRetry(w) \/ CompleteSucceeded(w) \/ CompleteFailed(w)
    \/ ClaimDueObservation(w) \/ PrepareReassessment(w)

ReviewStep(r) ==
    \/ ViewQueue(r) \/ LoadReviewItem(r) \/ ReviewEvaluate(r)
    \/ ApproveReview(r) \/ RecordReview(r) \/ StopReview(r)

TransitionStep(o) == ReadForTransition(o) \/ ApplyTransition(o) \/ RefuseTransition(o)

Next ==
    \/ \E p \in Workers \cup Deciders : DecideStep(p)
    \/ \E w \in Workers : WorkerStep(w)
    \/ \E r \in Reviewers : ReviewStep(r)
    \/ \E o \in Operators : TransitionStep(o)
    \/ \E p \in Procs : Abandon(p)
    \/ \E s \in Rows : LeaseExpires(s) \/ LeaseOverruns(s)
    \/ ObservePayment \/ CustomerResponse \/ DeadlinePasses

Spec == Init /\ [][Next]_vars

\* A running worker polls every second and finishes what it starts, an API
\* handler that has started finishes, a lease nobody holds lapses.  Nobody
\* owes a request, a response or a payment.
Fairness ==
    /\ \A w \in Workers : WF_vars(WorkerStep(w) \/ DecideStep(w))
    /\ \A d \in Deciders : WF_vars(pc[d] # "idle" /\ DecideStep(d))
    /\ \A s \in Rows : WF_vars(LeaseExpires(s))

FairSpec == Spec /\ Fairness
=============================================================================
