------------------------- MODULE RecoveryRowProofs -------------------------
(***************************************************************************)
(* Theorems about the rows of scheduled_actions: their statuses are        *)
(* explained by recorded executions, their work is authorised, and at most *)
(* one of them carries the current version of the case.                    *)
(*                                                                         *)
(* RowsEffect says what any step does to the rows (NextRows); it rests on  *)
(* FencingInv, because a result is recorded only if its attempt has no     *)
(* execution yet, and on ReviewGated, because a reviewer approves a        *)
(* decision that was read in an earlier transaction.                       *)
(*                                                                         *)
(* The last section is about waits: until a lease overruns, whoever is at  *)
(* work on a row is there alone (LeasesHeld), and every wait is observed.  *)
(***************************************************************************)
EXTENDS RecoverySafetyProofs, RecoveryLeaseProofs

\* What one step does to the status of row s, as far as it must be explained
\* by the executions table.
StatusEffect(s) ==
    \/ sched'[s].status = sched[s].status
    \/ sched'[s].status \in {"PENDING", "CLAIMED", "EXECUTING", "SUPERSEDED"}
    \/ Watching(s) /\ sched'[s].status \in {"OBSERVATION_CLAIMED", "OBSERVED"}
    \/ /\ sched'[s].status = "OBSERVATION_PENDING"
       /\ \E e \in executions' : e.row = s /\ e.status = "SUCCEEDED"
    \/ /\ sched'[s].status \in {"RETRY_PENDING", "FAILED"}
       /\ \E e \in executions' : e.row = s /\ e.status = "FAILED"

\* ... to the decision it carries out.
WorkEffect(s) ==
    \/ /\ sched'[s].decision = sched[s].decision /\ sched'[s].human = sched[s].human
       /\ sched'[s].status # "NONE" => sched[s].status # "NONE"
    \/ /\ sched'[s].decision.gate = "ALLOW"
       /\ \/ sched'[s].human
          \/ sched'[s].decision.policy = "APPROVE" /\ sched'[s].decision.action = "ACT"

\* ... and to the version of the case it carries.
VersionKept(s) == sched'[s].version = sched[s].version

BecomesCurrent(s) ==
    /\ sched'[s].version = version' /\ version' > version
    /\ caseState' \in {"SCHEDULED", "EXECUTING"}
    /\ \A t \in Rows \ {s} : VersionKept(t)

RowsEffect ==
    /\ executions \subseteq executions'
    /\ \A s \in Rows : StatusEffect(s) /\ WorkEffect(s)
    /\ (\A s \in Rows : VersionKept(s)) \/ (\E s \in Rows : BecomesCurrent(s))

\* A reviewer's fresh policy result is APPROVE or ESCALATE only on an allowed
\* gate: PolicyOutcomes leaves STOP and DENY for the others.
ReviewGated ==
    \A p \in Procs : pc[p] = "reviewed" /\ snap[p].policy \in {"APPROVE", "ESCALATE"} =>
       snap[p].decision.gate = "ALLOW"

\* A step that leaves scheduled_actions and executions alone.
LEMMA SameRows ==
    ASSUME UNCHANGED <<sched, executions>>
    PROVE  RowsEffect
BY DEF RowsEffect, StatusEffect, WorkEffect, VersionKept

\* A row used for the first time carries the decision, at the new version.
LEMMA NewRowEffect ==
    ASSUME TypeOK, NEW t \in Rows, NEW d \in Decisions \cup {NoDecision}, NEW h \in BOOLEAN, NEW n \in Nat,
           sched' = [sched EXCEPT ![t] = NewRow(d, n, h)],
           n = version', version' > version, caseState' = "SCHEDULED",
           d.gate = "ALLOW", h \/ (d.policy = "APPROVE" /\ d.action = "ACT"),
           UNCHANGED executions
    PROVE  RowsEffect
<1> DEFINE row == NewRow(d, n, h)
<1>1. /\ row.status = "PENDING" /\ row.version = n /\ row.decision = d /\ row.human = h
  BY DEF NewRow, NoRow
<1>2. sched'[t] = row /\ \A s \in Rows \ {t} : sched'[s] = sched[s]
  BY DEF TypeOK, TableTypeOK
<1> HIDE DEF row
<1>3. \A s \in Rows : StatusEffect(s)
  BY <1>1, <1>2 DEF StatusEffect
<1>4. \A s \in Rows : WorkEffect(s)
  BY <1>1, <1>2 DEF WorkEffect
<1>5. BecomesCurrent(t)
  BY <1>1, <1>2 DEF BecomesCurrent, VersionKept
<1> QED BY <1>3, <1>4, <1>5 DEF RowsEffect

\* MarkExecuting: the row keeps its work, and its version follows the case.
LEMMA MarkRowEffect ==
    ASSUME TypeOK, NEW t \in Rows, MarkRow(t), UNCHANGED executions
    PROVE  RowsEffect
<1>1. \A s \in Rows : StatusEffect(s) /\ WorkEffect(s)
  BY DEF MarkRow, TypeOK, TableTypeOK, RowType, StatusEffect, WorkEffect
<1>2. (\A s \in Rows : VersionKept(s)) \/ BecomesCurrent(t)
  <2>1. CASE caseState = "SCHEDULED"
    <3>1. version' = version + 1 /\ version' > version /\ caseState' = "EXECUTING"
      BY <2>1 DEF MarkRow, MoveCase, TypeOK, CaseTypeOK
    <3>2. sched'[t].version = version + 1 /\ \A s \in Rows \ {t} : sched'[s] = sched[s]
      BY <2>1 DEF MarkRow, TypeOK, TableTypeOK, RowType
    <3> QED BY <3>1, <3>2 DEF BecomesCurrent, VersionKept
  <2>2. CASE caseState # "SCHEDULED"
    BY <2>2 DEF MarkRow, TypeOK, TableTypeOK, RowType, VersionKept
  <2> QED BY <2>1, <2>2
<1> QED BY <1>1, <1>2 DEF RowsEffect

\* The result of an attempt in flight is always recorded.
LEMMA ResultIsRecorded ==
    ASSUME TypeOK, FencingInv, NEW w \in Workers, InFlight(w), RecordExecution(w)
    PROVE  /\ executions \subseteq executions'
           /\ \E e \in executions' :
                 /\ e.row = job[w].row
                 /\ e.status = IF result[w] = "SUCCEEDED" THEN "SUCCEEDED" ELSE "FAILED"
<1> DEFINE status == IF result[w] = "SUCCEEDED" THEN "SUCCEEDED" ELSE "FAILED"
           record == [row |-> job[w].row, attempt |-> job[w].attempt, status |-> status]
<1>1. ~ \E e \in executions : e.row = job[w].row /\ e.attempt = job[w].attempt
  BY DEF FencingInv, AttemptFencing
<1>2. executions' = executions \cup {record}
  BY <1>1 DEF RecordExecution
<1>3. record \in executions' /\ record.row = job[w].row /\ record.status = status
  BY <1>2
<1> QED BY <1>2, <1>3

\* CompleteExecution: the status written to the row has its execution.
LEMMA FinishRowEffect ==
    ASSUME TypeOK, FencingInv, NEW w \in Workers, InFlight(w), RecordExecution(w), NEW status,
           FinishRow(job[w].row, status),
           \/ status = "OBSERVATION_PENDING" /\ result[w] = "SUCCEEDED"
           \/ status \in {"RETRY_PENDING", "FAILED"} /\ result[w] # "SUCCEEDED"
    PROVE  RowsEffect
<1> DEFINE t == job[w].row
<1>1. t \in Rows /\ sched[t].status # "NONE"
  BY DEF TypeOK, HandlersOK, TableTypeOK, LocalTypeOK, RowType, JobType, FencingInv, AttemptsCounted,
         AttemptFencing, InFlight, Procs
<1>2. /\ sched'[t].status = status /\ sched'[t].version = sched[t].version
      /\ sched'[t].decision = sched[t].decision /\ sched'[t].human = sched[t].human
      /\ \A s \in Rows \ {t} : sched'[s] = sched[s]
  BY <1>1 DEF FinishRow, TypeOK, TableTypeOK, RowType
<1>3. /\ executions \subseteq executions'
      /\ \E e \in executions' :
            /\ e.row = t
            /\ e.status = IF result[w] = "SUCCEEDED" THEN "SUCCEEDED" ELSE "FAILED"
  BY ResultIsRecorded
<1> HIDE DEF t
<1>4. \A s \in Rows : StatusEffect(s)
  BY <1>2, <1>3 DEF StatusEffect
<1>5. \A s \in Rows : WorkEffect(s) /\ VersionKept(s)
  BY <1>1, <1>2 DEF WorkEffect, VersionKept
<1> QED BY <1>3, <1>4, <1>5 DEF RowsEffect

\* The effect of a step of a decider on the rows.
LEMMA DecideStepRows ==
    ASSUME TypeOK, TypeOK', NEW p \in Workers \cup Deciders, DecideStep(p)
    PROVE  RowsEffect
<1>1. CASE PrepareForDecision(p) \/ Evaluate(p) \/ SaveDecisionConflict(p)
  BY <1>1, SameRows DEF PrepareForDecision, Evaluate, SaveDecisionConflict, tableVars
<1>2. CASE SaveDecisionAndSchedule(p)
  <2> DEFINE d == snap[p].decision
  <2>1. UNCHANGED executions /\ p \in Procs /\ d \in Decisions
    BY <1>2 DEF SaveDecisionAndSchedule, TypeOK, HandlersOK, Procs
  <2>2. CASE UNCHANGED sched
    BY <2>1, <2>2, SameRows
  <2>3. CASE SaveAndSchedule(d)
    <3> HIDE DEF d
    <3>1. PICK t \in Rows : sched' = [sched EXCEPT ![t] = NewRow(d, version + 2, FALSE)]
      BY <2>3 DEF SaveAndSchedule
    <3>2. d.policy = "APPROVE" /\ d.gate = "ALLOW" /\ d.action = "ACT"
      BY <2>1, <2>3 DEF SaveAndSchedule, Decisions
    <3>3. version + 2 \in Nat /\ version + 2 = version' /\ version' > version /\ caseState' = "SCHEDULED"
      BY <2>3 DEF SaveAndSchedule, MoveCase, TypeOK, CaseTypeOK
    <3> QED BY <2>1, <3>1, <3>2, <3>3, NewRowEffect
  <2> QED BY <1>2, <2>2, <2>3 DEF SaveDecisionAndSchedule, SaveEscalated, SaveStopped, SaveOnly
<1> QED BY <1>1, <1>2 DEF DecideStep

\* The effect of a step of a worker on the rows.
LEMMA WorkerStepRows ==
    ASSUME TypeOK, FencingInv, NEW w \in Workers, WorkerStep(w)
    PROVE  RowsEffect
<1> DEFINE t == job[w].row
<1>p. w \in Procs
  BY DEF Procs
<1>r. pc[w] \in ExecutionLabels \cup {"observing"} => t \in Rows
  BY <1>p DEF TypeOK, HandlersOK
<1>t. sched \in [Rows -> RowType]
  BY DEF TypeOK, TableTypeOK
<1>1. CASE ReadContext(w) \/ MarkExecutingConflict(w)
  BY <1>1, SameRows DEF ReadContext, MarkExecutingConflict, tableVars
<1>2. CASE ClaimDue(w)
  <2>1. UNCHANGED executions
    BY <1>2 DEF ClaimDue
  <2>2. PICK s \in Rows :
          /\ Claimable(s)
          /\ sched' = [sched EXCEPT ![s].status = "CLAIMED", ![s].leased = TRUE, ![s].attempt = @ + 1]
    BY <1>2 DEF ClaimDue
  <2>3. \A r \in Rows : StatusEffect(r) /\ WorkEffect(r) /\ VersionKept(r)
    BY <1>t, <2>2 DEF RowType, Claimable, StatusEffect, WorkEffect, VersionKept
  <2> QED BY <2>1, <2>3 DEF RowsEffect
<1>3. CASE MarkSuppressed(w)
  <2>1. UNCHANGED executions
    BY <1>3 DEF MarkSuppressed
  <2>2. t \in Rows
    BY <1>3, <1>r DEF MarkSuppressed, ExecutionLabels
  <2>3. \/ UNCHANGED sched
        \/ /\ sched[t].status # "NONE"
           /\ sched' = [sched EXCEPT ![t].status = "SUPERSEDED", ![t].leased = FALSE]
    BY <1>3 DEF MarkSuppressed
  <2> HIDE DEF t
  <2>4. \A r \in Rows : StatusEffect(r) /\ WorkEffect(r) /\ VersionKept(r)
    BY <1>t, <2>2, <2>3 DEF RowType, StatusEffect, WorkEffect, VersionKept
  <2> QED BY <2>1, <2>4 DEF RowsEffect
<1>4. CASE MarkExecuting(w) \/ MarkReconciled(w)
  BY <1>4, <1>r, MarkRowEffect DEF MarkExecuting, MarkReconciled, ExecutionLabels
<1>5. CASE Execute(w)
  <2>1. UNCHANGED executions /\ t \in Rows
    BY <1>5, <1>r DEF Execute, ExecutionLabels
  <2>2. PICK b : sched' = [sched EXCEPT ![t].reference = b]
    BY <1>5 DEF Execute
  <2> HIDE DEF t
  <2>3. \A r \in Rows : StatusEffect(r) /\ WorkEffect(r) /\ VersionKept(r)
    BY <1>t, <2>1, <2>2 DEF RowType, StatusEffect, WorkEffect, VersionKept
  <2> QED BY <2>1, <2>3 DEF RowsEffect
<1>6. CASE CompleteWithRetry(w)
  BY <1>6, FinishRowEffect DEF CompleteWithRetry, Retries, InFlight, ExecutionLabels
<1>7. CASE CompleteSucceeded(w)
  BY <1>7, FinishRowEffect DEF CompleteSucceeded, InFlight, ExecutionLabels
<1>8. CASE CompleteFailed(w)
  BY <1>8, FinishRowEffect DEF CompleteFailed, InFlight, ExecutionLabels
<1>9. CASE ClaimDueObservation(w)
  <2>1. UNCHANGED executions
    BY <1>9 DEF ClaimDueObservation
  <2>2. PICK s \in Rows :
          /\ DueObservation(s)
          /\ sched' = [sched EXCEPT ![s].status = "OBSERVATION_CLAIMED", ![s].leased = TRUE]
    BY <1>9 DEF ClaimDueObservation
  <2>3. \A r \in Rows : StatusEffect(r) /\ WorkEffect(r) /\ VersionKept(r)
    BY <1>t, <2>2 DEF RowType, DueObservation, Watching, StatusEffect, WorkEffect, VersionKept
  <2> QED BY <2>1, <2>3 DEF RowsEffect
<1>10. CASE PrepareReassessment(w)
  <2>1. UNCHANGED executions /\ t \in Rows
    BY <1>10, <1>r DEF PrepareReassessment
  <2>2. \/ UNCHANGED sched
        \/ /\ sched[t].status = "OBSERVATION_CLAIMED"
           /\ sched' = [sched EXCEPT ![t].status = "OBSERVED", ![t].leased = FALSE]
    BY <1>10 DEF PrepareReassessment
  <2> HIDE DEF t
  <2>3. \A r \in Rows : StatusEffect(r) /\ WorkEffect(r) /\ VersionKept(r)
    BY <1>t, <2>1, <2>2 DEF RowType, Watching, StatusEffect, WorkEffect, VersionKept
  <2> QED BY <2>1, <2>3 DEF RowsEffect
<1> QED BY <1>1, <1>2, <1>3, <1>4, <1>5, <1>6, <1>7, <1>8, <1>9, <1>10 DEF WorkerStep

\* The effect of a step of a reviewer on the rows.
LEMMA ReviewStepRows ==
    ASSUME TypeOK, ReviewGated, NEW r \in Reviewers, ReviewStep(r)
    PROVE  RowsEffect
<1>1. CASE ViewQueue(r) \/ LoadReviewItem(r) \/ ReviewEvaluate(r) \/ RecordReview(r) \/ StopReview(r)
  BY <1>1, SameRows DEF ViewQueue, LoadReviewItem, ReviewEvaluate, RecordReview, StopReview, tableVars
<1>2. CASE ApproveReview(r)
  <2> DEFINE d == snap[r].decision
  <2>1. UNCHANGED executions /\ r \in Procs /\ d \in Decisions \cup {NoDecision}
    BY <1>2 DEF ApproveReview, TypeOK, LocalTypeOK, SnapType, Procs
  <2>2. d.gate = "ALLOW"
    BY <1>2, <2>1 DEF ApproveReview, Authorizes, ReviewGated
  <2> HIDE DEF d
  <2>3. PICK t \in Rows : sched' = [sched EXCEPT ![t] = NewRow(d, version + 3, TRUE)]
    BY <1>2 DEF ApproveReview, d
  <2>4. version + 3 \in Nat /\ version + 3 = version' /\ version' > version /\ caseState' = "SCHEDULED"
    BY <1>2 DEF ApproveReview, MoveCase, TypeOK, CaseTypeOK
  <2> QED BY <2>1, <2>2, <2>3, <2>4, NewRowEffect
<1> QED BY <1>1, <1>2 DEF ReviewStep

\* Every step affects the rows as RowsEffect says.
LEMMA NextRows == TypeOK /\ TypeOK' /\ FencingInv /\ ReviewGated /\ [Next]_vars => RowsEffect
<1> SUFFICES ASSUME TypeOK, TypeOK', FencingInv, ReviewGated, [Next]_vars PROVE RowsEffect
  OBVIOUS
<1>1. CASE \E p \in Workers \cup Deciders : DecideStep(p)
  BY <1>1, DecideStepRows
<1>2. CASE \E w \in Workers : WorkerStep(w)
  BY <1>2, WorkerStepRows
<1>3. CASE \E r \in Reviewers : ReviewStep(r)
  BY <1>3, ReviewStepRows
<1>4. CASE \E s \in Rows : LeaseExpires(s) \/ LeaseOverruns(s)
  <2>1. PICK s \in Rows : sched' = [sched EXCEPT ![s].leased = FALSE] /\ UNCHANGED executions
    BY <1>4 DEF LeaseExpires, LeaseOverruns
  <2>2. \A r \in Rows : StatusEffect(r) /\ WorkEffect(r) /\ VersionKept(r)
    BY <2>1 DEF TypeOK, TableTypeOK, RowType, StatusEffect, WorkEffect, VersionKept
  <2> QED BY <2>1, <2>2 DEF RowsEffect
<1>5. CASE (\E o \in Operators : TransitionStep(o)) \/ (\E p \in Procs : Abandon(p))
           \/ ObservePayment \/ CustomerResponse \/ DeadlinePasses \/ UNCHANGED vars
  BY <1>5, SameRows DEF TransitionStep, ReadForTransition, ApplyTransition, RefuseTransition, Abandon,
     ObservePayment, CustomerResponse, DeadlinePasses, vars, tableVars
<1> QED BY <1>1, <1>2, <1>3, <1>4, <1>5 DEF Next

-----------------------------------------------------------------------------
\* A process is in "reviewed" because it was, with the same review in hand, or
\* because it has just evaluated the policy.
ReviewEffect ==
    \A p \in Procs : pc'[p] = "reviewed" =>
       \/ /\ pc[p] = "reviewed" /\ snap'[p].policy = snap[p].policy
          /\ snap'[p].decision = snap[p].decision
       \/ /\ snap'[p].policy \in PolicyOutcomes(snap[p].decision.gate)
          /\ snap'[p].decision = snap[p].decision

\* A handler that returns is in no review.
LEMMA ReleaseReview ==
    ASSUME TypeOK, NEW p \in Procs, Release(p)
    PROVE  ReviewEffect
BY DEF Release, ReviewEffect, TypeOK, LocalTypeOK

\* A handler that moves to another label leaves the reviews of others alone.
LEMMA GotoReview ==
    ASSUME TypeOK, NEW p \in Procs, NEW label, label # "reviewed", Goto(p, label),
           \A q \in Procs \ {p} : /\ snap'[q].policy = snap[q].policy
                                  /\ snap'[q].decision = snap[q].decision
    PROVE  ReviewEffect
BY DEF Goto, ReviewEffect, TypeOK, LocalTypeOK

\* Nobody moved.
LEMMA SameReview ==
    ASSUME UNCHANGED <<pc, snap>>
    PROVE  ReviewEffect
BY DEF ReviewEffect

\* Every step treats the reviews as ReviewEffect says.
LEMMA NextReview == TypeOK /\ [Next]_vars => ReviewEffect
<1> SUFFICES ASSUME TypeOK, [Next]_vars PROVE ReviewEffect
  OBVIOUS
<1>t. snap \in [Procs -> SnapType]
  BY DEF TypeOK, LocalTypeOK
<1>1. ASSUME NEW p \in Workers \cup Deciders, DecideStep(p)
      PROVE  ReviewEffect
  <2>p. p \in Procs
    BY DEF Procs
  <2>1. CASE PrepareForDecision(p)
    BY <2>1, <2>p, ReleaseReview, GotoReview DEF PrepareForDecision
  <2>2. CASE Evaluate(p)
    BY <2>2, <2>p, <1>t, GotoReview DEF Evaluate
  <2>3. CASE SaveDecisionAndSchedule(p)
    <3>1. \A q \in Procs \ {p} : snap'[q].policy = snap[q].policy /\ snap'[q].decision = snap[q].decision
      BY <2>3, <1>t DEF SaveDecisionAndSchedule, SnapType
    <3> QED BY <2>3, <2>p, <3>1, GotoReview DEF SaveDecisionAndSchedule
  <2>4. CASE SaveDecisionConflict(p)
    BY <2>4, <2>p, ReleaseReview DEF SaveDecisionConflict
  <2> QED BY <1>1, <2>1, <2>2, <2>3, <2>4 DEF DecideStep
<1>2. ASSUME NEW w \in Workers, WorkerStep(w)
      PROVE  ReviewEffect
  <2>p. w \in Procs
    BY DEF Procs
  <2>1. \/ Release(w)
        \/ /\ UNCHANGED snap
           /\ \E label \in Labels : label # "reviewed" /\ Goto(w, label)
    BY <1>2 DEF WorkerStep, ClaimDue, ReadContext, MarkSuppressed, MarkExecuting, MarkReconciled,
       MarkExecutingConflict, Execute, CompleteWithRetry, CompleteSucceeded, CompleteFailed,
       ClaimDueObservation, PrepareReassessment, Labels, ExecutionLabels
  <2> QED BY <2>p, <2>1, ReleaseReview, GotoReview
<1>3. ASSUME NEW r \in Reviewers, ReviewStep(r)
      PROVE  ReviewEffect
  <2>p. r \in Procs
    BY DEF Procs
  <2>1. CASE ViewQueue(r)
    BY <2>1, <2>p, <1>t, GotoReview DEF ViewQueue
  <2>2. CASE LoadReviewItem(r)
    BY <2>2, <2>p, <1>t, GotoReview DEF LoadReviewItem
  <2>3. CASE ReviewEvaluate(r)
    <3>1. PICK policy \in PolicyOutcomes(snap[r].decision.gate) :
             snap' = [snap EXCEPT ![r].policy = policy]
      BY <2>3 DEF ReviewEvaluate
    <3>2. snap'[r].policy = policy /\ snap'[r].decision = snap[r].decision
      BY <3>1, <2>p, <1>t DEF SnapType
    <3>3. \A q \in Procs \ {r} : snap'[q] = snap[q] /\ pc'[q] = pc[q]
      BY <2>3, <3>1, <1>t DEF ReviewEvaluate, Goto, TypeOK, LocalTypeOK
    <3> QED BY <3>1, <3>2, <3>3 DEF ReviewEffect
  <2>4. CASE ApproveReview(r) \/ RecordReview(r) \/ StopReview(r)
    BY <2>4, <2>p, ReleaseReview DEF ApproveReview, RecordReview, StopReview
  <2> QED BY <1>3, <2>1, <2>2, <2>3, <2>4 DEF ReviewStep
<1>4. ASSUME NEW o \in Operators, TransitionStep(o)
      PROVE  ReviewEffect
  <2>p. o \in Procs
    BY DEF Procs
  <2>1. CASE ReadForTransition(o)
    BY <2>1, <2>p, <1>t, GotoReview DEF ReadForTransition
  <2>2. CASE ApplyTransition(o) \/ RefuseTransition(o)
    BY <2>2, <2>p, ReleaseReview DEF ApplyTransition, RefuseTransition
  <2> QED BY <1>4, <2>1, <2>2 DEF TransitionStep
<1>5. ASSUME NEW p \in Procs, Abandon(p)
      PROVE  ReviewEffect
  BY <1>5, ReleaseReview DEF Abandon
<1>6. CASE (\E s \in Rows : LeaseExpires(s) \/ LeaseOverruns(s)) \/ ObservePayment
           \/ CustomerResponse \/ DeadlinePasses \/ UNCHANGED vars
  BY <1>6, SameReview DEF LeaseExpires, LeaseOverruns, ObservePayment, CustomerResponse,
     DeadlinePasses, vars, localVars
<1> QED BY <1>1, <1>2, <1>3, <1>4, <1>5, <1>6 DEF Next

\* Policy approves or escalates only what the economic gate allows.
LEMMA GateOfOutcome ==
    ASSUME NEW gate, NEW policy \in PolicyOutcomes(gate), policy \in {"APPROVE", "ESCALATE"}
    PROVE  gate = "ALLOW"
BY DEF PolicyOutcomes

\* ReviewGated is inductive.
LEMMA NextReviewGated ==
    ASSUME ReviewGated, ReviewEffect
    PROVE  ReviewGated'
BY GateOfOutcome DEF ReviewGated, ReviewEffect

\* What a reviewer may approve has passed the economic gate.
LEMMA ReviewsAreGated == Spec => []ReviewGated
<1>1. Init => ReviewGated
  BY DEF Init, ReviewGated
<1>2. TypeOK /\ ReviewGated /\ [Next]_vars => ReviewGated'
  BY NextReview, NextReviewGated
<1> QED BY <1>1, <1>2, TypeCorrect, PTL DEF Spec

\* The strengthening behind AttemptsAreFenced, for use below.
LEMMA FencingHolds == Spec => []FencingInv
BY InitFencing, NextFencing, TypeCorrect, PTL DEF Spec

-----------------------------------------------------------------------------
\* Every status that a worker's result leaves behind is explained by a recorded
\* execution with that result.
THEOREM RowsHaveEvidence == Spec => []RowEvidence
<1>1. Init => RowEvidence
  BY DEF Init, RowEvidence, Watching, NoRow
<1>2. RowEvidence /\ RowsEffect => RowEvidence'
  <2> SUFFICES ASSUME RowEvidence, RowsEffect PROVE RowEvidence'
    OBVIOUS
  <2> SUFFICES ASSUME NEW s \in Rows
               PROVE  /\ sched'[s].status \in {"OBSERVATION_PENDING", "OBSERVATION_CLAIMED", "OBSERVED"}
                         => \E e \in executions' : e.row = s /\ e.status = "SUCCEEDED"
                      /\ sched'[s].status \in {"RETRY_PENDING", "FAILED"}
                         => \E e \in executions' : e.row = s /\ e.status = "FAILED"
    BY DEF RowEvidence, Watching
  <2>1. StatusEffect(s) /\ executions \subseteq executions'
    BY DEF RowsEffect
  <2>2. /\ sched[s].status \in {"OBSERVATION_PENDING", "OBSERVATION_CLAIMED", "OBSERVED"}
           => \E e \in executions : e.row = s /\ e.status = "SUCCEEDED"
        /\ sched[s].status \in {"RETRY_PENDING", "FAILED"}
           => \E e \in executions : e.row = s /\ e.status = "FAILED"
    BY DEF RowEvidence, Watching
  <2> QED BY <2>1, <2>2 DEF StatusEffect, Watching
<1>3. TypeOK /\ TypeOK' /\ FencingInv /\ ReviewGated /\ RowEvidence /\ [Next]_vars => RowEvidence'
  BY <1>2, NextRows DEF RowEvidence, vars, tableVars
<1> QED BY <1>1, <1>3, TypeCorrect, FencingHolds, ReviewsAreGated, PTL DEF Spec

\* Nothing is ever scheduled on a blocked gate, nor without an approval by
\* policy or by a person.
THEOREM WorkIsAuthorised == Spec => []AuthorisedWork
<1>1. Init => AuthorisedWork
  BY DEF Init, AuthorisedWork, NoRow
<1>2. AuthorisedWork /\ RowsEffect => AuthorisedWork'
  BY DEF AuthorisedWork, RowsEffect, WorkEffect
<1>3. TypeOK /\ TypeOK' /\ FencingInv /\ ReviewGated /\ AuthorisedWork /\ [Next]_vars => AuthorisedWork'
  BY <1>2, NextRows
<1> QED BY <1>1, <1>3, TypeCorrect, FencingHolds, ReviewsAreGated, PTL DEF Spec

\* The strengthening of FreshRow: no row is ahead of its case.
FreshInv == FreshRow /\ \A s \in Rows : sched[s].version <= version

\* FreshInv is inductive: a row that gets a version gets the new one.
LEMMA NextFresh ==
    ASSUME TypeOK, TypeOK', FreshInv, RowsEffect, CaseEffect
    PROVE  FreshInv'
<1> USE DEF FreshInv
<1>1. /\ version \in Nat /\ version' \in Nat
      /\ \A s \in Rows : sched[s].version \in Nat /\ sched'[s].version \in Nat
  BY DEF TypeOK, CaseTypeOK, TableTypeOK, RowType
<1>2. UNCHANGED <<caseState, version>> \/ version' > version
  BY CaseBump
<1>3. CASE \A s \in Rows : VersionKept(s)
  BY <1>1, <1>2, <1>3 DEF VersionKept, FreshRow
<1>4. CASE \E s \in Rows : BecomesCurrent(s)
  BY <1>1, <1>4 DEF VersionKept, BecomesCurrent, FreshRow
<1> QED BY <1>3, <1>4 DEF RowsEffect

\* Of all rows ever scheduled for a case at most one passes the worker's
\* version comparison, and only while the case is SCHEDULED or EXECUTING.
THEOREM OneFreshRow == Spec => []FreshRow
<1>1. Init => FreshInv
  BY DEF Init, FreshInv, FreshRow, NoRow
<1>2. TypeOK /\ TypeOK' /\ FencingInv /\ ReviewGated /\ FreshInv /\ [Next]_vars => FreshInv'
  BY NextRows, NextCase, NextFresh
<1>3. FreshInv => FreshRow
  BY DEF FreshInv
<1> QED BY <1>1, <1>2, <1>3, TypeCorrect, FencingHolds, ReviewsAreGated, PTL DEF Spec

-----------------------------------------------------------------------------
(* Waits.                                                                   *)
(*                                                                          *)
(* Until a lease lapses under its live holder, a worker in flight is the    *)
(* only one on its row, which is as the worker last left it (LeasesHeld):   *)
(* a completion finds its row EXECUTING and never overwrites an             *)
(* observation.  So a row that watches a wait does so until it ends it.     *)

\* The worker's row is the way the worker last left it.
Holds(w) ==
    /\ sched[job[w].row].leased
    /\ sched[job[w].row].attempt = job[w].attempt
    /\ sched[job[w].row].status = IF pc[w] \in {"executing", "executed"} THEN "EXECUTING" ELSE "CLAIMED"

LeasesHeld == \A w \in Workers : InFlight(w) => Holds(w)

\* No two workers in flight are on one row.
LEMMA OthersElsewhere ==
    ASSUME FencingInv, LeasesHeld, NEW w \in Workers, NEW v \in Workers \ {w}, InFlight(w), InFlight(v)
    PROVE  job[v].row # job[w].row
BY DEF FencingInv, AttemptFencing, LeasesHeld, Holds

\* A step of one handler that touches at most one row, which none of the others
\* in flight is on.
LEMMA StepHolds ==
    ASSUME LeasesHeld, NEW w, NEW t,
           \A v \in Workers \ {w} : pc'[v] = pc[v] /\ job'[v] = job[v],
           \A v \in Workers \ {w} : InFlight(v) => job[v].row \in Rows \ {t},
           \A s \in Rows \ {t} : /\ sched'[s].leased = sched[s].leased
                                 /\ sched'[s].attempt = sched[s].attempt
                                 /\ sched'[s].status = sched[s].status,
           pc'[w] \in ExecutionLabels => Holds(w)'
    PROVE  LeasesHeld'
<1> SUFFICES ASSUME NEW v \in Workers, InFlight(v)' PROVE Holds(v)'
  BY DEF LeasesHeld
<1>1. CASE v = w
  BY <1>1 DEF InFlight
<1>2. CASE v # w
  <2>1. pc'[v] = pc[v] /\ job'[v] = job[v] /\ InFlight(v) /\ Holds(v) /\ job[v].row \in Rows \ {t}
    BY <1>2 DEF InFlight, LeasesHeld
  <2> QED BY <2>1 DEF Holds
<1> QED BY <1>1, <1>2

\* What a watching row and the case do in one step: the case is not waiting
\* afterwards, or a row watches a wait that begins, or the watching rows go on.
WatchEffect ==
    \/ caseState' # "WAITING_OUTCOME"
    \/ \E s \in Rows : Watching(s)'
    \/ caseState = "WAITING_OUTCOME" /\ \A s \in Rows : Watching(s) => Watching(s)'

\* Rows of workers in flight are rows, and handlers are processes.
LEMMA FlightRows ==
    ASSUME TypeOK
    PROVE  /\ \A v \in Workers : v \in Procs /\ (InFlight(v) => job[v].row \in Rows)
           /\ \A v \in Workers : pc[v] = "observing" => job[v].row \in Rows
           /\ sched \in [Rows -> RowType] /\ \A s \in Rows : sched[s] \in RowType
BY DEF TypeOK, HandlersOK, TableTypeOK, LocalTypeOK, InFlight, Procs

\* A handler that returns holds nothing; the others are where they were.
LEMMA ReleaseHolds ==
    ASSUME TypeOK, NEW p \in Procs, Release(p)
    PROVE  /\ \A v \in Workers \ {p} : pc'[v] = pc[v] /\ job'[v] = job[v]
           /\ pc'[p] \notin ExecutionLabels
BY DEF Release, TypeOK, LocalTypeOK, ExecutionLabels, Procs

\* Likewise for a handler that moves on to another label.
LEMMA GotoHolds ==
    ASSUME TypeOK, NEW p \in Procs, NEW label, Goto(p, label),
           \A v \in Workers \ {p} : job'[v] = job[v]
    PROVE  /\ \A v \in Workers \ {p} : pc'[v] = pc[v] /\ job'[v] = job[v]
           /\ pc'[p] = label
BY DEF Goto, TypeOK, LocalTypeOK, Procs

\* A step that touches no row, of one handler that goes nowhere new.
LEMMA SameRowsHold ==
    ASSUME TypeOK, LeasesHeld, UNCHANGED sched, NEW p \in Procs,
           \A v \in Workers \ {p} : pc'[v] = pc[v] /\ job'[v] = job[v],
           pc'[p] \notin ExecutionLabels
    PROVE  LeasesHeld'
<1>1. \A v \in Workers \ {p} : InFlight(v) => job[v].row \in Rows \ {0}
  BY FlightRows DEF Rows
<1> QED BY <1>1, StepHolds

\* A decision schedules a row that nobody is on and that watches nothing.
LEMMA NewRowHolds ==
    ASSUME TypeOK, LeasesHeld, NEW d, NEW n, NEW h, NEW p \in Procs,
           \E s \in Rows : NextRow(s) /\ sched' = [sched EXCEPT ![s] = NewRow(d, n, h)],
           \A v \in Workers \ {p} : pc'[v] = pc[v] /\ job'[v] = job[v],
           pc'[p] \notin ExecutionLabels
    PROVE  LeasesHeld'
<1>1. PICK t \in Rows : NextRow(t) /\ sched' = [sched EXCEPT ![t] = NewRow(d, n, h)]
  OBVIOUS
<1>2. sched[t].status = "NONE" /\ \A s \in Rows \ {t} : sched'[s] = sched[s]
  BY <1>1, FlightRows DEF NextRow, FreeRows
<1>3. \A v \in Workers \ {p} : InFlight(v) => job[v].row \in Rows \ {t}
  BY <1>2, FlightRows DEF LeasesHeld, Holds
<1> QED BY <1>2, <1>3, StepHolds

\* A decider touches no row but the free one that it may schedule.
LEMMA DecideStepHolds ==
    ASSUME TypeOK, LeasesHeld, NEW p \in Workers \cup Deciders, DecideStep(p)
    PROVE  LeasesHeld'
<1>p. p \in Procs
  BY DEF Procs
<1>1. CASE PrepareForDecision(p)
  BY <1>1, <1>p, ReleaseHolds, GotoHolds, SameRowsHold
  DEF PrepareForDecision, tableVars, ExecutionLabels
<1>2. CASE Evaluate(p)
  BY <1>2, <1>p, GotoHolds, SameRowsHold DEF Evaluate, tableVars, ExecutionLabels
<1>3. CASE SaveDecisionAndSchedule(p)
  <2> DEFINE d == snap[p].decision
  <2>1. \/ UNCHANGED sched
        \/ \E s \in Rows : NextRow(s) /\ sched' = [sched EXCEPT ![s] = NewRow(d, version + 2, FALSE)]
    BY <1>3 DEF SaveDecisionAndSchedule, SaveEscalated, SaveStopped, SaveOnly, SaveAndSchedule
  <2>2. /\ \A v \in Workers \ {p} : pc'[v] = pc[v] /\ job'[v] = job[v]
        /\ pc'[p] \notin ExecutionLabels
    BY <1>3, <1>p, GotoHolds DEF SaveDecisionAndSchedule, ExecutionLabels
  <2> HIDE DEF d
  <2>3. CASE UNCHANGED sched
    BY <1>p, <2>2, <2>3, SameRowsHold
  <2>4. CASE \E s \in Rows : NextRow(s) /\ sched' = [sched EXCEPT ![s] = NewRow(d, version + 2, FALSE)]
    BY <1>p, <2>2, <2>4, NewRowHolds
  <2> QED BY <2>1, <2>3, <2>4
<1>4. CASE SaveDecisionConflict(p)
  BY <1>4, <1>p, ReleaseHolds, SameRowsHold DEF SaveDecisionConflict, tableVars
<1> QED BY <1>1, <1>2, <1>3, <1>4 DEF DecideStep

\* MarkExecuting finds the row CLAIMED and leaves it EXECUTING under its lease.
LEMMA MarkRowKeepsLease ==
    ASSUME TypeOK, NEW t \in Rows, MarkRow(t)
    PROVE  /\ sched[t].status = "CLAIMED" /\ sched'[t].status = "EXECUTING"
           /\ sched'[t].leased = sched[t].leased /\ sched'[t].attempt = sched[t].attempt
           /\ \A s \in Rows \ {t} : sched'[s] = sched[s]
BY DEF MarkRow, TypeOK, TableTypeOK, RowType

\* A worker touches only the row in its hands; a claim takes a row that no
\* worker in flight is on, since those have their leases.
LEMMA WorkerStepHolds ==
    ASSUME TypeOK, FencingInv, LeasesHeld, NEW w \in Workers, WorkerStep(w)
    PROVE  LeasesHeld'
<1> DEFINE t == job[w].row
<1>p. w \in Procs
  BY DEF Procs
<1>r. pc[w] \in ExecutionLabels \cup {"observing"} => t \in Rows
  BY FlightRows DEF InFlight
<1>t. sched \in [Rows -> RowType] /\ job \in [Procs -> JobType] /\ pc \in [Procs -> Labels]
  BY DEF TypeOK, TableTypeOK, LocalTypeOK
<1>o. InFlight(w) => \A v \in Workers \ {w} : InFlight(v) => job[v].row \in Rows \ {t}
  BY OthersElsewhere, FlightRows
<1>1. CASE ClaimDue(w)
  <2>1. PICK s \in Rows :
          /\ Claimable(s)
          /\ sched' = [sched EXCEPT ![s].status = "CLAIMED", ![s].leased = TRUE, ![s].attempt = @ + 1]
          /\ job' = [job EXCEPT ![w] = [row |-> s, attempt |-> sched[s].attempt + 1,
                                        version |-> sched[s].version]]
    BY <1>1 DEF ClaimDue
  <2>2. /\ \A r \in Rows \ {s} : sched'[r] = sched[r]
        /\ sched'[s].leased = TRUE /\ sched'[s].status = "CLAIMED" /\ sched'[s].attempt = sched[s].attempt + 1
    BY <2>1, <1>t DEF RowType
  <2>3. job'[w].row = s /\ job'[w].attempt = sched[s].attempt + 1 /\ \A v \in Workers \ {w} : job'[v] = job[v]
    BY <2>1, <1>t, <1>p
  <2>4. pc'[w] = "claimed" /\ \A v \in Workers \ {w} : pc'[v] = pc[v]
    BY <1>1, <1>t, <1>p DEF ClaimDue, Goto, Procs
  <2>5. \A v \in Workers \ {w} : InFlight(v) => job[v].row \in Rows \ {s}
    BY <2>1, FlightRows DEF Claimable, LeasesHeld, Holds
  <2>6. Holds(w)'
    BY <2>2, <2>3, <2>4 DEF Holds
  <2>7. \A v \in Workers \ {w} : pc'[v] = pc[v] /\ job'[v] = job[v]
    BY <2>3, <2>4
  <2>8. \A r \in Rows \ {s} : /\ sched'[r].leased = sched[r].leased
                              /\ sched'[r].attempt = sched[r].attempt
                              /\ sched'[r].status = sched[r].status
    BY <2>2
  <2> QED BY <2>5, <2>6, <2>7, <2>8, StepHolds
<1>2. CASE ReadContext(w)
  <2>1. \E label \in {"authorized", "suppress"} : Goto(w, label)
    BY <1>2 DEF ReadContext
  <2>2. UNCHANGED <<sched, job>> /\ pc[w] = "claimed"
    BY <1>2 DEF ReadContext, tableVars
  <2>3. pc'[w] \in {"authorized", "suppress"} /\ \A v \in Workers \ {w} : pc'[v] = pc[v]
    BY <2>1, <1>t, <1>p DEF Goto, Procs
  <2>4. Holds(w)'
    BY <2>2, <2>3 DEF LeasesHeld, Holds, InFlight, ExecutionLabels
  <2>5. \A v \in Workers \ {w} : InFlight(v) => job[v].row \in Rows \ {0}
    BY FlightRows DEF Rows
  <2>6. \A v \in Workers \ {w} : pc'[v] = pc[v] /\ job'[v] = job[v]
    BY <2>2, <2>3
  <2>7. \A s \in Rows : sched'[s] = sched[s]
    BY <2>2
  <2> QED BY <2>4, <2>5, <2>6, <2>7, StepHolds
<1>3. CASE MarkSuppressed(w)
  <2>1. InFlight(w) /\ t \in Rows
    BY <1>3, <1>r DEF MarkSuppressed, InFlight, ExecutionLabels
  <2>2. \A s \in Rows \ {t} : sched'[s] = sched[s]
    BY <1>3, <2>1, <1>t DEF MarkSuppressed
  <2>3. Release(w)
    BY <1>3 DEF MarkSuppressed
  <2>4. /\ \A v \in Workers \ {w} : pc'[v] = pc[v] /\ job'[v] = job[v]
        /\ pc'[w] \notin ExecutionLabels
    BY <2>3, <1>p, ReleaseHolds
  <2> HIDE DEF t
  <2> QED BY <2>1, <2>2, <2>4, <1>o, StepHolds
<1>4. CASE MarkExecuting(w) \/ MarkReconciled(w)
  <2>1. InFlight(w) /\ t \in Rows /\ MarkRow(t) /\ UNCHANGED job
    BY <1>4, <1>r DEF MarkExecuting, MarkReconciled, InFlight, ExecutionLabels
  <2>2. Goto(w, "executing") \/ Goto(w, "executed")
    BY <1>4 DEF MarkExecuting, MarkReconciled
  <2>3. pc'[w] \in {"executing", "executed"} /\ \A v \in Workers \ {w} : pc'[v] = pc[v]
    BY <2>2, <1>t, <1>p DEF Goto, Procs
  <2>4. Holds(w)'
    BY <2>1, <2>3, MarkRowKeepsLease DEF LeasesHeld, Holds
  <2>5. \A v \in Workers \ {w} : pc'[v] = pc[v] /\ job'[v] = job[v]
    BY <2>1, <2>3
  <2>6. \A s \in Rows \ {t} : sched'[s] = sched[s]
    BY <2>1, MarkRowKeepsLease
  <2> HIDE DEF t
  <2> QED BY <2>1, <2>4, <2>5, <2>6, <1>o, StepHolds
<1>5. CASE MarkExecutingConflict(w)
  BY <1>5, <1>p, ReleaseHolds, SameRowsHold DEF MarkExecutingConflict, tableVars
<1>6. CASE Execute(w)
  <2>1. InFlight(w) /\ t \in Rows /\ UNCHANGED job /\ pc[w] = "executing" /\ Goto(w, "executed")
    BY <1>6, <1>r DEF Execute, InFlight, ExecutionLabels
  <2>2. PICK b : sched' = [sched EXCEPT ![t].reference = b]
    BY <1>6 DEF Execute
  <2>3. /\ \A s \in Rows : /\ sched'[s].leased = sched[s].leased /\ sched'[s].attempt = sched[s].attempt
                           /\ sched'[s].status = sched[s].status
    BY <2>1, <2>2, <1>t DEF RowType
  <2>4. pc'[w] = "executed" /\ \A v \in Workers \ {w} : pc'[v] = pc[v]
    BY <2>1, <1>t, <1>p DEF Goto, Procs
  <2>5. Holds(w)'
    BY <2>1, <2>3, <2>4 DEF LeasesHeld, Holds
  <2>6. \A v \in Workers \ {w} : pc'[v] = pc[v] /\ job'[v] = job[v]
    BY <2>1, <2>4
  <2> HIDE DEF t
  <2>7. \A v \in Workers \ {w} : InFlight(v) => job[v].row \in Rows \ {t}
    BY <2>1, <1>o
  <2>8. \A s \in Rows \ {t} : /\ sched'[s].leased = sched[s].leased
                              /\ sched'[s].attempt = sched[s].attempt
                              /\ sched'[s].status = sched[s].status
    BY <2>3
  <2> QED BY <2>5, <2>6, <2>7, <2>8, StepHolds
<1>7. CASE CompleteWithRetry(w) \/ CompleteSucceeded(w) \/ CompleteFailed(w)
  <2>1. InFlight(w) /\ t \in Rows
    BY <1>7, <1>r DEF CompleteWithRetry, CompleteSucceeded, CompleteFailed, InFlight, ExecutionLabels
  <2>2. \E status : FinishRow(t, status)
    BY <1>7 DEF CompleteWithRetry, CompleteSucceeded, CompleteFailed
  <2>3. \A s \in Rows \ {t} : sched'[s] = sched[s]
    BY <2>1, <2>2, <1>t DEF FinishRow
  <2>4. /\ \A v \in Workers \ {w} : pc'[v] = pc[v] /\ job'[v] = job[v]
        /\ pc'[w] \notin ExecutionLabels
    <3>1. CASE Release(w)
      BY <3>1, <1>p, ReleaseHolds
    <3>2. CASE CompleteFailed(w)
      <4>1. \E label \in {"reassess", "idle"} : Goto(w, label)
        BY <3>2 DEF CompleteFailed
      <4>2. \A v \in Workers \ {w} : job'[v] = job[v]
        BY <3>2, <1>t, <1>p DEF CompleteFailed, Procs
      <4> QED BY <4>1, <4>2, <1>p, GotoHolds DEF ExecutionLabels
    <3> QED BY <1>7, <3>1, <3>2 DEF CompleteWithRetry, CompleteSucceeded
  <2> HIDE DEF t
  <2>5. /\ \A v \in Workers \ {w} : InFlight(v) => job[v].row \in Rows \ {t}
        /\ \A s \in Rows \ {t} : /\ sched'[s].leased = sched[s].leased
                                /\ sched'[s].attempt = sched[s].attempt
                                /\ sched'[s].status = sched[s].status
    BY <2>1, <2>3, <1>o
  <2> QED BY <2>4, <2>5, StepHolds
<1>8. CASE ClaimDueObservation(w)
  <2>1. PICK s \in Rows :
          /\ DueObservation(s)
          /\ sched' = [sched EXCEPT ![s].status = "OBSERVATION_CLAIMED", ![s].leased = TRUE]
          /\ job' = [job EXCEPT ![w] = [row |-> s, attempt |-> sched[s].attempt,
                                        version |-> sched[s].version]]
    BY <1>8 DEF ClaimDueObservation
  <2>2. \A r \in Rows \ {s} : sched'[r] = sched[r]
    BY <2>1, <1>t
  <2>3. \A v \in Workers \ {w} : job'[v] = job[v]
    BY <2>1, <1>t, <1>p DEF Procs
  <2>4. pc'[w] = "observing" /\ \A v \in Workers \ {w} : pc'[v] = pc[v]
    BY <1>8, <1>t, <1>p DEF ClaimDueObservation, Goto, Procs
  <2>5. \A v \in Workers \ {w} : InFlight(v) => job[v].row \in Rows \ {s}
    BY <2>1, FlightRows DEF DueObservation, LeasesHeld, Holds
  <2> QED BY <2>2, <2>3, <2>4, <2>5, StepHolds DEF ExecutionLabels
<1>9. CASE PrepareReassessment(w)
  <2>1. t \in Rows /\ \E label \in {"reassess", "idle"} : Goto(w, label)
    BY <1>9, <1>r DEF PrepareReassessment
  <2>2. \A v \in Workers \ {w} : job'[v] = job[v]
    BY <1>9, <1>t, <1>p DEF PrepareReassessment, Procs
  <2>3. /\ \A v \in Workers \ {w} : pc'[v] = pc[v] /\ job'[v] = job[v]
        /\ pc'[w] \notin ExecutionLabels
    BY <2>1, <2>2, <1>p, GotoHolds DEF ExecutionLabels
  <2>4. CASE UNCHANGED sched
    BY <2>3, <2>4, <1>p, SameRowsHold
  <2>5. CASE sched[t].status = "OBSERVATION_CLAIMED" /\ \A s \in Rows \ {t} : sched'[s] = sched[s]
    <3>1. \A v \in Workers \ {w} : InFlight(v) => job[v].row \in Rows \ {t}
      BY <2>5, FlightRows DEF LeasesHeld, Holds
    <3> QED BY <2>3, <2>5, <3>1, StepHolds
  <2>6. UNCHANGED sched \/ (sched[t].status = "OBSERVATION_CLAIMED" /\ \A s \in Rows \ {t} : sched'[s] = sched[s])
    BY <1>9, <2>1, <1>t DEF PrepareReassessment
  <2> QED BY <2>4, <2>5, <2>6
<1> QED BY <1>1, <1>2, <1>3, <1>4, <1>5, <1>6, <1>7, <1>8, <1>9 DEF WorkerStep

\* A reviewer holds no row; an approval schedules one that nobody is on.
LEMMA ReviewStepHolds ==
    ASSUME TypeOK, LeasesHeld, NEW r \in Reviewers, ReviewStep(r)
    PROVE  LeasesHeld'
<1>p. r \in Procs
  BY DEF Procs
<1>1. CASE ViewQueue(r) \/ LoadReviewItem(r) \/ ReviewEvaluate(r)
  <2>1. \E label \in ClientLabels : Goto(r, label)
    BY <1>1 DEF ViewQueue, LoadReviewItem, ReviewEvaluate, ClientLabels
  <2>2. UNCHANGED <<sched, job>>
    BY <1>1 DEF ViewQueue, LoadReviewItem, ReviewEvaluate, tableVars
  <2> QED BY <2>1, <2>2, <1>p, GotoHolds, SameRowsHold DEF ClientLabels, ExecutionLabels
<1>2. CASE RecordReview(r) \/ StopReview(r)
  BY <1>2, <1>p, ReleaseHolds, SameRowsHold DEF RecordReview, StopReview, tableVars
<1>3. CASE ApproveReview(r)
  <2> DEFINE d == snap[r].decision
             n == version + 3
  <2>1. \E s \in Rows : NextRow(s) /\ sched' = [sched EXCEPT ![s] = NewRow(d, n, TRUE)]
    BY <1>3 DEF ApproveReview
  <2>2. /\ \A v \in Workers \ {r} : pc'[v] = pc[v] /\ job'[v] = job[v]
        /\ pc'[r] \notin ExecutionLabels
    BY <1>3, <1>p, ReleaseHolds DEF ApproveReview
  <2> HIDE DEF d, n
  <2> QED BY <2>1, <2>2, <1>p, NewRowHolds
<1> QED BY <1>1, <1>2, <1>3 DEF ReviewStep

\* The transition API touches no row.
LEMMA TransitionStepHolds ==
    ASSUME TypeOK, LeasesHeld, NEW o \in Operators, TransitionStep(o)
    PROVE  LeasesHeld'
<1>p. o \in Procs
  BY DEF Procs
<1>1. CASE ReadForTransition(o)
  BY <1>1, <1>p, GotoHolds, SameRowsHold DEF ReadForTransition, tableVars, ExecutionLabels
<1>2. CASE ApplyTransition(o) \/ RefuseTransition(o)
  BY <1>2, <1>p, ReleaseHolds, SameRowsHold DEF ApplyTransition, RefuseTransition, tableVars
<1> QED BY <1>1, <1>2 DEF TransitionStep

\* A lease lapses only when nobody is at work on its row, unless it overruns.
LEMMA LeaseHolds ==
    ASSUME TypeOK, LeasesHeld, NEW s \in Rows, LeaseExpires(s)
    PROVE  LeasesHeld'
<1>1. \A r \in Rows \ {s} : sched'[r] = sched[r]
  BY FlightRows DEF LeaseExpires
<1>2. \A v \in Workers : InFlight(v) => job[v].row \in Rows \ {s}
  BY FlightRows DEF LeaseExpires, Held, LeasesHeld, Holds
<1>3. \A v \in Workers : pc'[v] = pc[v] /\ job'[v] = job[v]
  BY DEF LeaseExpires, localVars
<1> SUFFICES ASSUME NEW v \in Workers, InFlight(v)' PROVE Holds(v)'
  BY DEF LeasesHeld
<1> QED BY <1>1, <1>2, <1>3 DEF InFlight, LeasesHeld, Holds

\* Leases that have not overrun are kept for their holders.
LEMMA NextHolds ==
    ASSUME TypeOK, FencingInv, LeasesHeld, [Next]_vars, overruns' = 0
    PROVE  LeasesHeld'
<1>1. CASE \E p \in Workers \cup Deciders : DecideStep(p)
  BY <1>1, DecideStepHolds
<1>2. CASE \E w \in Workers : WorkerStep(w)
  BY <1>2, WorkerStepHolds
<1>3. CASE \E r \in Reviewers : ReviewStep(r)
  BY <1>3, ReviewStepHolds
<1>4. CASE \E o \in Operators : TransitionStep(o)
  BY <1>4, TransitionStepHolds
<1>5. CASE \E p \in Procs : Abandon(p)
  BY <1>5, ReleaseHolds, SameRowsHold DEF Abandon, tableVars
<1>6. CASE \E s \in Rows : LeaseExpires(s)
  BY <1>6, LeaseHolds
<1>7. CASE \E s \in Rows : LeaseOverruns(s)
  BY <1>7 DEF LeaseOverruns, TypeOK, BudgetTypeOK
<1>8. CASE ObservePayment \/ CustomerResponse \/ DeadlinePasses \/ UNCHANGED vars
  <2>1. UNCHANGED <<sched, pc, job>>
    BY <1>8 DEF ObservePayment, CustomerResponse, DeadlinePasses, vars, tableVars, localVars
  <2> QED BY <2>1 DEF LeasesHeld, InFlight, Holds
<1> QED BY <1>1, <1>2, <1>3, <1>4, <1>5, <1>6, <1>7, <1>8 DEF Next

\* Neither a decision nor an approval takes a row that watches a wait.
LEMMA NewRowWatch ==
    ASSUME TypeOK, NEW d, NEW n, NEW h,
           \E s \in Rows : NextRow(s) /\ sched' = [sched EXCEPT ![s] = NewRow(d, n, h)]
    PROVE  \A s \in Rows : Watching(s) => Watching(s)'
BY FlightRows DEF NextRow, FreeRows, Watching

\* A worker that completes an execution finds its row EXECUTING, and the row
\* that it leaves to be observed watches the wait that begins with it.
LEMMA CompleteWatch ==
    ASSUME TypeOK, LeasesHeld, NEW w \in Workers, pc[w] = "executed",
           NEW status, FinishRow(job[w].row, status)
    PROVE  /\ \A s \in Rows : Watching(s) => Watching(s)'
           /\ status = "OBSERVATION_PENDING" => \E s \in Rows : Watching(s)'
<1> DEFINE t == job[w].row
<1>1. t \in Rows /\ sched[t].status = "EXECUTING"
  BY FlightRows DEF LeasesHeld, Holds, InFlight, ExecutionLabels
<1>2. sched'[t].status = status /\ \A s \in Rows \ {t} : sched'[s] = sched[s]
  BY <1>1, FlightRows DEF FinishRow, RowType
<1> HIDE DEF t
<1> QED BY <1>1, <1>2 DEF Watching

\* A worker step by step: only PrepareReassessment closes an observation, and
\* it ends the wait.
LEMMA WorkerStepWatch ==
    ASSUME TypeOK, LeasesHeld, NEW w \in Workers, WorkerStep(w)
    PROVE  WatchEffect
<1> DEFINE t == job[w].row
<1>r. pc[w] \in ExecutionLabels \cup {"observing"} => t \in Rows
  BY FlightRows DEF InFlight
<1>t. sched \in [Rows -> RowType]
  BY DEF TypeOK, TableTypeOK
<1>1. CASE ReadContext(w) \/ MarkExecutingConflict(w)
  BY <1>1 DEF ReadContext, MarkExecutingConflict, tableVars, caseVars, WatchEffect, Watching
<1>2. CASE ClaimDue(w)
  <2>1. PICK s \in Rows :
          /\ Claimable(s)
          /\ sched' = [sched EXCEPT ![s].status = "CLAIMED", ![s].leased = TRUE, ![s].attempt = @ + 1]
    BY <1>2 DEF ClaimDue
  <2>2. ~Watching(s) /\ \A r \in Rows \ {s} : sched'[r] = sched[r]
    BY <2>1, <1>t DEF Claimable, Watching
  <2>3. UNCHANGED caseState
    BY <1>2 DEF ClaimDue, caseVars
  <2> QED BY <2>2, <2>3 DEF WatchEffect, Watching
<1>3. CASE MarkSuppressed(w)
  <2>1. t \in Rows
    BY <1>3, <1>r DEF MarkSuppressed, ExecutionLabels
  <2>2. \/ UNCHANGED sched
        \/ ~Watching(t) /\ \A r \in Rows \ {t} : sched'[r] = sched[r]
    BY <1>3, <1>t, <2>1 DEF MarkSuppressed, Watching
  <2>3. UNCHANGED caseState
    BY <1>3 DEF MarkSuppressed, caseVars
  <2> HIDE DEF t
  <2> QED BY <2>2, <2>3 DEF WatchEffect, Watching
<1>4. CASE MarkExecuting(w) \/ MarkReconciled(w)
  <2>1. t \in Rows /\ MarkRow(t)
    BY <1>4, <1>r DEF MarkExecuting, MarkReconciled, ExecutionLabels
  <2>2. ~Watching(t) /\ \A r \in Rows \ {t} : sched'[r] = sched[r]
    BY <2>1, MarkRowKeepsLease DEF Watching
  <2>3. caseState' = "EXECUTING" \/ UNCHANGED caseState
    BY <2>1 DEF MarkRow, MoveCase, KeepCase
  <2> HIDE DEF t
  <2> QED BY <2>2, <2>3 DEF WatchEffect, Watching
<1>5. CASE Execute(w)
  <2>1. t \in Rows /\ UNCHANGED caseState
    BY <1>5, <1>r DEF Execute, ExecutionLabels, caseVars
  <2>2. PICK b : sched' = [sched EXCEPT ![t].reference = b]
    BY <1>5 DEF Execute
  <2>3. \A s \in Rows : sched'[s].status = sched[s].status
    BY <2>1, <2>2, <1>t DEF RowType
  <2> QED BY <2>1, <2>3 DEF WatchEffect, Watching
<1>6. CASE CompleteWithRetry(w)
  <2>1. pc[w] = "executed" /\ FinishRow(t, "RETRY_PENDING") /\ UNCHANGED caseState
    BY <1>6 DEF CompleteWithRetry, caseVars
  <2> QED BY <2>1, CompleteWatch DEF WatchEffect
<1>7. CASE CompleteSucceeded(w)
  <2>1. pc[w] = "executed" /\ FinishRow(t, "OBSERVATION_PENDING")
    BY <1>7 DEF CompleteSucceeded
  <2> QED BY <2>1, CompleteWatch DEF WatchEffect
<1>8. CASE CompleteFailed(w)
  <2>1. pc[w] = "executed" /\ FinishRow(t, "FAILED")
    BY <1>8 DEF CompleteFailed
  <2>2. caseState' = "ACTION_PENDING" \/ UNCHANGED caseState
    BY <1>8 DEF CompleteFailed, MoveCase, KeepCase
  <2> QED BY <2>1, <2>2, CompleteWatch DEF WatchEffect
<1>9. CASE ClaimDueObservation(w)
  <2>1. PICK s \in Rows :
          sched' = [sched EXCEPT ![s].status = "OBSERVATION_CLAIMED", ![s].leased = TRUE]
    BY <1>9 DEF ClaimDueObservation
  <2>2. sched'[s].status = "OBSERVATION_CLAIMED"
    BY <2>1, <1>t DEF RowType
  <2> QED BY <2>2 DEF WatchEffect, Watching
<1>10. CASE PrepareReassessment(w)
  BY <1>10 DEF PrepareReassessment, WatchEffect, MoveCase, KeepCase, Watching
<1> QED BY <1>1, <1>2, <1>3, <1>4, <1>5, <1>6, <1>7, <1>8, <1>9, <1>10 DEF WorkerStep

\* No step but a completion begins a wait, and only the observation that ends
\* it is closed while it lasts.
LEMMA NextWatch ==
    ASSUME TypeOK, LeasesHeld, "WAITING_OUTCOME" \notin OperatorTargets, [Next]_vars
    PROVE  WatchEffect
<1>1. CASE \E p \in Workers \cup Deciders : DecideStep(p)
  <2>1. PICK p \in Workers \cup Deciders : DecideStep(p)
    BY <1>1
  <2>2. caseState' # "WAITING_OUTCOME" \/ UNCHANGED caseState
    BY <2>1 DEF DecideStep, PrepareForDecision, Evaluate, SaveDecisionAndSchedule, SaveDecisionConflict,
       SaveEscalated, SaveStopped, SaveOnly, SaveAndSchedule, MoveCase, KeepCase, caseVars
  <2>3. \/ UNCHANGED sched
        \/ \E s \in Rows :
              NextRow(s) /\ sched' = [sched EXCEPT ![s] = NewRow(snap[p].decision, version + 2, FALSE)]
    BY <2>1 DEF DecideStep, PrepareForDecision, Evaluate, SaveDecisionAndSchedule, SaveDecisionConflict,
       SaveEscalated, SaveStopped, SaveOnly, SaveAndSchedule, tableVars
  <2>4. \A s \in Rows : Watching(s) => Watching(s)'
    BY <2>3, NewRowWatch DEF Watching
  <2> QED BY <2>2, <2>4 DEF WatchEffect
<1>2. CASE \E w \in Workers : WorkerStep(w)
  BY <1>2, WorkerStepWatch
<1>3. CASE \E r \in Reviewers : ReviewStep(r)
  <2>1. PICK r \in Reviewers : ReviewStep(r)
    BY <1>3
  <2>2. CASE ApproveReview(r) \/ StopReview(r)
    BY <2>2 DEF ApproveReview, StopReview, MoveCase, WatchEffect
  <2>3. CASE ViewQueue(r) \/ LoadReviewItem(r) \/ ReviewEvaluate(r) \/ RecordReview(r)
    BY <2>3 DEF ViewQueue, LoadReviewItem, ReviewEvaluate, RecordReview, caseVars, tableVars,
       WatchEffect, Watching
  <2> QED BY <2>1, <2>2, <2>3 DEF ReviewStep
<1>4. CASE \E o \in Operators : TransitionStep(o)
  BY <1>4 DEF TransitionStep, ReadForTransition, ApplyTransition, RefuseTransition, MoveCase,
     caseVars, tableVars, WatchEffect, Watching
<1>5. CASE \E s \in Rows : LeaseExpires(s) \/ LeaseOverruns(s)
  <2>1. PICK s \in Rows : sched' = [sched EXCEPT ![s].leased = FALSE] /\ UNCHANGED caseState
    BY <1>5 DEF LeaseExpires, LeaseOverruns, caseVars
  <2>2. \A r \in Rows : sched'[r].status = sched[r].status
    BY <2>1, FlightRows DEF RowType
  <2> QED BY <2>1, <2>2 DEF WatchEffect, Watching
<1>6. CASE ObservePayment \/ CustomerResponse
  BY <1>6 DEF ObservePayment, CustomerResponse, MoveCase, WatchEffect
<1>7. CASE (\E p \in Procs : Abandon(p)) \/ DeadlinePasses \/ UNCHANGED vars
  BY <1>7 DEF Abandon, DeadlinePasses, vars, caseVars, tableVars, WatchEffect, Watching
<1> QED BY <1>1, <1>2, <1>3, <1>4, <1>5, <1>6, <1>7 DEF Next

\* Overruns are only ever counted up.
LEMMA OverrunsGrow ==
    ASSUME TypeOK, [Next]_vars, overruns' = 0
    PROVE  overruns = 0
<1>1. UNCHANGED overruns \/ \E s \in Rows : LeaseOverruns(s)
  BY DEF Next, DecideStep, WorkerStep, ReviewStep, TransitionStep, Abandon, LeaseExpires,
     PrepareForDecision, Evaluate, SaveDecisionAndSchedule, SaveDecisionConflict,
     ClaimDue, ReadContext, MarkSuppressed, MarkExecuting, MarkReconciled, MarkExecutingConflict,
     Execute, CompleteWithRetry, CompleteSucceeded, CompleteFailed, ClaimDueObservation,
     PrepareReassessment, ViewQueue, LoadReviewItem, ReviewEvaluate, ApproveReview, RecordReview,
     StopReview, ReadForTransition, ApplyTransition, RefuseTransition, ObservePayment,
     CustomerResponse, DeadlinePasses, vars, budgetVars
<1> QED BY <1>1 DEF LeaseOverruns, TypeOK, BudgetTypeOK

\* The invariant: until the first overrun, leases are held and waits observed.
WaitInv == overruns = 0 => LeasesHeld /\ WaitIsObserved

\* As long as no lease has lapsed under a worker that is still at work, and no
\* operator puts a case into the wait by hand, every wait for an outcome has an
\* observation that will end it, whatever crashes, pull-backs, late rows,
\* responses and payments occur.  The run latefailure shows that one overrun
\* suffices to lose it.
THEOREM WaitsAreObserved ==
    ASSUME "WAITING_OUTCOME" \notin OperatorTargets
    PROVE  Spec => [](overruns = 0 => WaitIsObserved)
<1>1. Init => WaitInv
  BY DEF Init, WaitInv, LeasesHeld, InFlight, ExecutionLabels, WaitIsObserved, Procs
<1>2. TypeOK /\ FencingInv /\ WaitInv /\ [Next]_vars => WaitInv'
  <2> SUFFICES ASSUME TypeOK, FencingInv, WaitInv, [Next]_vars, overruns' = 0
               PROVE  LeasesHeld' /\ WaitIsObserved'
    BY DEF WaitInv
  <2>1. LeasesHeld /\ WaitIsObserved
    BY OverrunsGrow DEF WaitInv
  <2>2. LeasesHeld'
    BY <2>1, NextHolds
  <2>3. WatchEffect
    BY <2>1, NextWatch
  <2> QED BY <2>1, <2>2, <2>3 DEF WatchEffect, WaitIsObserved
<1>3. WaitInv => (overruns = 0 => WaitIsObserved)
  BY DEF WaitInv
<1> QED BY <1>1, <1>2, <1>3, TypeCorrect, FencingHolds, PTL DEF Spec
-----------------------------------------------------------------------------
(* The way of a row.  No table of the code lists the statuses that a row of *)
(* scheduled_actions may take next, and its UPDATEs name the row by id;     *)
(* LeasesHeld makes a table of them, until the first overrun.               *)

RowMoves ==
    {<<"NONE", "PENDING">>, <<"PENDING", "CLAIMED">>, <<"RETRY_PENDING", "CLAIMED">>,
     <<"CLAIMED", "EXECUTING">>, <<"CLAIMED", "SUPERSEDED">>, <<"EXECUTING", "CLAIMED">>,
     <<"EXECUTING", "RETRY_PENDING">>, <<"EXECUTING", "OBSERVATION_PENDING">>, <<"EXECUTING", "FAILED">>,
     <<"OBSERVATION_PENDING", "OBSERVATION_CLAIMED">>, <<"OBSERVATION_CLAIMED", "OBSERVED">>}

\* A row is left alone, or is written in the hands of a worker, or moves on.
RowAdvances(s) ==
    \/ sched'[s] = sched[s]
    \/ sched'[s].status = sched[s].status /\ Leasable(s)
    \/ <<sched[s].status, sched'[s].status>> \in RowMoves

\* A step that writes one row.
LEMMA OneAdvances ==
    ASSUME NEW t, \A s \in Rows \ {t} : sched'[s] = sched[s], RowAdvances(t)
    PROVE  \A s \in Rows : RowAdvances(s)
BY DEF RowAdvances

\* A new row takes the place of none.
LEMMA NewRowAdvances ==
    ASSUME TypeOK, NEW d, NEW n, NEW h,
           \E s \in Rows : NextRow(s) /\ sched' = [sched EXCEPT ![s] = NewRow(d, n, h)]
    PROVE  \A s \in Rows : RowAdvances(s)
<1>1. PICK t \in Rows : NextRow(t) /\ sched' = [sched EXCEPT ![t] = NewRow(d, n, h)]
  OBVIOUS
<1>2. sched[t].status = "NONE" /\ \A s \in Rows \ {t} : sched'[s] = sched[s]
  BY <1>1, FlightRows DEF NextRow, FreeRows
<1>3. sched'[t].status = "PENDING"
  BY <1>1, FlightRows DEF NewRow, NoRow
<1>4. RowAdvances(t)
  BY <1>2, <1>3 DEF RowAdvances, RowMoves
<1> QED BY <1>2, <1>4, OneAdvances

\* A completion finds its row EXECUTING.
LEMMA CompleteAdvances ==
    ASSUME TypeOK, LeasesHeld, NEW w \in Workers, pc[w] = "executed",
           NEW status \in {"RETRY_PENDING", "OBSERVATION_PENDING", "FAILED"}, FinishRow(job[w].row, status)
    PROVE  \A s \in Rows : RowAdvances(s)
<1> DEFINE t == job[w].row
<1>1. t \in Rows /\ sched[t].status = "EXECUTING"
  BY FlightRows DEF LeasesHeld, Holds, InFlight, ExecutionLabels
<1>2. sched'[t].status = status /\ \A s \in Rows \ {t} : sched'[s] = sched[s]
  BY <1>1, FlightRows DEF FinishRow, RowType
<1> HIDE DEF t
<1>3. RowAdvances(t)
  BY <1>1, <1>2 DEF RowAdvances, RowMoves
<1> QED BY <1>2, <1>3, OneAdvances

\* A worker step by step.
LEMMA WorkerStepAdvances ==
    ASSUME TypeOK, LeasesHeld, NEW w \in Workers, WorkerStep(w)
    PROVE  \A s \in Rows : RowAdvances(s)
<1> DEFINE t == job[w].row
<1>r. pc[w] \in ExecutionLabels \cup {"observing"} => t \in Rows
  BY FlightRows DEF InFlight
<1>t. sched \in [Rows -> RowType]
  BY DEF TypeOK, TableTypeOK
<1>1. CASE ReadContext(w) \/ MarkExecutingConflict(w)
  BY <1>1 DEF ReadContext, MarkExecutingConflict, tableVars, RowAdvances
<1>2. CASE ClaimDue(w)
  <2>1. PICK s \in Rows :
          /\ Claimable(s)
          /\ sched' = [sched EXCEPT ![s].status = "CLAIMED", ![s].leased = TRUE, ![s].attempt = @ + 1]
    BY <1>2 DEF ClaimDue
  <2>2. sched[s].status \in {"PENDING", "RETRY_PENDING", "CLAIMED", "EXECUTING"}
    BY <2>1 DEF Claimable
  <2>3. sched'[s].status = "CLAIMED" /\ \A r \in Rows \ {s} : sched'[r] = sched[r]
    BY <2>1, <1>t DEF RowType
  <2>4. RowAdvances(s)
    BY <2>2, <2>3 DEF RowAdvances, RowMoves, Leasable
  <2> QED BY <2>3, <2>4, OneAdvances
<1>3. CASE MarkSuppressed(w)
  <2>1. t \in Rows /\ sched[t].status = "CLAIMED"
    BY <1>3, <1>r DEF MarkSuppressed, LeasesHeld, Holds, InFlight, ExecutionLabels
  <2>2. sched'[t].status = "SUPERSEDED" /\ \A r \in Rows \ {t} : sched'[r] = sched[r]
    BY <1>3, <1>t, <2>1 DEF MarkSuppressed, RowType
  <2> HIDE DEF t
  <2>3. RowAdvances(t)
    BY <2>1, <2>2 DEF RowAdvances, RowMoves
  <2> QED BY <2>2, <2>3, OneAdvances
<1>4. CASE MarkExecuting(w) \/ MarkReconciled(w)
  <2>1. t \in Rows /\ MarkRow(t)
    BY <1>4, <1>r DEF MarkExecuting, MarkReconciled, ExecutionLabels
  <2> HIDE DEF t
  <2>2. RowAdvances(t)
    BY <2>1, MarkRowKeepsLease DEF RowAdvances, RowMoves
  <2> QED BY <2>1, <2>2, MarkRowKeepsLease, OneAdvances
<1>5. CASE Execute(w)
  <2>1. t \in Rows /\ sched[t].status = "EXECUTING"
    BY <1>5, <1>r DEF Execute, LeasesHeld, Holds, InFlight, ExecutionLabels
  <2>2. PICK b : sched' = [sched EXCEPT ![t].reference = b]
    BY <1>5 DEF Execute
  <2>3. sched'[t].status = "EXECUTING" /\ \A r \in Rows \ {t} : sched'[r] = sched[r]
    BY <2>1, <2>2, <1>t DEF RowType
  <2> HIDE DEF t
  <2>4. RowAdvances(t)
    BY <2>1, <2>3 DEF RowAdvances, Leasable
  <2> QED BY <2>3, <2>4, OneAdvances
<1>6. CASE CompleteWithRetry(w) \/ CompleteSucceeded(w) \/ CompleteFailed(w)
  BY <1>6, CompleteAdvances DEF CompleteWithRetry, CompleteSucceeded, CompleteFailed
<1>7. CASE ClaimDueObservation(w)
  <2>1. PICK s \in Rows :
          /\ DueObservation(s)
          /\ sched' = [sched EXCEPT ![s].status = "OBSERVATION_CLAIMED", ![s].leased = TRUE]
    BY <1>7 DEF ClaimDueObservation
  <2>2. sched[s].status \in {"OBSERVATION_PENDING", "OBSERVATION_CLAIMED"}
    BY <2>1 DEF DueObservation
  <2>3. sched'[s].status = "OBSERVATION_CLAIMED" /\ \A r \in Rows \ {s} : sched'[r] = sched[r]
    BY <2>1, <1>t DEF RowType
  <2>4. RowAdvances(s)
    BY <2>2, <2>3 DEF RowAdvances, RowMoves, Leasable
  <2> QED BY <2>3, <2>4, OneAdvances
<1>8. CASE PrepareReassessment(w)
  <2>1. t \in Rows
    BY <1>8, <1>r DEF PrepareReassessment
  <2>2. CASE sched[t].status = "OBSERVATION_CLAIMED"
    <3>1. sched'[t].status = "OBSERVED" /\ \A r \in Rows \ {t} : sched'[r] = sched[r]
      BY <1>8, <1>t, <2>1, <2>2 DEF PrepareReassessment, RowType
    <3> HIDE DEF t
    <3>2. RowAdvances(t)
      BY <2>2, <3>1 DEF RowAdvances, RowMoves
    <3> QED BY <3>1, <3>2, OneAdvances
  <2>3. CASE sched[t].status # "OBSERVATION_CLAIMED"
    BY <1>8, <2>3 DEF PrepareReassessment, RowAdvances
  <2> QED BY <2>2, <2>3
<1> QED BY <1>1, <1>2, <1>3, <1>4, <1>5, <1>6, <1>7, <1>8 DEF WorkerStep

\* Every step, while leases are held.
LEMMA NextAdvances ==
    ASSUME TypeOK, LeasesHeld, [Next]_vars
    PROVE  \A s \in Rows : RowAdvances(s)
<1>1. CASE \E p \in Workers \cup Deciders : DecideStep(p)
  <2>1. PICK p \in Workers \cup Deciders : DecideStep(p)
    BY <1>1
  <2> DEFINE d == snap[p].decision
             n == version + 2
  <2>2. \/ UNCHANGED sched
        \/ \E s \in Rows : NextRow(s) /\ sched' = [sched EXCEPT ![s] = NewRow(d, n, FALSE)]
    BY <2>1 DEF DecideStep, PrepareForDecision, Evaluate, SaveDecisionAndSchedule, SaveDecisionConflict,
       SaveEscalated, SaveStopped, SaveOnly, SaveAndSchedule, tableVars
  <2> HIDE DEF d, n
  <2>3. CASE UNCHANGED sched
    BY <2>3 DEF RowAdvances
  <2>4. CASE \E s \in Rows : NextRow(s) /\ sched' = [sched EXCEPT ![s] = NewRow(d, n, FALSE)]
    BY <2>4, NewRowAdvances
  <2> QED BY <2>2, <2>3, <2>4
<1>2. CASE \E w \in Workers : WorkerStep(w)
  BY <1>2, WorkerStepAdvances
<1>3. CASE \E r \in Reviewers : ReviewStep(r)
  <2>1. PICK r \in Reviewers : ReviewStep(r)
    BY <1>3
  <2>2. CASE ApproveReview(r)
    <3> DEFINE d == snap[r].decision
               n == version + 3
    <3>1. \E s \in Rows : NextRow(s) /\ sched' = [sched EXCEPT ![s] = NewRow(d, n, TRUE)]
      BY <2>2 DEF ApproveReview
    <3> HIDE DEF d, n
    <3> QED BY <3>1, NewRowAdvances
  <2>3. CASE ViewQueue(r) \/ LoadReviewItem(r) \/ ReviewEvaluate(r) \/ RecordReview(r) \/ StopReview(r)
    BY <2>3 DEF ViewQueue, LoadReviewItem, ReviewEvaluate, RecordReview, StopReview, tableVars, RowAdvances
  <2> QED BY <2>1, <2>2, <2>3 DEF ReviewStep
<1>4. CASE \E s \in Rows : LeaseExpires(s) \/ LeaseOverruns(s)
  <2>1. PICK s \in Rows : Leasable(s) /\ sched' = [sched EXCEPT ![s].leased = FALSE]
    BY <1>4 DEF LeaseExpires, LeaseOverruns
  <2>2. sched'[s].status = sched[s].status /\ \A r \in Rows \ {s} : sched'[r] = sched[r]
    BY <2>1, FlightRows DEF RowType
  <2>3. RowAdvances(s)
    BY <2>1, <2>2 DEF RowAdvances
  <2> QED BY <2>2, <2>3, OneAdvances
<1>5. CASE \/ \E o \in Operators : TransitionStep(o)
           \/ \E p \in Procs : Abandon(p)
           \/ ObservePayment \/ CustomerResponse \/ DeadlinePasses \/ UNCHANGED vars
  <2>1. UNCHANGED sched
    BY <1>5 DEF TransitionStep, ReadForTransition, ApplyTransition, RefuseTransition, Abandon,
       ObservePayment, CustomerResponse, DeadlinePasses, vars, tableVars
  <2> QED BY <2>1 DEF RowAdvances
<1> QED BY <1>1, <1>2, <1>3, <1>4, <1>5 DEF Next

\* Leases are held until the first overrun, whoever operates on the case.
LEMMA LeasesStayHeld == Spec => [](overruns = 0 => LeasesHeld)
<1> DEFINE Inv == overruns = 0 => LeasesHeld
<1>1. Init => Inv
  BY DEF Init, LeasesHeld, InFlight, ExecutionLabels, Procs
<1>2. TypeOK /\ FencingInv /\ Inv /\ [Next]_vars => Inv'
  BY NextHolds, OverrunsGrow
<1> QED BY <1>1, <1>2, TypeCorrect, FencingHolds, PTL DEF Spec

\* Until the first overrun a row moves along RowMoves and what is settled,
\* a success that was observed, a failure or a superseded schedule, is never
\* written again.  After an overrun it may be: CompleteExecution names its row
\* by id alone (run latefailure).
RowsAdvance == [][overruns = 0 => \A s \in Rows : RowAdvances(s)]_vars

THEOREM RowsAreNotRevived == Spec => RowsAdvance
<1>1. TypeOK /\ (overruns = 0 => LeasesHeld) /\ [Next]_vars
      => [overruns = 0 => \A s \in Rows : RowAdvances(s)]_vars
  BY NextAdvances
<1> QED BY <1>1, TypeCorrect, LeasesStayHeld, PTL DEF Spec, RowsAdvance
============================================================================
