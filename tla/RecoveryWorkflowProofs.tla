---------------------- MODULE RecoveryWorkflowProofs ----------------------
(***************************************************************************)
(* Type correctness of RecoveryWorkflow, for any number of processes, rows *)
(* and payments: TypeOK is inductive.  One lemma per kind of process, one  *)
(* step per action, under it one step per part of TypeOK that the action   *)
(* touches.                                                                *)
(***************************************************************************)
EXTENDS RecoveryProperties, TLAPS

\* A move of the case keeps its columns typed.
LEMMA MoveCaseType ==
    ASSUME CaseTypeOK, NEW to \in CaseStates, NEW n \in Nat, MoveCase(to, n),
           UNCHANGED <<deadlinePassed, attributed>>
    PROVE  CaseTypeOK'
BY DEF CaseTypeOK, MoveCase

\* A handler that returns leaves typed local copies behind.
LEMMA ReleaseType ==
    ASSUME LocalTypeOK, HandlersOK, NEW p \in Procs, Release(p)
    PROVE  LocalTypeOK' /\ HandlersOK'
<1>1. NoJob \in JobType
  BY DEF NoJob, JobType
<1>2. NoSnap \in SnapType
  BY DEF NoSnap, SnapType, CaseStates
<1>3. LocalTypeOK'
  BY <1>1, <1>2 DEF LocalTypeOK, Release, Labels, Results
<1>4. HandlersOK'
  BY DEF HandlersOK, LocalTypeOK, Release, ExecutionLabels
<1> QED BY <1>3, <1>4

\* So does one that moves on and changes no copy.
LEMMA GotoType ==
    ASSUME LocalTypeOK, HandlersOK, NEW p \in Procs, NEW label \in Labels, Goto(p, label),
           label \notin {"evaluated", "executed"},
           label \in ExecutionLabels \cup {"observing"} => job[p].row \in Rows,
           UNCHANGED <<job, snap, result>>
    PROVE  LocalTypeOK' /\ HandlersOK'
BY DEF HandlersOK, LocalTypeOK, Goto

\* NewRow builds a row of scheduled_actions from a decision.
LEMMA NewRowType ==
    ASSUME NEW d \in Decisions \cup {NoDecision}, NEW n \in Nat, NEW h \in BOOLEAN
    PROVE  NewRow(d, n, h) \in RowType
BY DEF NewRow, NoRow, RowType, RowStatuses

\* A handler that looks at the case notes its state and its version.
LEMMA SnapStateType ==
    ASSUME NEW q \in SnapType, NEW state \in CaseStates, NEW n \in Nat
    PROVE  [q EXCEPT !.state = state, !.version = n] \in SnapType
BY DEF SnapType

\* The steps of a decision.
LEMMA DecideStepType ==
    ASSUME TypeOK, NEW p \in Workers \cup Deciders, DecideStep(p)
    PROVE  TypeOK'
<1> USE DEF TypeOK
<1>p. p \in Procs
  BY DEF Procs
<1>1. CASE PrepareForDecision(p)
  <2>1. CaseTypeOK'
    BY <1>1 DEF PrepareForDecision, CaseTypeOK, MoveCase, KeepCase, CaseStates
  <2>2. LocalTypeOK' /\ HandlersOK'
    BY <1>1, <1>p, GotoType, ReleaseType DEF PrepareForDecision, Labels, ClientLabels, ExecutionLabels
  <2>3. TableTypeOK' /\ BudgetTypeOK'
    BY <1>1 DEF PrepareForDecision, TableTypeOK, BudgetTypeOK, tableVars, budgetVars
  <2> QED BY <2>1, <2>2, <2>3
<1>2. CASE Evaluate(p)
  <2>0. PICK c \in Candidates : \E policy \in PolicyOutcomes(c.gate) :
          snap' = [snap EXCEPT ![p].decision =
                [policy |-> policy, gate |-> c.gate, action |-> c.action, version |-> version]]
    BY <1>2 DEF Evaluate
  <2>1. PICK policy \in PolicyOutcomes(c.gate) :
          snap' = [snap EXCEPT ![p].decision =
                [policy |-> policy, gate |-> c.gate, action |-> c.action, version |-> version]]
    BY <2>0
  <2> DEFINE d == [policy |-> policy, gate |-> c.gate, action |-> c.action, version |-> version]
  <2>2. d \in Decisions
    BY InputsAssumption DEF Decisions, PolicyOutcomes, PolicyResults, CaseTypeOK
  <2>3. LocalTypeOK'
    BY <1>2, <1>p, <2>1, <2>2 DEF Evaluate, LocalTypeOK, SnapType, Goto, Labels, ClientLabels
  <2>4. HandlersOK'
    BY <1>2, <1>p, <2>1, <2>2 DEF Evaluate, LocalTypeOK, HandlersOK, SnapType, Goto, ExecutionLabels
  <2>5. CaseTypeOK' /\ TableTypeOK' /\ BudgetTypeOK'
    BY <1>2 DEF Evaluate, CaseTypeOK, TableTypeOK, BudgetTypeOK, caseVars, tableVars, budgetVars
  <2> QED BY <2>3, <2>4, <2>5
<1>3. CASE SaveDecisionAndSchedule(p)
  <2> DEFINE d == snap[p].decision
  <2>1. d \in Decisions
    BY <1>3, <1>p DEF SaveDecisionAndSchedule, HandlersOK
  <2>2. CaseTypeOK'
    <3>1. KeepCase \/ MoveCase("ESCALATED", 1) \/ MoveCase("STOPPED", 1) \/ MoveCase("SCHEDULED", 2)
      BY <1>3 DEF SaveDecisionAndSchedule, SaveEscalated, SaveStopped, SaveOnly, SaveAndSchedule
    <3>2. UNCHANGED <<deadlinePassed, attributed>>
      BY <1>3 DEF SaveDecisionAndSchedule
    <3> QED BY <3>1, <3>2 DEF CaseTypeOK, MoveCase, KeepCase, CaseStates
  <2>3. sched' \in [Rows -> RowType]
    <3>1. CASE UNCHANGED sched
      BY <3>1 DEF TableTypeOK
    <3>2. CASE SaveAndSchedule(d)
      <4> HIDE DEF d
      <4>0. version + 2 \in Nat
        BY DEF CaseTypeOK
      <4>1. NewRow(d, version + 2, FALSE) \in RowType
        BY <2>1, <4>0, NewRowType
      <4> QED BY <3>2, <4>1 DEF SaveAndSchedule, TableTypeOK
    <3> QED BY <1>3, <3>1, <3>2 DEF SaveDecisionAndSchedule, SaveEscalated, SaveStopped, SaveOnly
  <2>4. TableTypeOK'
    BY <1>3, <2>1, <2>3 DEF SaveDecisionAndSchedule, TableTypeOK
  <2>5. NoSnap \in SnapType
    BY DEF NoSnap, SnapType, CaseStates
  <2>6. LocalTypeOK'
    BY <1>3, <1>p, <2>5 DEF SaveDecisionAndSchedule, LocalTypeOK, SnapType, Goto, Labels
  <2>7. HandlersOK'
    BY <1>3, <1>p DEF SaveDecisionAndSchedule, LocalTypeOK, HandlersOK, SnapType, Goto, ExecutionLabels
  <2>8. BudgetTypeOK'
    BY <1>3 DEF SaveDecisionAndSchedule, BudgetTypeOK, budgetVars
  <2> QED BY <2>2, <2>4, <2>6, <2>7, <2>8
<1>4. CASE SaveDecisionConflict(p)
  <2>1. LocalTypeOK' /\ HandlersOK'
    BY <1>4, <1>p, ReleaseType DEF SaveDecisionConflict
  <2>2. CaseTypeOK' /\ TableTypeOK' /\ BudgetTypeOK'
    BY <1>4 DEF SaveDecisionConflict, CaseTypeOK, TableTypeOK, BudgetTypeOK, caseVars, tableVars, budgetVars
  <2> QED BY <2>1, <2>2
<1> QED BY <1>1, <1>2, <1>3, <1>4 DEF DecideStep

\* The transaction of MarkExecuting.
LEMMA MarkRowType ==
    ASSUME CaseTypeOK, TableTypeOK, NEW s \in Rows, MarkRow(s),
           UNCHANGED <<deadlinePassed, attributed, executions, lastDecision>>
    PROVE  CaseTypeOK' /\ TableTypeOK'
<1>1. CaseTypeOK'
  BY DEF MarkRow, CaseTypeOK, MoveCase, KeepCase, CaseStates
<1>2. TableTypeOK'
  BY DEF MarkRow, CaseTypeOK, TableTypeOK, RowType, RowStatuses
<1> QED BY <1>1, <1>2

\* The insert into executions.
LEMMA RecordExecutionType ==
    ASSUME TableTypeOK, LocalTypeOK, NEW w \in Procs, job[w].row \in Rows, RecordExecution(w)
    PROVE  executions' \subseteq ExecutionType
BY DEF TableTypeOK, LocalTypeOK, RecordExecution, JobType, ExecutionType

\* The update of scheduled_actions in CompleteExecution.
LEMMA FinishRowType ==
    ASSUME TableTypeOK, NEW s \in Rows, NEW status \in RowStatuses, FinishRow(s, status)
    PROVE  sched' \in [Rows -> RowType]
BY DEF TableTypeOK, FinishRow, RowType

\* The steps of a worker.
LEMMA WorkerStepType ==
    ASSUME TypeOK, NEW w \in Workers, WorkerStep(w)
    PROVE  TypeOK'
<1> USE DEF TypeOK
<1>p. w \in Procs
  BY DEF Procs
<1> DEFINE s == job[w].row
<1>r. pc[w] \in ExecutionLabels \cup {"observing"} => s \in Rows
  BY <1>p DEF HandlersOK
<1>1. CASE ClaimDue(w)
  <2>1. PICK t \in Rows :
          /\ sched' = [sched EXCEPT ![t].status = "CLAIMED", ![t].leased = TRUE, ![t].attempt = @ + 1]
          /\ job' = [job EXCEPT ![w] = [row |-> t, attempt |-> sched[t].attempt + 1,
                                        version |-> sched[t].version]]
    BY <1>1 DEF ClaimDue
  <2>2. CaseTypeOK' /\ BudgetTypeOK'
    BY <1>1 DEF CaseTypeOK, BudgetTypeOK, ClaimDue, caseVars, budgetVars
  <2>3. TableTypeOK'
    BY <1>1, <2>1 DEF TableTypeOK, ClaimDue, RowType, RowStatuses
  <2>4. LocalTypeOK'
    BY <1>1, <1>p, <2>1 DEF TableTypeOK, LocalTypeOK, ClaimDue, JobType, RowType, Goto, Labels, ExecutionLabels
  <2>5. HandlersOK'
    BY <1>1, <1>p, <2>1 DEF LocalTypeOK, HandlersOK, ClaimDue, Goto, JobType, ExecutionLabels
  <2> QED BY <2>2, <2>3, <2>4, <2>5
<1>2. CASE ReadContext(w)
  <2>1. Goto(w, "authorized") \/ Goto(w, "suppress")
    BY <1>2 DEF ReadContext
  <2>2. LocalTypeOK' /\ HandlersOK'
    BY <1>2, <1>p, <1>r, <2>1, GotoType DEF ReadContext, Labels, ExecutionLabels
  <2>3. CaseTypeOK' /\ TableTypeOK' /\ BudgetTypeOK'
    BY <1>2 DEF ReadContext, CaseTypeOK, TableTypeOK, BudgetTypeOK, caseVars, tableVars, budgetVars
  <2> QED BY <2>2, <2>3
<1>3. CASE MarkSuppressed(w)
  <2>1. TableTypeOK'
    BY <1>3, <1>r DEF MarkSuppressed, TableTypeOK, RowType, RowStatuses, ExecutionLabels
  <2>2. LocalTypeOK' /\ HandlersOK'
    BY <1>3, <1>p, ReleaseType DEF MarkSuppressed
  <2>3. CaseTypeOK' /\ BudgetTypeOK'
    BY <1>3 DEF MarkSuppressed, CaseTypeOK, BudgetTypeOK, caseVars, budgetVars
  <2> QED BY <2>1, <2>2, <2>3
<1>4. CASE MarkExecuting(w)
  <2>1. s \in Rows
    BY <1>4, <1>r DEF MarkExecuting, ExecutionLabels
  <2>2. CaseTypeOK' /\ TableTypeOK'
    BY <1>4, <2>1, MarkRowType DEF MarkExecuting
  <2>3. LocalTypeOK' /\ HandlersOK'
    BY <1>4, <1>p, <2>1, GotoType DEF MarkExecuting, Labels, ExecutionLabels
  <2>4. BudgetTypeOK'
    BY <1>4 DEF MarkExecuting, BudgetTypeOK, budgetVars
  <2> QED BY <2>2, <2>3, <2>4
<1>5. CASE MarkReconciled(w)
  <2>1. s \in Rows
    BY <1>5, <1>r DEF MarkReconciled, ExecutionLabels
  <2>2. CaseTypeOK' /\ TableTypeOK'
    BY <1>5, <2>1, MarkRowType DEF MarkReconciled
  <2>3. LocalTypeOK'
    BY <1>5, <1>p DEF MarkReconciled, LocalTypeOK, Goto, Labels, ExecutionLabels, Results
  <2>4. HandlersOK'
    BY <1>5, <1>p, <2>1 DEF MarkReconciled, LocalTypeOK, HandlersOK, Goto
  <2>5. BudgetTypeOK'
    BY <1>5 DEF MarkReconciled, BudgetTypeOK, budgetVars
  <2> QED BY <2>2, <2>3, <2>4, <2>5
<1>6. CASE MarkExecutingConflict(w)
  <2>1. LocalTypeOK' /\ HandlersOK'
    BY <1>6, <1>p, ReleaseType DEF MarkExecutingConflict
  <2>2. CaseTypeOK' /\ TableTypeOK' /\ BudgetTypeOK'
    BY <1>6 DEF MarkExecutingConflict, CaseTypeOK, TableTypeOK, BudgetTypeOK, caseVars, tableVars, budgetVars
  <2> QED BY <2>1, <2>2
<1>7. CASE Execute(w)
  <2>1. PICK r \in {"SUCCEEDED", "RETRYABLE", "PERMANENT"} :
          /\ result' = [result EXCEPT ![w] = r]
          /\ sched' = [sched EXCEPT ![s].reference = @ \/ r = "SUCCEEDED"]
    BY <1>7 DEF Execute
  <2>2. s \in Rows
    BY <1>7, <1>r DEF Execute, ExecutionLabels
  <2>3. TableTypeOK'
    <3>1. CASE r = "SUCCEEDED"
      <4>1. sched' = [sched EXCEPT ![s].reference = TRUE]
        BY <2>1, <3>1
      <4>2. sched \in [Rows -> RowType] /\ sched' = [sched EXCEPT ![s] = [sched[s] EXCEPT !.reference = TRUE]]
        BY <2>2, <4>1 DEF TableTypeOK
      <4>3. sched' \in [Rows -> RowType]
        <5>1. [sched[s] EXCEPT !.reference = TRUE] \in RowType
          BY <2>2, <4>2 DEF RowType
        <5> QED BY <4>2, <5>1
      <4> QED BY <1>7, <4>3 DEF Execute, TableTypeOK
    <3>2. CASE r # "SUCCEEDED"
      <4>1. sched' = sched
        BY <2>1, <2>2, <3>2 DEF TableTypeOK, RowType
      <4> QED BY <1>7, <4>1 DEF Execute, TableTypeOK
    <3> QED BY <3>1, <3>2
  <2>4. LocalTypeOK'
    BY <1>7, <1>p, <2>1 DEF Execute, LocalTypeOK, Goto, Labels, ExecutionLabels, Results
  <2>5. HandlersOK'
    BY <1>7, <1>p, <2>1, <2>2 DEF Execute, LocalTypeOK, HandlersOK, Goto
  <2>6. CaseTypeOK' /\ BudgetTypeOK'
    BY <1>7 DEF Execute, CaseTypeOK, BudgetTypeOK, caseVars, budgetVars
  <2> QED BY <2>3, <2>4, <2>5, <2>6
<1>8. CASE CompleteWithRetry(w)
  <2>1. s \in Rows
    BY <1>8, <1>r DEF CompleteWithRetry, ExecutionLabels
  <2>2. executions' \subseteq ExecutionType
    BY <1>8, <1>p, <2>1, RecordExecutionType DEF CompleteWithRetry
  <2>3. sched' \in [Rows -> RowType]
    BY <1>8, <2>1, FinishRowType DEF CompleteWithRetry, RowStatuses
  <2>4. TableTypeOK'
    BY <1>8, <2>2, <2>3 DEF CompleteWithRetry, TableTypeOK
  <2>5. LocalTypeOK' /\ HandlersOK'
    BY <1>8, <1>p, ReleaseType DEF CompleteWithRetry
  <2>6. CaseTypeOK' /\ BudgetTypeOK'
    BY <1>8 DEF CompleteWithRetry, CaseTypeOK, BudgetTypeOK, caseVars, budgetVars
  <2> QED BY <2>4, <2>5, <2>6
<1>9. CASE CompleteSucceeded(w)
  <2>1. s \in Rows
    BY <1>9, <1>r DEF CompleteSucceeded, ExecutionLabels
  <2>2. executions' \subseteq ExecutionType
    BY <1>9, <1>p, <2>1, RecordExecutionType DEF CompleteSucceeded
  <2>3. sched' \in [Rows -> RowType]
    BY <1>9, <2>1, FinishRowType DEF CompleteSucceeded, RowStatuses
  <2>4. TableTypeOK'
    BY <1>9, <2>2, <2>3 DEF CompleteSucceeded, TableTypeOK
  <2>5. LocalTypeOK' /\ HandlersOK'
    BY <1>9, <1>p, ReleaseType DEF CompleteSucceeded
  <2>6. CaseTypeOK'
    BY <1>9 DEF CompleteSucceeded, CaseTypeOK, MoveCase, KeepCase, CaseStates
  <2>7. BudgetTypeOK'
    BY <1>9 DEF CompleteSucceeded, BudgetTypeOK, budgetVars
  <2> QED BY <2>4, <2>5, <2>6, <2>7
<1>10. CASE CompleteFailed(w)
  <2>1. s \in Rows
    BY <1>10, <1>r DEF CompleteFailed, ExecutionLabels
  <2>2. executions' \subseteq ExecutionType
    BY <1>10, <1>p, <2>1, RecordExecutionType DEF CompleteFailed
  <2>3. sched' \in [Rows -> RowType]
    BY <1>10, <2>1, FinishRowType DEF CompleteFailed, RowStatuses
  <2>4. TableTypeOK'
    BY <1>10, <2>2, <2>3 DEF CompleteFailed, TableTypeOK
  <2>5. LocalTypeOK'
    BY <1>10, <1>p DEF CompleteFailed, LocalTypeOK, Goto, Labels, JobType, NoJob, Results
  <2>6. HandlersOK'
    BY <1>10, <1>p DEF CompleteFailed, LocalTypeOK, HandlersOK, Goto, ExecutionLabels
  <2>7. CaseTypeOK'
    BY <1>10 DEF CompleteFailed, CaseTypeOK, MoveCase, KeepCase, CaseStates
  <2>8. BudgetTypeOK'
    BY <1>10 DEF CompleteFailed, BudgetTypeOK, budgetVars
  <2> QED BY <2>4, <2>5, <2>6, <2>7, <2>8
<1>11. CASE ClaimDueObservation(w)
  <2>1. PICK t \in Rows :
          /\ sched' = [sched EXCEPT ![t].status = "OBSERVATION_CLAIMED", ![t].leased = TRUE]
          /\ job' = [job EXCEPT ![w] = [row |-> t, attempt |-> sched[t].attempt,
                                        version |-> sched[t].version]]
    BY <1>11 DEF ClaimDueObservation
  <2>2. CaseTypeOK' /\ BudgetTypeOK'
    BY <1>11 DEF CaseTypeOK, BudgetTypeOK, ClaimDueObservation, caseVars, budgetVars
  <2>3. TableTypeOK'
    <3>1. sched' \in [Rows -> RowType]
      <4>1. sched \in [Rows -> RowType]
            /\ sched' = [sched EXCEPT ![t] = [sched[t] EXCEPT !.status = "OBSERVATION_CLAIMED", !.leased = TRUE]]
        BY <2>1 DEF TableTypeOK
      <4>2. "OBSERVATION_CLAIMED" \in RowStatuses
        BY DEF RowStatuses
      <4>3. [sched[t] EXCEPT !.status = "OBSERVATION_CLAIMED", !.leased = TRUE] \in RowType
        BY <4>1, <4>2 DEF RowType
      <4> QED BY <4>1, <4>3
    <3>2. UNCHANGED <<executions, lastDecision>>
      BY <1>11 DEF ClaimDueObservation
    <3> QED BY <3>1, <3>2 DEF TableTypeOK
  <2>4. LocalTypeOK'
    BY <1>11, <1>p, <2>1 DEF TableTypeOK, LocalTypeOK, ClaimDueObservation, JobType, RowType, Goto, Labels
  <2>5. HandlersOK'
    BY <1>11, <1>p, <2>1 DEF LocalTypeOK, HandlersOK, ClaimDueObservation, Goto, JobType, ExecutionLabels
  <2> QED BY <2>2, <2>3, <2>4, <2>5
<1>12. CASE PrepareReassessment(w)
  <2>1. s \in Rows
    BY <1>12, <1>r DEF PrepareReassessment
  <2>2. CaseTypeOK'
    BY <1>12 DEF PrepareReassessment, CaseTypeOK, MoveCase, KeepCase, CaseStates
  <2>3. TableTypeOK'
    <3>1. \/ sched' = sched
          \/ sched' = [sched EXCEPT ![s].status = "OBSERVED", ![s].leased = FALSE]
      BY <1>12 DEF PrepareReassessment
    <3> HIDE DEF s
    <3>2. sched' \in [Rows -> RowType]
      BY <2>1, <3>1 DEF TableTypeOK, RowType, RowStatuses
    <3>3. UNCHANGED <<executions, lastDecision>>
      BY <1>12 DEF PrepareReassessment
    <3> QED BY <3>2, <3>3 DEF TableTypeOK
  <2>4. LocalTypeOK'
    BY <1>12, <1>p DEF PrepareReassessment, LocalTypeOK, Goto, Labels, JobType, NoJob
  <2>5. HandlersOK'
    BY <1>12, <1>p DEF PrepareReassessment, LocalTypeOK, HandlersOK, Goto, ExecutionLabels
  <2>6. BudgetTypeOK'
    BY <1>12 DEF PrepareReassessment, BudgetTypeOK, budgetVars
  <2> QED BY <2>2, <2>3, <2>4, <2>5, <2>6
<1> QED BY <1>1, <1>2, <1>3, <1>4, <1>5, <1>6, <1>7, <1>8, <1>9, <1>10, <1>11, <1>12 DEF WorkerStep

\* The steps of a review.
LEMMA ReviewStepType ==
    ASSUME TypeOK, NEW r \in Reviewers, ReviewStep(r)
    PROVE  TypeOK'
<1> USE DEF TypeOK
<1>p. r \in Procs
  BY DEF Procs
<1>1. CASE ViewQueue(r)
  <2>1. LocalTypeOK'
    <3>1. snap' = [snap EXCEPT ![r] = [snap[r] EXCEPT !.state = caseState, !.version = version]]
      BY <1>1 DEF ViewQueue
    <3>2. snap' \in [Procs -> SnapType]
      BY <1>p, <3>1, SnapStateType DEF LocalTypeOK, CaseTypeOK
    <3>3. pc' \in [Procs -> Labels]
      BY <1>1, <1>p DEF ViewQueue, LocalTypeOK, Goto, Labels, ClientLabels
    <3> QED BY <1>1, <3>2, <3>3 DEF ViewQueue, LocalTypeOK
  <2>2. HandlersOK'
    BY <1>1, <1>p DEF ViewQueue, LocalTypeOK, HandlersOK, SnapType, Goto, ExecutionLabels
  <2>3. CaseTypeOK' /\ TableTypeOK' /\ BudgetTypeOK'
    BY <1>1 DEF ViewQueue, CaseTypeOK, TableTypeOK, BudgetTypeOK, caseVars, tableVars, budgetVars
  <2> QED BY <2>1, <2>2, <2>3
<1>2. CASE LoadReviewItem(r)
  <2>1. LocalTypeOK'
    BY <1>2, <1>p DEF LoadReviewItem, TableTypeOK, LocalTypeOK, SnapType, Goto, Labels, ClientLabels
  <2>2. HandlersOK'
    BY <1>2, <1>p DEF LoadReviewItem, LocalTypeOK, HandlersOK, SnapType, Goto, ExecutionLabels
  <2>3. CaseTypeOK' /\ TableTypeOK' /\ BudgetTypeOK'
    BY <1>2 DEF LoadReviewItem, CaseTypeOK, TableTypeOK, BudgetTypeOK, caseVars, tableVars, budgetVars
  <2> QED BY <2>1, <2>2, <2>3
<1>3. CASE ReviewEvaluate(r)
  <2>1. PICK policy \in PolicyResults : snap' = [snap EXCEPT ![r].policy = policy]
    BY <1>3 DEF ReviewEvaluate, PolicyOutcomes, PolicyResults
  <2>2. LocalTypeOK'
    BY <1>3, <1>p, <2>1 DEF ReviewEvaluate, LocalTypeOK, SnapType, Goto, Labels, ClientLabels
  <2>3. HandlersOK'
    BY <1>3, <1>p, <2>1 DEF ReviewEvaluate, LocalTypeOK, HandlersOK, SnapType, Goto, ExecutionLabels
  <2>4. CaseTypeOK' /\ TableTypeOK' /\ BudgetTypeOK'
    BY <1>3 DEF ReviewEvaluate, CaseTypeOK, TableTypeOK, BudgetTypeOK, caseVars, tableVars, budgetVars
  <2> QED BY <2>2, <2>3, <2>4
<1>4. CASE ApproveReview(r)
  <2> DEFINE d == snap[r].decision
  <2>1. PICK s \in Rows : sched' = [sched EXCEPT ![s] = NewRow(d, version + 3, TRUE)]
    BY <1>4 DEF ApproveReview
  <2>2. d \in Decisions \cup {NoDecision}
    BY <1>p DEF LocalTypeOK, SnapType
  <2>3. TableTypeOK'
    <3> HIDE DEF d
    <3>1. version + 3 \in Nat
      BY DEF CaseTypeOK
    <3>2. NewRow(d, version + 3, TRUE) \in RowType
      BY <2>2, <3>1, NewRowType
    <3>3. sched' \in [Rows -> RowType]
      BY <2>1, <3>2 DEF TableTypeOK
    <3>4. UNCHANGED <<executions, lastDecision>>
      BY <1>4 DEF ApproveReview
    <3> QED BY <3>3, <3>4 DEF TableTypeOK
  <2>4. CaseTypeOK'
    BY <1>4 DEF ApproveReview, CaseTypeOK, MoveCase, CaseStates
  <2>5. LocalTypeOK' /\ HandlersOK'
    BY <1>4, <1>p, ReleaseType DEF ApproveReview
  <2>6. BudgetTypeOK'
    BY <1>4 DEF ApproveReview, BudgetTypeOK, budgetVars
  <2> QED BY <2>3, <2>4, <2>5, <2>6
<1>5. CASE RecordReview(r)
  <2>1. LocalTypeOK' /\ HandlersOK'
    BY <1>5, <1>p, ReleaseType DEF RecordReview
  <2>2. CaseTypeOK' /\ TableTypeOK' /\ BudgetTypeOK'
    BY <1>5 DEF RecordReview, CaseTypeOK, TableTypeOK, BudgetTypeOK, caseVars, tableVars, budgetVars
  <2> QED BY <2>1, <2>2
<1>6. CASE StopReview(r)
  <2>1. LocalTypeOK' /\ HandlersOK'
    BY <1>6, <1>p, ReleaseType DEF StopReview
  <2>2. CaseTypeOK'
    BY <1>6 DEF StopReview, CaseTypeOK, MoveCase, CaseStates
  <2>3. TableTypeOK' /\ BudgetTypeOK'
    BY <1>6 DEF StopReview, TableTypeOK, BudgetTypeOK, tableVars, budgetVars
  <2> QED BY <2>1, <2>2, <2>3
<1> QED BY <1>1, <1>2, <1>3, <1>4, <1>5, <1>6 DEF ReviewStep

\* The steps of a transition request.
LEMMA TransitionStepType ==
    ASSUME TypeOK, NEW o \in Operators, TransitionStep(o)
    PROVE  TypeOK'
<1> USE DEF TypeOK
<1>p. o \in Procs
  BY DEF Procs
<1>1. CASE ReadForTransition(o)
  <2>1. LocalTypeOK'
    <3>1. snap' = [snap EXCEPT ![o] = [snap[o] EXCEPT !.state = caseState, !.version = version]]
      BY <1>1 DEF ReadForTransition
    <3>2. snap' \in [Procs -> SnapType]
      BY <1>p, <3>1, SnapStateType DEF LocalTypeOK, CaseTypeOK
    <3>3. pc' \in [Procs -> Labels]
      BY <1>1, <1>p DEF ReadForTransition, LocalTypeOK, Goto, Labels, ClientLabels
    <3> QED BY <1>1, <3>2, <3>3 DEF ReadForTransition, LocalTypeOK
  <2>2. HandlersOK'
    BY <1>1, <1>p DEF ReadForTransition, LocalTypeOK, HandlersOK, SnapType, Goto, ExecutionLabels
  <2>3. CaseTypeOK' /\ TableTypeOK' /\ BudgetTypeOK'
    BY <1>1 DEF ReadForTransition, CaseTypeOK, TableTypeOK, BudgetTypeOK, caseVars, tableVars, budgetVars
  <2> QED BY <2>1, <2>2, <2>3
<1>2. CASE ApplyTransition(o)
  <2>1. CaseTypeOK'
    BY <1>2, InputsAssumption DEF ApplyTransition, CaseTypeOK, MoveCase
  <2>2. LocalTypeOK' /\ HandlersOK'
    BY <1>2, <1>p, ReleaseType DEF ApplyTransition
  <2>3. TableTypeOK' /\ BudgetTypeOK'
    BY <1>2 DEF ApplyTransition, TableTypeOK, BudgetTypeOK, tableVars, budgetVars
  <2> QED BY <2>1, <2>2, <2>3
<1>3. CASE RefuseTransition(o)
  <2>1. LocalTypeOK' /\ HandlersOK'
    BY <1>3, <1>p, ReleaseType DEF RefuseTransition
  <2>2. CaseTypeOK' /\ TableTypeOK' /\ BudgetTypeOK'
    BY <1>3 DEF RefuseTransition, CaseTypeOK, TableTypeOK, BudgetTypeOK, caseVars, tableVars, budgetVars
  <2> QED BY <2>1, <2>2
<1> QED BY <1>1, <1>2, <1>3 DEF TransitionStep

\* The lapse of a lease.
LEMMA LeaseStepType ==
    ASSUME TypeOK, NEW s \in Rows, LeaseExpires(s) \/ LeaseOverruns(s)
    PROVE  TypeOK'
<1> USE DEF TypeOK
<1>1. TableTypeOK'
  <2>1. sched \in [Rows -> RowType] /\ sched' = [sched EXCEPT ![s] = [sched[s] EXCEPT !.leased = FALSE]]
        /\ UNCHANGED <<executions, lastDecision>>
    BY DEF LeaseExpires, LeaseOverruns, TableTypeOK
  <2>2. [sched[s] EXCEPT !.leased = FALSE] \in RowType
    BY <2>1 DEF RowType
  <2>3. sched' \in [Rows -> RowType]
    BY <2>1, <2>2
  <2> QED BY <2>1, <2>3 DEF TableTypeOK
<1>2. CaseTypeOK' /\ LocalTypeOK' /\ HandlersOK' /\ BudgetTypeOK'
  BY DEF LeaseExpires, LeaseOverruns, CaseTypeOK, LocalTypeOK, HandlersOK, BudgetTypeOK,
         caseVars, localVars, budgetVars
<1> QED BY <1>1, <1>2

\* A handler that stops half-way.
LEMMA AbandonType ==
    ASSUME TypeOK, NEW p \in Procs, Abandon(p)
    PROVE  TypeOK'
<1> USE DEF TypeOK
<1>1. LocalTypeOK' /\ HandlersOK'
  BY ReleaseType DEF Abandon
<1>2. CaseTypeOK' /\ TableTypeOK' /\ BudgetTypeOK'
  BY DEF Abandon, CaseTypeOK, TableTypeOK, BudgetTypeOK, caseVars, tableVars
<1> QED BY <1>1, <1>2

\* Payments, responses and the deadline.
LEMMA WorldStepType ==
    ASSUME TypeOK, ObservePayment \/ CustomerResponse \/ DeadlinePasses
    PROVE  TypeOK'
<1> USE DEF TypeOK
<1>1. CaseTypeOK'
  <2>1. CASE ObservePayment
    BY <2>1 DEF ObservePayment, CaseTypeOK, MoveCase, CaseStates
  <2>2. CASE CustomerResponse
    BY <2>2 DEF CustomerResponse, CaseTypeOK, MoveCase, CaseStates
  <2>3. CASE DeadlinePasses
    BY <2>3 DEF DeadlinePasses, CaseTypeOK
  <2> QED BY <2>1, <2>2, <2>3
<1>2. TableTypeOK' /\ LocalTypeOK' /\ HandlersOK' /\ BudgetTypeOK'
  BY DEF ObservePayment, CustomerResponse, DeadlinePasses, TableTypeOK, LocalTypeOK, HandlersOK,
         BudgetTypeOK, tableVars, localVars, budgetVars
<1> QED BY <1>1, <1>2

\* A step of nobody.
LEMMA StutterType ==
    ASSUME TypeOK, UNCHANGED vars
    PROVE  TypeOK'
BY DEF TypeOK, CaseTypeOK, TableTypeOK, LocalTypeOK, HandlersOK, BudgetTypeOK,
       vars, caseVars, tableVars, localVars, budgetVars

\* The state a new case starts in, with no process at work on it, has its type.
LEMMA InitType == Init => TypeOK
<1> SUFFICES ASSUME Init PROVE TypeOK
  OBVIOUS
<1> USE DEF Init
<1>1. CaseTypeOK /\ BudgetTypeOK
  <2>1. caseState \in CaseStates
    BY DEF CaseStates
  <2>2. version \in Nat \ {0}
    OBVIOUS
  <2>3. deadlinePassed \in BOOLEAN /\ attributed \subseteq Payments
    OBVIOUS
  <2>4. BudgetTypeOK
    BY DEF BudgetTypeOK
  <2> QED BY <2>1, <2>2, <2>3, <2>4 DEF CaseTypeOK
<1>2. NoRow \in RowType
  BY DEF NoRow, RowType, RowStatuses
<1>3. TableTypeOK
  BY <1>2 DEF TableTypeOK, ExecutionType
<1>4. NoJob \in JobType /\ NoSnap \in SnapType
  BY DEF NoJob, JobType, NoSnap, SnapType, CaseStates
<1>5. LocalTypeOK
  BY <1>4 DEF LocalTypeOK, Labels, Results
<1>6. HandlersOK
  BY DEF HandlersOK, ExecutionLabels
<1> QED BY <1>1, <1>3, <1>5, <1>6 DEF TypeOK

\* TypeOK is inductive.
LEMMA NextType == TypeOK /\ [Next]_vars => TypeOK'
<1> SUFFICES ASSUME TypeOK, [Next]_vars PROVE TypeOK'
  OBVIOUS
<1>1. CASE \E p \in Workers \cup Deciders : DecideStep(p)
  BY <1>1, DecideStepType
<1>2. CASE \E w \in Workers : WorkerStep(w)
  BY <1>2, WorkerStepType
<1>3. CASE \E r \in Reviewers : ReviewStep(r)
  BY <1>3, ReviewStepType
<1>4. CASE \E o \in Operators : TransitionStep(o)
  BY <1>4, TransitionStepType
<1>5. CASE \E p \in Procs : Abandon(p)
  BY <1>5, AbandonType
<1>6. CASE \E s \in Rows : LeaseExpires(s) \/ LeaseOverruns(s)
  BY <1>6, LeaseStepType
<1>7. CASE ObservePayment \/ CustomerResponse \/ DeadlinePasses
  BY <1>7, WorldStepType
<1>8. CASE UNCHANGED vars
  BY <1>8, StutterType
<1> QED BY <1>1, <1>2, <1>3, <1>4, <1>5, <1>6, <1>7, <1>8 DEF Next

\* Whatever the processes do, every column and every local copy has its type,
\* and a handler that is past a claim, an evaluation or an execution holds
\* what its next step needs.
THEOREM TypeCorrect == Spec => []TypeOK
<1>1. Init => TypeOK
  BY InitType
<1>2. TypeOK /\ [Next]_vars => TypeOK'
  BY NextType
<1> QED BY <1>1, <1>2, PTL DEF Spec
===========================================================================
