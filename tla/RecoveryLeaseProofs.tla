------------------------ MODULE RecoveryLeaseProofs ------------------------
(***************************************************************************)
(* The attempts of a row are fenced although leases lapse under live       *)
(* workers.  FencingInv strengthens AttemptFencing with what keeps it:     *)
(* attempts are counted from one, none is above the row's counter, and an  *)
(* unused row has none.  A step either starts an attempt (ClaimDue), ends  *)
(* one (AttemptEnds), or keeps them all (AttemptsKept).                    *)
(***************************************************************************)
EXTENDS RecoveryWorkflowProofs

\* The strengthening of AttemptFencing that one step preserves: attempts are
\* counted from one, and an unused row has none.
AttemptsCounted ==
    /\ \A s \in Rows : sched[s].status = "NONE" => sched[s].attempt = 0
    /\ \A e \in executions : 1 <= e.attempt /\ e.attempt <= sched[e.row].attempt
    /\ \A w \in Workers : InFlight(w) => 1 <= job[w].attempt

FencingInv == AttemptsCounted /\ AttemptFencing

\* What every step but a claim does to rows and to the attempts in flight.
AttemptsKept ==
    /\ \A s \in Rows : /\ sched'[s].attempt = sched[s].attempt
                       /\ sched'[s].status = "NONE" => sched[s].status = "NONE"
    /\ \A v \in Workers : pc'[v] \in ExecutionLabels => InFlight(v) /\ job'[v] = job[v]

\* The end of an attempt: it is recorded and no longer in flight.
AttemptEnds(w) == InFlight(w) /\ RecordExecution(w) /\ pc'[w] \notin ExecutionLabels

\* A step that starts and ends no attempt keeps the attempts fenced.
LEMMA QuietPreservesFencing ==
    ASSUME TypeOK, FencingInv, AttemptsKept, UNCHANGED executions
    PROVE  FencingInv'
<1> USE DEF FencingInv, AttemptsCounted, AttemptsKept, InFlight
<1>1. \A e \in executions : e.row \in Rows
  BY DEF TypeOK, TableTypeOK, ExecutionType
<1>2. \A v \in Workers : pc[v] \in ExecutionLabels => job[v].row \in Rows
  BY DEF TypeOK, HandlersOK, Procs
<1>3. AttemptsCounted'
  BY <1>1
<1>4. AttemptFencing'
  BY <1>2 DEF AttemptFencing
<1> QED BY <1>3, <1>4

\* So does the end of an attempt, which records the attempt and drops it.
LEMMA EndPreservesFencing ==
    ASSUME TypeOK, FencingInv, AttemptsKept, NEW w \in Workers, AttemptEnds(w)
    PROVE  FencingInv'
<1> USE DEF FencingInv, AttemptsCounted, AttemptsKept, InFlight
<1>1. \A e \in executions : e.row \in Rows
  BY DEF TypeOK, TableTypeOK, ExecutionType
<1>2. \A v \in Workers : pc[v] \in ExecutionLabels => job[v].row \in Rows
  BY DEF TypeOK, HandlersOK, Procs
<1>3. \A e \in executions' : \/ e \in executions
                             \/ e.row = job[w].row /\ e.attempt = job[w].attempt
  BY DEF AttemptEnds, RecordExecution
<1>4. AttemptsCounted'
  BY <1>1, <1>2, <1>3 DEF AttemptEnds, AttemptFencing
<1>5. AttemptFencing'
  BY <1>2, <1>3 DEF AttemptEnds, AttemptFencing
<1> QED BY <1>4, <1>5

\* A claim starts an attempt above every recorded or running one of its row.
LEMMA ClaimPreservesFencing ==
    ASSUME TypeOK, FencingInv, NEW w \in Workers, ClaimDue(w)
    PROVE  FencingInv'
<1> USE DEF FencingInv, AttemptsCounted, InFlight
<1>1. PICK t \in Rows :
        /\ Claimable(t)
        /\ sched' = [sched EXCEPT ![t].status = "CLAIMED", ![t].leased = TRUE, ![t].attempt = @ + 1]
        /\ job' = [job EXCEPT ![w] = [row |-> t, attempt |-> sched[t].attempt + 1,
                                      version |-> sched[t].version]]
  BY DEF ClaimDue
<1>2. /\ pc' = [pc EXCEPT ![w] = "claimed"] /\ UNCHANGED executions
      /\ w \in Procs /\ \A v \in Workers : v \in Procs
  BY DEF ClaimDue, Goto, Procs
<1>3. \A e \in executions : e.row \in Rows /\ e.attempt \in Nat
  BY DEF TypeOK, TableTypeOK, ExecutionType
<1>4. \A v \in Workers : pc[v] \in ExecutionLabels => job[v].row \in Rows /\ job[v].attempt \in Nat
  BY DEF TypeOK, HandlersOK, LocalTypeOK, JobType, Procs
<1>5. /\ \A s \in Rows \ {t} : sched'[s] = sched[s]
      /\ sched'[t].attempt = sched[t].attempt + 1 /\ sched'[t].status = "CLAIMED"
      /\ \A s \in Rows : sched[s].attempt \in Nat
  BY <1>1 DEF TypeOK, TableTypeOK, RowType
<1>6. /\ \A v \in Workers \ {w} : job'[v] = job[v] /\ pc'[v] = pc[v]
      /\ job'[w].row = t /\ job'[w].attempt = sched[t].attempt + 1
  BY <1>1, <1>2 DEF TypeOK, LocalTypeOK
<1>7. AttemptsCounted'
  BY <1>2, <1>3, <1>4, <1>5, <1>6
<1>8. AttemptFencing'
  BY <1>2, <1>3, <1>4, <1>5, <1>6 DEF AttemptFencing
<1> QED BY <1>7, <1>8

\* A handler that returns or dies takes its attempt out of flight.
LEMMA ReleaseKeepsAttempts ==
    ASSUME TypeOK, NEW p \in Procs, Release(p)
    PROVE  /\ \A v \in Workers : pc'[v] \in ExecutionLabels => InFlight(v) /\ job'[v] = job[v]
           /\ pc'[p] \notin ExecutionLabels
BY DEF Release, InFlight, ExecutionLabels, TypeOK, LocalTypeOK, Procs

\* A step of a handler that takes no new row keeps the attempts in flight.
LEMMA GotoKeepsAttempts ==
    ASSUME TypeOK, NEW p \in Procs, NEW label, Goto(p, label),
           label \in ExecutionLabels => pc[p] \in ExecutionLabels,
           \A v \in Procs : (v = p /\ label \notin ExecutionLabels) \/ job'[v] = job[v]
    PROVE  /\ \A v \in Workers : pc'[v] \in ExecutionLabels => InFlight(v) /\ job'[v] = job[v]
           /\ pc'[p] = label
BY DEF Goto, InFlight, TypeOK, LocalTypeOK, Procs

\* A decision is written to a row that had no attempt.
LEMMA NewRowKeepsAttempts ==
    ASSUME TypeOK, AttemptsCounted, NEW d, NEW n, NEW h,
           \E s \in Rows : NextRow(s) /\ sched' = [sched EXCEPT ![s] = NewRow(d, n, h)]
    PROVE  \A s \in Rows : /\ sched'[s].attempt = sched[s].attempt
                           /\ sched'[s].status = "NONE" => sched[s].status = "NONE"
<1>1. PICK t \in Rows : NextRow(t) /\ sched' = [sched EXCEPT ![t] = NewRow(d, n, h)]
  OBVIOUS
<1>2. sched[t].status = "NONE" /\ sched[t].attempt = 0
  BY <1>1 DEF NextRow, FreeRows, AttemptsCounted
<1>3. NewRow(d, n, h).attempt = 0 /\ NewRow(d, n, h).status = "PENDING"
  BY DEF NewRow, NoRow
<1> QED BY <1>1, <1>2, <1>3 DEF TypeOK, TableTypeOK

\* MarkExecuting writes a status and a version, never an attempt count.
LEMMA MarkRowKeepsAttempts ==
    ASSUME TypeOK, NEW t \in Rows, MarkRow(t)
    PROVE  \A s \in Rows : /\ sched'[s].attempt = sched[s].attempt
                           /\ sched'[s].status = "NONE" => sched[s].status = "NONE"
BY DEF MarkRow, TypeOK, TableTypeOK, RowType

\* CompleteExecution writes a status and a lease, never an attempt count.
LEMMA FinishRowKeepsAttempts ==
    ASSUME TypeOK, NEW t \in Rows, NEW status, status # "NONE", FinishRow(t, status)
    PROVE  \A s \in Rows : /\ sched'[s].attempt = sched[s].attempt
                           /\ sched'[s].status = "NONE" => sched[s].status = "NONE"
BY DEF FinishRow, TypeOK, TableTypeOK, RowType

\* A decision starts and ends no attempt; it may give birth to a row.
LEMMA DecideStepFencing ==
    ASSUME TypeOK, FencingInv, NEW p \in Workers \cup Deciders, DecideStep(p)
    PROVE  FencingInv'
<1>p. p \in Procs
  BY DEF Procs
<1>1. UNCHANGED executions
  BY DEF DecideStep, PrepareForDecision, Evaluate, SaveDecisionAndSchedule, SaveDecisionConflict, tableVars
<1>2. AttemptsKept
  <2>1. CASE PrepareForDecision(p)
    BY <2>1, <1>p, ReleaseKeepsAttempts, GotoKeepsAttempts
    DEF PrepareForDecision, AttemptsKept, tableVars, ExecutionLabels
  <2>2. CASE Evaluate(p)
    BY <2>2, <1>p, GotoKeepsAttempts DEF Evaluate, AttemptsKept, tableVars, ExecutionLabels
  <2>3. CASE SaveDecisionAndSchedule(p)
    <3> DEFINE d == snap[p].decision
    <3>0. AttemptsCounted
      BY DEF FencingInv
    <3>1. \/ UNCHANGED sched
          \/ \E s \in Rows : NextRow(s) /\ sched' = [sched EXCEPT ![s] = NewRow(d, version + 2, FALSE)]
      BY <2>3 DEF SaveDecisionAndSchedule, SaveEscalated, SaveStopped, SaveOnly, SaveAndSchedule
    <3> HIDE DEF d
    <3>2. \A s \in Rows : /\ sched'[s].attempt = sched[s].attempt
                          /\ sched'[s].status = "NONE" => sched[s].status = "NONE"
      BY <3>0, <3>1, NewRowKeepsAttempts
    <3> QED BY <2>3, <1>p, <3>2, GotoKeepsAttempts
            DEF SaveDecisionAndSchedule, AttemptsKept, ExecutionLabels
  <2>4. CASE SaveDecisionConflict(p)
    BY <2>4, <1>p, ReleaseKeepsAttempts DEF SaveDecisionConflict, AttemptsKept, tableVars
  <2> QED BY <2>1, <2>2, <2>3, <2>4 DEF DecideStep
<1> QED BY <1>1, <1>2, QuietPreservesFencing

\* Claims start attempts, the completions end them, other steps do neither.
LEMMA WorkerStepFencing ==
    ASSUME TypeOK, FencingInv, NEW w \in Workers, WorkerStep(w)
    PROVE  FencingInv'
<1>p. w \in Procs
  BY DEF Procs
<1>r. pc[w] \in ExecutionLabels \cup {"observing"} => job[w].row \in Rows
  BY <1>p DEF TypeOK, HandlersOK
<1>1. CASE ClaimDue(w)
  BY <1>1, ClaimPreservesFencing
<1>2. CASE ReadContext(w)
  <2>1. Goto(w, "authorized") \/ Goto(w, "suppress")
    BY <1>2 DEF ReadContext
  <2> QED BY <1>2, <1>p, <2>1, GotoKeepsAttempts, QuietPreservesFencing
          DEF ReadContext, AttemptsKept, tableVars, ExecutionLabels
<1>3. CASE MarkSuppressed(w)
  <2>1. \A s \in Rows : /\ sched'[s].attempt = sched[s].attempt
                        /\ sched'[s].status = "NONE" => sched[s].status = "NONE"
    BY <1>3, <1>r DEF MarkSuppressed, TypeOK, TableTypeOK, RowType
  <2> QED BY <1>3, <1>p, <2>1, ReleaseKeepsAttempts, QuietPreservesFencing
          DEF MarkSuppressed, AttemptsKept
<1>4. CASE MarkExecuting(w)
  BY <1>4, <1>p, <1>r, MarkRowKeepsAttempts, GotoKeepsAttempts, QuietPreservesFencing
  DEF MarkExecuting, AttemptsKept, ExecutionLabels
<1>5. CASE MarkReconciled(w)
  BY <1>5, <1>p, <1>r, MarkRowKeepsAttempts, GotoKeepsAttempts, QuietPreservesFencing
  DEF MarkReconciled, AttemptsKept, ExecutionLabels
<1>6. CASE MarkExecutingConflict(w)
  BY <1>6, <1>p, ReleaseKeepsAttempts, QuietPreservesFencing
  DEF MarkExecutingConflict, AttemptsKept, tableVars
<1>7. CASE Execute(w)
  <2>1. \A s \in Rows : sched'[s].attempt = sched[s].attempt /\ sched'[s].status = sched[s].status
    BY <1>7, <1>r DEF Execute, TypeOK, TableTypeOK, RowType
  <2> QED BY <1>7, <1>p, <2>1, GotoKeepsAttempts, QuietPreservesFencing
          DEF Execute, AttemptsKept, ExecutionLabels
<1>8. CASE CompleteWithRetry(w)
  BY <1>8, <1>p, <1>r, FinishRowKeepsAttempts, ReleaseKeepsAttempts, EndPreservesFencing
  DEF CompleteWithRetry, AttemptsKept, AttemptEnds, InFlight, ExecutionLabels
<1>9. CASE CompleteSucceeded(w)
  BY <1>9, <1>p, <1>r, FinishRowKeepsAttempts, ReleaseKeepsAttempts, EndPreservesFencing
  DEF CompleteSucceeded, AttemptsKept, AttemptEnds, InFlight, ExecutionLabels
<1>10. CASE CompleteFailed(w)
  <2>1. Goto(w, "reassess") \/ Goto(w, "idle")
    BY <1>10 DEF CompleteFailed
  <2>2. \A v \in Procs : v = w \/ job'[v] = job[v]
    BY <1>10 DEF CompleteFailed, TypeOK, LocalTypeOK
  <2>3. AttemptsKept
    BY <1>10, <1>p, <1>r, <2>1, <2>2, FinishRowKeepsAttempts, GotoKeepsAttempts
    DEF CompleteFailed, AttemptsKept, ExecutionLabels
  <2>4. AttemptEnds(w)
    BY <1>10, <1>p, <2>1 DEF CompleteFailed, AttemptEnds, InFlight, ExecutionLabels, Goto, TypeOK, LocalTypeOK
  <2> QED BY <2>3, <2>4, EndPreservesFencing
<1>11. CASE ClaimDueObservation(w)
  <2>1. \A s \in Rows : /\ sched'[s].attempt = sched[s].attempt
                        /\ sched'[s].status = "NONE" => sched[s].status = "NONE"
    BY <1>11 DEF ClaimDueObservation, TypeOK, TableTypeOK, RowType
  <2>2. \A v \in Procs : v = w \/ job'[v] = job[v]
    BY <1>11 DEF ClaimDueObservation, TypeOK, LocalTypeOK
  <2>3. Goto(w, "observing") /\ UNCHANGED executions
    BY <1>11 DEF ClaimDueObservation
  <2>4. AttemptsKept
    BY <1>p, <2>1, <2>2, <2>3, GotoKeepsAttempts DEF AttemptsKept, ExecutionLabels
  <2> QED BY <2>3, <2>4, QuietPreservesFencing
<1>12. CASE PrepareReassessment(w)
  <2>1. \A s \in Rows : /\ sched'[s].attempt = sched[s].attempt
                        /\ sched'[s].status = "NONE" => sched[s].status = "NONE"
    BY <1>12, <1>r DEF PrepareReassessment, TypeOK, TableTypeOK, RowType
  <2>2. \A v \in Procs : v = w \/ job'[v] = job[v]
    BY <1>12 DEF PrepareReassessment, TypeOK, LocalTypeOK
  <2>3. Goto(w, "reassess") \/ Goto(w, "idle")
    BY <1>12 DEF PrepareReassessment
  <2>4. AttemptsKept
    BY <1>12, <1>p, <2>1, <2>2, <2>3, GotoKeepsAttempts DEF AttemptsKept, ExecutionLabels
  <2> QED BY <1>12, <2>4, QuietPreservesFencing DEF PrepareReassessment
<1> QED BY <1>1, <1>2, <1>3, <1>4, <1>5, <1>6, <1>7, <1>8, <1>9, <1>10, <1>11, <1>12 DEF WorkerStep

\* FencingInv is inductive, given the types.
LEMMA NextFencing == TypeOK /\ FencingInv /\ [Next]_vars => FencingInv'
<1> SUFFICES ASSUME TypeOK, FencingInv, [Next]_vars PROVE FencingInv'
  OBVIOUS
<1>1. CASE \E p \in Workers \cup Deciders : DecideStep(p)
  BY <1>1, DecideStepFencing
<1>2. CASE \E w \in Workers : WorkerStep(w)
  BY <1>2, WorkerStepFencing
<1>3. CASE \E r \in Reviewers : ReviewStep(r)
  <2>1. PICK r \in Reviewers : ReviewStep(r)
    BY <1>3
  <2>2. r \in Procs
    BY DEF Procs
  <2>3. CASE ViewQueue(r) \/ LoadReviewItem(r) \/ ReviewEvaluate(r)
    BY <2>2, <2>3, GotoKeepsAttempts, QuietPreservesFencing
    DEF ViewQueue, LoadReviewItem, ReviewEvaluate, AttemptsKept, tableVars, ExecutionLabels
  <2>4. CASE RecordReview(r) \/ StopReview(r)
    BY <2>2, <2>4, ReleaseKeepsAttempts, QuietPreservesFencing
    DEF RecordReview, StopReview, AttemptsKept, tableVars
  <2>5. CASE ApproveReview(r)
    <3>1. AttemptsCounted
      BY DEF FencingInv
    <3>2. \E s \in Rows :
             NextRow(s) /\ sched' = [sched EXCEPT ![s] = NewRow(snap[r].decision, version + 3, TRUE)]
      BY <2>5 DEF ApproveReview
    <3>3. Release(r) /\ UNCHANGED executions
      BY <2>5 DEF ApproveReview
    <3>4. \A s \in Rows : /\ sched'[s].attempt = sched[s].attempt
                          /\ sched'[s].status = "NONE" => sched[s].status = "NONE"
      BY <3>1, <3>2, NewRowKeepsAttempts
    <3>5. AttemptsKept
      BY <2>2, <3>3, <3>4, ReleaseKeepsAttempts DEF AttemptsKept
    <3> QED BY <3>3, <3>5, QuietPreservesFencing
  <2> QED BY <2>1, <2>3, <2>4, <2>5 DEF ReviewStep
<1>4. CASE \E o \in Operators : TransitionStep(o)
  <2>1. PICK o \in Operators : TransitionStep(o)
    BY <1>4
  <2>2. o \in Procs
    BY DEF Procs
  <2>3. CASE ReadForTransition(o)
    BY <2>2, <2>3, GotoKeepsAttempts, QuietPreservesFencing
    DEF ReadForTransition, AttemptsKept, tableVars, ExecutionLabels
  <2>4. CASE ApplyTransition(o) \/ RefuseTransition(o)
    BY <2>2, <2>4, ReleaseKeepsAttempts, QuietPreservesFencing
    DEF ApplyTransition, RefuseTransition, AttemptsKept, tableVars
  <2> QED BY <2>1, <2>3, <2>4 DEF TransitionStep
<1>5. CASE \E p \in Procs : Abandon(p)
  BY <1>5, ReleaseKeepsAttempts, QuietPreservesFencing DEF Abandon, AttemptsKept, tableVars
<1>6. CASE \E s \in Rows : LeaseExpires(s) \/ LeaseOverruns(s)
  <2>1. PICK t \in Rows : LeaseExpires(t) \/ LeaseOverruns(t)
    BY <1>6
  <2>2. \A s \in Rows : sched'[s].attempt = sched[s].attempt /\ sched'[s].status = sched[s].status
    BY <2>1 DEF LeaseExpires, LeaseOverruns, TypeOK, TableTypeOK, RowType
  <2> QED BY <2>1, <2>2, QuietPreservesFencing
          DEF LeaseExpires, LeaseOverruns, AttemptsKept, localVars, InFlight
<1>7. CASE ObservePayment \/ CustomerResponse \/ DeadlinePasses \/ UNCHANGED vars
  BY <1>7, QuietPreservesFencing
  DEF ObservePayment, CustomerResponse, DeadlinePasses, vars, tableVars, localVars, AttemptsKept, InFlight
<1> QED BY <1>1, <1>2, <1>3, <1>4, <1>5, <1>6, <1>7 DEF Next

\* A new case has no attempt, no execution and nobody at work.
LEMMA InitFencing == Init => FencingInv
BY DEF Init, FencingInv, AttemptsCounted, AttemptFencing, InFlight, ExecutionLabels, NoRow, Procs

\* Although leases lapse under live workers, which then share a row, each
\* claim is an attempt of its own: no two workers ever hold the same one, and
\* the result of none is dropped by ON CONFLICT DO NOTHING.
THEOREM AttemptsAreFenced == Spec => []AttemptFencing
<1>1. Init => FencingInv
  BY InitFencing
<1>2. TypeOK /\ FencingInv /\ [Next]_vars => FencingInv'
  BY NextFencing
<1>3. FencingInv => AttemptFencing
  BY DEF FencingInv
<1> QED BY <1>1, <1>2, <1>3, TypeCorrect, PTL DEF Spec
============================================================================
