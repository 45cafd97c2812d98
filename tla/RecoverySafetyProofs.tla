----------------------- MODULE RecoverySafetyProofs -----------------------
(***************************************************************************)
(* Theorems about the case row: snapshots are faithful, the row implements *)
(* CaseLifecycle, terminal states absorb, one payment is attributed.       *)
(*                                                                         *)
(* The argument: CaseEffect says what any step does to the case row        *)
(* (NextCase), SnapEffect what it does to what handlers have read          *)
(* (NextSnap).  Since every change of the row increases the version,       *)
(* SnapshotFaithful is inductive; with it the compare-and-set of the       *)
(* transition API is a walk along one edge, which gives the refinement and *)
(* from it the two facts about terminal states and payments.               *)
(***************************************************************************)
EXTENDS RecoveryWorkflowProofs, FiniteSetTheorems

\* CaseLifecycle and the workflow read the same transition table.
LEMMA SameTable == Case!Transitions = Transitions /\ Case!Terminal = Terminal
BY DEF Case!Transitions, Transitions, Case!CaseStates, CaseStates, Case!Terminal, Terminal

\* The edges of the table that the transactions of the workflow walk.
LEMMA Edges ==
    /\ CanTransition("DETECTED", "DIAGNOSING") /\ CanTransition("DIAGNOSING", "ACTION_PENDING")
    /\ CanTransition("REASSESSING", "ACTION_PENDING") /\ CanTransition("ACTION_PENDING", "ESCALATED")
    /\ CanTransition("ACTION_PENDING", "POLICY_REVIEW") /\ CanTransition("POLICY_REVIEW", "SCHEDULED")
    /\ CanTransition("SCHEDULED", "EXECUTING") /\ CanTransition("EXECUTING", "WAITING_OUTCOME")
    /\ CanTransition("EXECUTING", "REASSESSING") /\ CanTransition("WAITING_OUTCOME", "REASSESSING")
    /\ CanTransition("WAITING_OUTCOME", "EXHAUSTED") /\ CanTransition("ESCALATED", "ACTION_PENDING")
    /\ CanTransition("ESCALATED", "STOPPED")
BY DEF CanTransition, Transitions, CaseStates

\* Every live state has an edge to STOPPED: a policy STOP is a legal move.
LEMMA LiveCanStop == \A s \in CaseStates \ Terminal : CanTransition(s, "STOPPED")
BY DEF CanTransition, Transitions, CaseStates, Terminal

\* No edge leaves a terminal state.
LEMMA TerminalIsFinal == \A s \in Terminal : Transitions[s] = {}
BY DEF Transitions, CaseStates, Terminal

\* MoveCase along a path of the table is a step of CaseLifecycle.
LEMMA Walks ==
    ASSUME NEW to \in CaseStates
    PROVE  /\ CanTransition(caseState, to) /\ MoveCase(to, 1) => Case!Next
           /\ \A u \in CaseStates :
                 CanTransition(caseState, u) /\ CanTransition(u, to) /\ MoveCase(to, 2) => Case!Next
           /\ \A u \in CaseStates : \A v \in CaseStates :
                 /\ CanTransition(caseState, u) /\ CanTransition(u, v) /\ CanTransition(v, to)
                 /\ MoveCase(to, 3)
                 => Case!Next
BY SameTable DEF CanTransition, MoveCase, Case!Next, Case!WalkOne, Case!WalkTwo, Case!WalkThree

\* What one step may do to the case row: nothing, a walk along the table or
\* a payment, or the compare-and-set of a transition request.
ComparedMove ==
    \E o \in Procs :
       /\ version = snap[o].version /\ version' = version + 1
       /\ CanTransition(snap[o].state, caseState')

CaseEffect == UNCHANGED <<caseState, version>> \/ Case!Next \/ ComparedMove

\* The effect of a step of a decider on the case row.
LEMMA DecideStepCase ==
    ASSUME TypeOK, NEW p \in Workers \cup Deciders, DecideStep(p)
    PROVE  CaseEffect
<1>t. caseState \in CaseStates
  BY DEF TypeOK, CaseTypeOK
<1>1. CASE PrepareForDecision(p)
  BY <1>1, Walks, Edges DEF PrepareForDecision, CaseEffect, KeepCase, CaseStates
<1>2. CASE Evaluate(p) \/ SaveDecisionConflict(p)
  BY <1>2 DEF Evaluate, SaveDecisionConflict, CaseEffect, caseVars
<1>3. CASE SaveDecisionAndSchedule(p)
  <2> DEFINE d == snap[p].decision
  <2>1. CASE SaveEscalated(d)
    BY <2>1, Walks, Edges DEF SaveEscalated, CaseEffect, CaseStates
  <2>2. CASE SaveStopped(d)
    BY <2>2, <1>t, Walks, LiveCanStop DEF SaveStopped, CaseEffect, CaseStates
  <2>3. CASE SaveOnly(d)
    BY <2>3 DEF SaveOnly, CaseEffect, KeepCase
  <2>4. CASE SaveAndSchedule(d)
    BY <2>4, Walks, Edges DEF SaveAndSchedule, CaseEffect, CaseStates
  <2> QED BY <1>3, <2>1, <2>2, <2>3, <2>4 DEF SaveDecisionAndSchedule
<1> QED BY <1>1, <1>2, <1>3 DEF DecideStep

\* The effect of a step of a worker on the case row.
LEMMA WorkerStepCase ==
    ASSUME TypeOK, NEW w \in Workers, WorkerStep(w)
    PROVE  CaseEffect
<1>1. CASE ClaimDue(w) \/ ReadContext(w) \/ MarkSuppressed(w) \/ MarkExecutingConflict(w)
           \/ Execute(w) \/ CompleteWithRetry(w) \/ ClaimDueObservation(w)
  BY <1>1 DEF ClaimDue, ReadContext, MarkSuppressed, MarkExecutingConflict, Execute,
              CompleteWithRetry, ClaimDueObservation, CaseEffect, caseVars
<1>2. CASE MarkExecuting(w) \/ MarkReconciled(w)
  <2>1. MarkRow(job[w].row)
    BY <1>2 DEF MarkExecuting, MarkReconciled
  <2> QED BY <2>1, Walks, Edges DEF MarkRow, CaseEffect, KeepCase, CaseStates
<1>3. CASE CompleteSucceeded(w)
  BY <1>3, Walks, Edges DEF CompleteSucceeded, CaseEffect, KeepCase, CaseStates
<1>4. CASE CompleteFailed(w)
  BY <1>4, Walks, Edges DEF CompleteFailed, CaseEffect, KeepCase, CaseStates
<1>5. CASE PrepareReassessment(w)
  BY <1>5, Walks, Edges DEF PrepareReassessment, CaseEffect, KeepCase, CaseStates
<1> QED BY <1>1, <1>2, <1>3, <1>4, <1>5 DEF WorkerStep

\* The effect of a step of a reviewer on the case row.
LEMMA ReviewStepCase ==
    ASSUME TypeOK, NEW r \in Reviewers, ReviewStep(r)
    PROVE  CaseEffect
<1>1. CASE ViewQueue(r) \/ LoadReviewItem(r) \/ ReviewEvaluate(r) \/ RecordReview(r)
  BY <1>1 DEF ViewQueue, LoadReviewItem, ReviewEvaluate, RecordReview, CaseEffect, caseVars
<1>2. CASE ApproveReview(r)
  BY <1>2, Walks, Edges DEF ApproveReview, Authorizes, CaseEffect, CaseStates
<1>3. CASE StopReview(r)
  BY <1>3, Walks, Edges DEF StopReview, CaseEffect, CaseStates
<1> QED BY <1>1, <1>2, <1>3 DEF ReviewStep

\* The effect of a step of an operator on the case row.
LEMMA TransitionStepCase ==
    ASSUME TypeOK, NEW o \in Operators, TransitionStep(o)
    PROVE  CaseEffect
<1>1. CASE ReadForTransition(o) \/ RefuseTransition(o)
  BY <1>1 DEF ReadForTransition, RefuseTransition, CaseEffect, caseVars
<1>2. CASE ApplyTransition(o)
  BY <1>2 DEF ApplyTransition, MoveCase, CaseEffect, ComparedMove, Procs
<1> QED BY <1>1, <1>2 DEF TransitionStep

\* Every step affects the case row as CaseEffect says.
LEMMA NextCase == TypeOK /\ [Next]_vars => CaseEffect
<1> SUFFICES ASSUME TypeOK, [Next]_vars PROVE CaseEffect
  OBVIOUS
<1>1. CASE \E p \in Workers \cup Deciders : DecideStep(p)
  BY <1>1, DecideStepCase
<1>2. CASE \E w \in Workers : WorkerStep(w)
  BY <1>2, WorkerStepCase
<1>3. CASE \E r \in Reviewers : ReviewStep(r)
  BY <1>3, ReviewStepCase
<1>4. CASE \E o \in Operators : TransitionStep(o)
  BY <1>4, TransitionStepCase
<1>5. CASE ObservePayment
  BY <1>5, SameTable DEF ObservePayment, MoveCase, CaseEffect, Case!Next, Case!PaymentObserved
<1>6. CASE CustomerResponse
  BY <1>6, Walks, Edges DEF CustomerResponse, CaseEffect, CaseStates
<1>7. CASE UNCHANGED <<caseState, version>>
  BY <1>7 DEF CaseEffect
<1>8. ASSUME (\E p \in Procs : Abandon(p)) \/ (\E s \in Rows : LeaseExpires(s) \/ LeaseOverruns(s))
             \/ DeadlinePasses \/ UNCHANGED vars
      PROVE  UNCHANGED <<caseState, version>>
  BY <1>8 DEF Abandon, LeaseExpires, LeaseOverruns, DeadlinePasses, vars, caseVars
<1> QED BY <1>1, <1>2, <1>3, <1>4, <1>5, <1>6, <1>7, <1>8 DEF Next

-----------------------------------------------------------------------------
\* Every step that touches the case row increases its version.
LEMMA CaseBump ==
    ASSUME TypeOK, CaseEffect
    PROVE  UNCHANGED <<caseState, version>> \/ version' > version
BY DEF CaseEffect, ComparedMove, Case!Next, Case!WalkOne, Case!WalkTwo, Case!WalkThree,
       Case!PaymentObserved, TypeOK, CaseTypeOK

\* What one step may do to the snapshot of q: keep what was read, drop it, or
\* read the case row.
SnapEffect(q) ==
    \/ snap'[q].version = snap[q].version /\ snap'[q].state = snap[q].state
    \/ snap'[q].version = 0
    \/ UNCHANGED <<caseState, version>> /\ snap'[q].version = version /\ snap'[q].state = caseState

\* A handler that returns drops its snapshot.
LEMMA ReleaseSnap ==
    ASSUME TypeOK, NEW p \in Procs, Release(p)
    PROVE  \A q \in Procs : SnapEffect(q)
BY DEF TypeOK, LocalTypeOK, Release, SnapEffect, NoSnap

\* Nobody read or dropped anything.
LEMMA SameSnap ==
    ASSUME UNCHANGED snap
    PROVE  \A q \in Procs : SnapEffect(q)
BY DEF SnapEffect

\* The effect of a step of a decider on the snapshots.
LEMMA DecideStepSnap ==
    ASSUME TypeOK, NEW p \in Workers \cup Deciders, DecideStep(p)
    PROVE  \A q \in Procs : SnapEffect(q)
<1>p. p \in Procs
  BY DEF Procs
<1>1. CASE PrepareForDecision(p)
  BY <1>1, <1>p, ReleaseSnap, SameSnap DEF PrepareForDecision
<1>2. CASE Evaluate(p)
  BY <1>2, <1>p DEF Evaluate, SnapEffect, TypeOK, LocalTypeOK, SnapType
<1>3. CASE SaveDecisionAndSchedule(p)
  BY <1>3, <1>p DEF SaveDecisionAndSchedule, SnapEffect, TypeOK, LocalTypeOK, SnapType, NoSnap
<1>4. CASE SaveDecisionConflict(p)
  BY <1>4, <1>p, ReleaseSnap DEF SaveDecisionConflict
<1> QED BY <1>1, <1>2, <1>3, <1>4 DEF DecideStep

\* Workers keep no snapshot of the case; they only drop what a decision left.
LEMMA WorkerStepSnap ==
    ASSUME TypeOK, NEW w \in Workers, WorkerStep(w)
    PROVE  \A q \in Procs : SnapEffect(q)
<1>p. w \in Procs
  BY DEF Procs
<1>1. CASE Release(w)
  BY <1>1, <1>p, ReleaseSnap
<1>2. CASE UNCHANGED snap
  BY <1>2, SameSnap
<1> QED BY <1>1, <1>2 DEF WorkerStep, ClaimDue, ReadContext, MarkSuppressed, MarkExecuting,
     MarkReconciled, MarkExecutingConflict, Execute, CompleteWithRetry, CompleteSucceeded,
     CompleteFailed, ClaimDueObservation, PrepareReassessment

\* The effect of a step of a reviewer on the snapshots.
LEMMA ReviewStepSnap ==
    ASSUME TypeOK, NEW r \in Reviewers, ReviewStep(r)
    PROVE  \A q \in Procs : SnapEffect(q)
<1>p. r \in Procs
  BY DEF Procs
<1>1. CASE ViewQueue(r)
  BY <1>1, <1>p DEF ViewQueue, SnapEffect, caseVars, TypeOK, LocalTypeOK, SnapType
<1>2. CASE LoadReviewItem(r)
  BY <1>2, <1>p DEF LoadReviewItem, SnapEffect, TypeOK, LocalTypeOK, SnapType
<1>3. CASE ReviewEvaluate(r)
  BY <1>3, <1>p DEF ReviewEvaluate, SnapEffect, TypeOK, LocalTypeOK, SnapType
<1>4. CASE ApproveReview(r) \/ RecordReview(r) \/ StopReview(r)
  BY <1>4, <1>p, ReleaseSnap DEF ApproveReview, RecordReview, StopReview
<1> QED BY <1>1, <1>2, <1>3, <1>4 DEF ReviewStep

\* Every step affects every snapshot as SnapEffect says.
LEMMA NextSnap == TypeOK /\ [Next]_vars => \A q \in Procs : SnapEffect(q)
<1> SUFFICES ASSUME TypeOK, [Next]_vars PROVE \A q \in Procs : SnapEffect(q)
  OBVIOUS
<1>1. CASE \E p \in Workers \cup Deciders : DecideStep(p)
  BY <1>1, DecideStepSnap
<1>2. CASE \E w \in Workers : WorkerStep(w)
  BY <1>2, WorkerStepSnap
<1>3. CASE \E r \in Reviewers : ReviewStep(r)
  BY <1>3, ReviewStepSnap
<1>4. CASE \E o \in Operators : TransitionStep(o)
  <2>1. PICK o \in Operators : TransitionStep(o)
    BY <1>4
  <2>2. o \in Procs
    BY DEF Procs
  <2>3. CASE ReadForTransition(o)
    BY <2>2, <2>3 DEF ReadForTransition, SnapEffect, caseVars, TypeOK, LocalTypeOK, SnapType
  <2>4. CASE ApplyTransition(o) \/ RefuseTransition(o)
    BY <2>2, <2>4, ReleaseSnap DEF ApplyTransition, RefuseTransition
  <2> QED BY <2>1, <2>3, <2>4 DEF TransitionStep
<1>5. CASE \E p \in Procs : Abandon(p)
  BY <1>5, ReleaseSnap DEF Abandon
<1>6. CASE (\E s \in Rows : LeaseExpires(s) \/ LeaseOverruns(s)) \/ ObservePayment
           \/ CustomerResponse \/ DeadlinePasses \/ UNCHANGED vars
  BY <1>6, SameSnap DEF LeaseExpires, LeaseOverruns, ObservePayment, CustomerResponse,
       DeadlinePasses, vars, localVars
<1> QED BY <1>1, <1>2, <1>3, <1>4, <1>5, <1>6 DEF Next

\* One step preserves the faithfulness of every snapshot: a version that is
\* still current has not been written since, and its state neither.
LEMMA NextFaithful ==
    ASSUME TypeOK, TypeOK', SnapshotFaithful, CaseEffect, \A q \in Procs : SnapEffect(q)
    PROVE  SnapshotFaithful'
<1> SUFFICES ASSUME NEW q \in Procs
             PROVE  /\ snap'[q].version <= version'
                    /\ snap'[q].version = version' => snap'[q].state = caseState'
  BY DEF SnapshotFaithful
<1>1. /\ snap[q].version \in Nat /\ snap'[q].version \in Nat
      /\ version \in Nat \ {0} /\ version' \in Nat \ {0}
  BY DEF TypeOK, CaseTypeOK, LocalTypeOK, SnapType
<1>2. snap[q].version <= version /\ (snap[q].version = version => snap[q].state = caseState)
  BY DEF SnapshotFaithful
<1>3. UNCHANGED <<caseState, version>> \/ version' > version
  BY CaseBump
<1>4. SnapEffect(q)
  OBVIOUS
<1> QED BY <1>1, <1>2, <1>3, <1>4 DEF SnapEffect

\* Under any interleaving of deciders, workers, reviewers, operators, payments
\* and responses, a state read with the version that is still current is still
\* the state of the case.
THEOREM SnapshotsAreFaithful == Spec => []SnapshotFaithful
<1>1. Init => SnapshotFaithful
  BY DEF Init, SnapshotFaithful, NoSnap
<1>2. TypeOK /\ TypeOK' /\ SnapshotFaithful /\ [Next]_vars => SnapshotFaithful'
  BY NextCase, NextSnap, NextFaithful
<1> QED BY <1>1, <1>2, TypeCorrect, PTL DEF Spec

\* Given faithful snapshots, the compare-and-set of the transition API is a
\* walk along one edge.
LEMMA StepRefines ==
    ASSUME TypeOK, TypeOK', SnapshotFaithful, CaseEffect
    PROVE  [Case!Next]_(Case!vars)
<1>1. CASE ComparedMove
  <2>1. PICK o \in Procs : /\ version = snap[o].version /\ version' = version + 1
                           /\ CanTransition(snap[o].state, caseState')
    BY <1>1 DEF ComparedMove
  <2>2. snap[o].state = caseState
    BY <2>1 DEF SnapshotFaithful
  <2> QED BY <2>1, <2>2, SameTable DEF CanTransition, Case!Next, Case!WalkOne
<1>2. CASE UNCHANGED <<caseState, version>>
  BY <1>2 DEF Case!vars
<1> QED BY <1>1, <1>2 DEF CaseEffect

\* The case row of the durable workflow implements CaseLifecycle.
THEOREM WorkflowRefinesLifecycle == Spec => CaseSpec
<1>1. Init => Case!Init
  BY DEF Init, Case!Init
<1>2. TypeOK /\ TypeOK' /\ SnapshotFaithful /\ [Next]_vars => [Case!Next]_(Case!vars)
  BY NextCase, StepRefines
<1> QED BY <1>1, <1>2, TypeCorrect, SnapshotsAreFaithful, PTL DEF Spec, CaseSpec, Case!Spec

\* CaseLifecycle never leaves a terminal state.
LEMMA TerminalStep ==
    [Case!Next]_(Case!vars) /\ caseState \in Terminal => UNCHANGED <<caseState, version>>
BY SameTable, TerminalIsFinal DEF Case!vars, Case!Next, Case!WalkOne, Case!WalkTwo, Case!WalkThree,
   Case!PaymentObserved

\* No process, late result, review or transition writes a case that is
\* RECOVERED, EXHAUSTED or STOPPED.
THEOREM TerminalIsAbsorbing == Spec => TerminalAbsorbing
<1>1. TypeOK /\ TypeOK' /\ SnapshotFaithful /\ [Next]_vars
      => [(caseState \in Terminal) => UNCHANGED <<caseState, version>>]_vars
  BY TerminalStep, NextCase, StepRefines
<1> QED BY <1>1, TypeCorrect, SnapshotsAreFaithful, PTL DEF Spec, TerminalAbsorbing

-----------------------------------------------------------------------------
\* The strengthening of AttributedOnce: at most one reference, by name.
AttributionInv ==
    attributed = {} \/ (caseState = "RECOVERED" /\ \E reference : attributed = {reference})

\* Only AttributeRecovery writes recovery_attributions.
LEMMA AttributionChanges ==
    ASSUME [Next]_vars
    PROVE  UNCHANGED attributed \/ ObservePayment
BY DEF Next, DecideStep, WorkerStep, ReviewStep, TransitionStep, PrepareForDecision, Evaluate,
   SaveDecisionAndSchedule, SaveDecisionConflict, ClaimDue, ReadContext, MarkSuppressed,
   MarkExecuting, MarkReconciled, MarkExecutingConflict, Execute, CompleteWithRetry,
   CompleteSucceeded, CompleteFailed, ClaimDueObservation, PrepareReassessment, ViewQueue,
   LoadReviewItem, ReviewEvaluate, ApproveReview, RecordReview, StopReview, ReadForTransition,
   ApplyTransition, RefuseTransition, Abandon, LeaseExpires, LeaseOverruns, CustomerResponse,
   DeadlinePasses, caseVars, vars

\* At most one payment is attributed to a case, and an attributed case stays
\* RECOVERED.
THEOREM PaymentAttributedOnce == Spec => []AttributedOnce
<1>1. Init => AttributionInv
  BY DEF Init, AttributionInv
<1>2. TypeOK /\ TypeOK' /\ SnapshotFaithful /\ AttributionInv /\ [Next]_vars => AttributionInv'
  <2> SUFFICES ASSUME TypeOK, TypeOK', SnapshotFaithful, AttributionInv, [Next]_vars
               PROVE  AttributionInv'
    OBVIOUS
  <2>1. CASE ObservePayment
    BY <2>1 DEF ObservePayment, MoveCase, AttributionInv, Terminal
  <2>2. CASE UNCHANGED attributed
    <3>1. caseState = "RECOVERED" => caseState' = "RECOVERED"
      BY TerminalStep, NextCase, StepRefines DEF Terminal
    <3> QED BY <2>2, <3>1 DEF AttributionInv
  <2> QED BY <2>1, <2>2, AttributionChanges
<1>3. AttributionInv => AttributedOnce
  <2>1. attributed = {} => Cardinality(attributed) = 0
    BY FS_EmptySet
  <2>2. ASSUME NEW reference, attributed = {reference}
        PROVE  Cardinality(attributed) = 1
    BY <2>2, FS_Singleton
  <2>3. AttributionInv => Cardinality(attributed) = 0 \/ Cardinality(attributed) = 1
    BY <2>1, <2>2 DEF AttributionInv
  <2>4. 0 <= 1 /\ 1 <= 1
    OBVIOUS
  <2> QED BY <2>3, <2>4 DEF AttributionInv, AttributedOnce
<1> QED BY <1>1, <1>2, <1>3, TypeCorrect, SnapshotsAreFaithful, PTL DEF Spec
===========================================================================
