------------------------ MODULE RecoveryProperties ------------------------
(***************************************************************************)
(* What RecoveryWorkflow is expected to guarantee: invariants, action      *)
(* properties, the refinement of CaseLifecycle and the liveness of durable *)
(* work.  The last section states what the repository's documents claim    *)
(* and the code does not do.                                               *)
(***************************************************************************)
EXTENDS RecoveryWorkflow

ClientLabels == {"prepared", "evaluated", "viewed", "item", "reviewed", "read"}

\* A worker in one of these holds a row for execution; "executing" and
\* "executed" surround the external call.
ExecutionLabels == {"claimed", "suppress", "authorized", "executing", "executed"}

Labels == {"idle", "reassess", "observing"} \cup ClientLabels \cup ExecutionLabels

Results == {"NONE", "SUCCEEDED", "RETRYABLE", "PERMANENT"}

RowType == [status : RowStatuses, attempt : Nat, version : Nat, leased : BOOLEAN,
            decision : Decisions \cup {NoDecision}, human : BOOLEAN, reference : BOOLEAN]

ExecutionType == [row : Rows, attempt : Nat, status : {"SUCCEEDED", "FAILED"}]

JobType == [row : Rows \cup {0}, attempt : Nat, version : Nat]

SnapType == [state : CaseStates, version : Nat, decision : Decisions \cup {NoDecision},
             policy : PolicyResults \cup {"NONE"}, raced : BOOLEAN]

CaseTypeOK ==
    /\ caseState \in CaseStates /\ version \in Nat \ {0}
    /\ deadlinePassed \in BOOLEAN /\ attributed \subseteq Payments

TableTypeOK ==
    /\ sched \in [Rows -> RowType]
    /\ executions \subseteq ExecutionType
    /\ lastDecision \in Decisions \cup {NoDecision}

LocalTypeOK ==
    /\ pc \in [Procs -> Labels] /\ job \in [Procs -> JobType]
    /\ snap \in [Procs -> SnapType] /\ result \in [Procs -> Results]

BudgetTypeOK == crashes \in Nat /\ overruns \in Nat

\* What a handler that has come this far has in its hands.
HandlersOK ==
    \A p \in Procs :
       /\ pc[p] \in ExecutionLabels \cup {"observing"} => job[p].row \in Rows
       /\ pc[p] = "evaluated" => snap[p].decision \in Decisions
       /\ pc[p] = "executed" => result[p] # "NONE"

\* Every column and local copy holds a value of its type, and a handler that is
\* past a claim, an evaluation or an execution holds what the next step needs.
TypeOK ==
    /\ CaseTypeOK /\ TableTypeOK /\ LocalTypeOK /\ BudgetTypeOK
    /\ HandlersOK

-----------------------------------------------------------------------------
(* Safety.                                                                  *)

\* A case state that a handler read earlier is still the case's state as long
\* as the version it read is current.  This is what makes the version
\* compare-and-set of the transition API and of human approvals sound although
\* the state was checked outside the transaction: it fails as soon as one of
\* the many writers of recovery_cases changes the state without the version.
SnapshotFaithful ==
    \A p \in Procs :
       /\ snap[p].version <= version
       /\ snap[p].version = version => snap[p].state = caseState

\* A case that is RECOVERED, EXHAUSTED or STOPPED is never written again, by
\* any worker, late result, decision, review or transition.
TerminalAbsorbing == [][(caseState \in Terminal) => UNCHANGED <<caseState, version>>]_vars

\* Of the rows of a case at most one carries the case's current version, and
\* then the case is SCHEDULED or EXECUTING: the worker's version comparison
\* lets at most one schedule of a case pass, never two and never an old one,
\* although rows outlive the state they were scheduled in.
FreshRow ==
    \A s \in Rows : sched[s].version = version =>
       /\ caseState \in {"SCHEDULED", "EXECUTING"}
       /\ \A t \in Rows \ {s} : sched[t].version # version

\* No two workers hold the same attempt of the same row, and an attempt in
\* flight has no execution row yet: ON CONFLICT DO NOTHING never drops the
\* result of an attempt, although leases lapse under live workers.
InFlight(w) == pc[w] \in ExecutionLabels

AttemptFencing ==
    \A w \in Workers : InFlight(w) =>
       /\ job[w].attempt <= sched[job[w].row].attempt
       /\ \A e \in executions : e.row = job[w].row => e.attempt # job[w].attempt
       /\ \A v \in Workers \ {w} : InFlight(v) /\ job[v].row = job[w].row =>
             job[v].attempt # job[w].attempt

\* The executions table explains every row's status: what waits for its
\* outcome, or has been observed, has a recorded success; what is to be
\* retried or has failed has a recorded failure.
RowEvidence ==
    \A s \in Rows :
       /\ Watching(s) \/ sched[s].status = "OBSERVED" =>
             \E e \in executions : e.row = s /\ e.status = "SUCCEEDED"
       /\ sched[s].status \in {"RETRY_PENDING", "FAILED"} =>
             \E e \in executions : e.row = s /\ e.status = "FAILED"

\* Work is scheduled only on an allowed gate, and either policy approved an
\* action a worker can execute or a person approved the decision.
AuthorisedWork ==
    \A s \in Rows : sched[s].status # "NONE" =>
       /\ sched[s].decision.gate = "ALLOW"
       /\ sched[s].human \/ (sched[s].decision.policy = "APPROVE" /\ sched[s].decision.action = "ACT")

\* At most one payment is attributed to a case, and a case with an attributed
\* payment is and stays RECOVERED.
AttributedOnce ==
    /\ Cardinality(attributed) <= 1
    /\ attributed # {} => caseState = "RECOVERED"

\* While a case waits for an outcome some row will bring it back: the wait
\* that an execution started has a pending or claimed observation.
WaitIsObserved == caseState = "WAITING_OUTCOME" => \E s \in Rows : Watching(s)

-----------------------------------------------------------------------------
(* Refinement: whatever the processes do, the case row behaves as           *)
(* CaseLifecycle allows.                                                    *)

Case == INSTANCE CaseLifecycle

\* The case row only moves along the transition table, one version per edge,
\* except that a payment recovers any live case.
CaseSpec == Case!Spec

-----------------------------------------------------------------------------
(* Liveness, under FairSpec.                                                *)

\* Durable work is never lost: a row that asks for an execution ends
\* executed, failed or superseded, whatever crashes and lapsed leases occur.
WorkSettles == \A s \in Rows : Live(s) ~> ~Live(s)

\* A wait for an outcome ends, by payment, response or observation.
WaitEnds == caseState = "WAITING_OUTCOME" ~> caseState # "WAITING_OUTCOME"

-----------------------------------------------------------------------------
(* Claims of the documents that the code does not keep; each is the one     *)
(* property of a run that expects a violation.                              *)

\* RECOVEROS_ARCHITECTURE_REPORT.md: "Version mismatch suppresses execution
\* before the provider call": a row goes on to the provider only while it
\* carries the case's version.
ExecutesFreshWork ==
    [][\A w \in Workers : pc[w] = "authorized" /\ pc'[w] = "executing" =>
          sched[job[w].row].version = version]_vars

\* README.md: a case may pause, "return for reassessment, or terminate";
\* RECOVEROS_ARCHITECTURE_REPORT.md: "final failure -> REASSESSING ->
\* ACTION_PENDING -> fresh decision".  A row that ends without an outcome is
\* followed by a decision on the case as it is then, by other work, or by the
\* end of the case.
Followed ==
    \/ caseState \in Terminal
    \/ lastDecision.version = version
    \/ \E s \in Rows : Live(s) \/ Watching(s)

ClosedWorkIsFollowed == \A s \in Rows : sched[s].status \in {"FAILED", "SUPERSEDED"} ~> Followed
===========================================================================
