------------------------------ MODULE Outreach -------------------------------
(***************************************************************************)
(* One case over time: decisions taken by DecisionRules, work that waits   *)
(* for its hour, the worker's recheck at that hour, the executors and what *)
(* they leave at the provider, and the customer and merchant who change    *)
(* their minds meanwhile.  RecoveryWorkflow carries the concurrency of     *)
(* workers and writers; this module carries the clock and the data, with   *)
(* one worker and with a decision taken in one step.                       *)
(***************************************************************************)
EXTENDS DecisionRules

CONSTANTS
    Facts,        \* what a case and its customer may look like
    Merchants,    \* the merchant's settings, one record per policy version
    Levels,       \* predicted recovery probabilities, in Scale-ths
    MaxAttempts,  \* scheduled_actions.max_attempts
    MaxRows,      \* bound: schedules of the case
    MaxTime,      \* bound: the clock stops here
    MaxPolicies,  \* bound: new versions of the merchant's policy
    NoTime        \* an instant that has not come

ASSUME LimitsAssumption ==
    /\ MaxAttempts \in Nat \ {0} /\ MaxRows \in Nat /\ MaxTime \in Nat
    /\ MaxPolicies \in Nat /\ NoTime \notin Nat

\* Amounts and probabilities are integers (minor units, Scale-ths, percent).
ASSUME FactsAssumption ==
    /\ Levels \subseteq Int
    /\ \A f \in Facts : f.amount \in Int /\ f.natural \in Int /\ f.fatigue \in Int

\* The columns of the limits are CHECKed to be at least 0
\* (infra/migrations/000002_recovery_domain.up.sql).
ASSUME MerchantsAssumption ==
    /\ IsFiniteSet(Merchants)
    /\ \A m \in Merchants : {m.maxRetries, m.maxPerDay, m.maxPerWeek} \subseteq Nat

Rows == 1 .. MaxRows

VARIABLES
    now,         \* the clock
    caseState,   \* recovery_cases.current_state
    facts,       \* the case's and the customer's unchanging data
    merchant,    \* the latest merchant_policies row, with its profile
    policies,    \* how many versions followed the first
    optedOutAt,  \* when customers.opted_out was set
    promisedAt,  \* since when a promise is ACTIVE
    pending,     \* the candidate of the decision under review
    rows,        \* recovery_actions with their scheduled_actions
    work         \* the worker: its row, where it is, the executor's answer

customerVars == <<optedOutAt, promisedAt>>
merchantVars == <<merchant, policies>>
vars == <<now, caseState, facts, merchantVars, customerVars, pending, rows, work>>

Terminal == {"RECOVERED", "EXHAUSTED", "STOPPED"}

NoRow == [type |-> "NONE", at |-> NoTime, due |-> NoTime, status |-> "NONE",
          recorded |-> "NONE", attempt |-> 0, human |-> FALSE, nerv |-> 0,
          sentAt |-> NoTime, links |-> 0, saved |-> FALSE]

NoWork == [row |-> 0, label |-> "idle", result |-> "NONE"]
NoCandidate == [action |-> "NONE", nerv |-> 0]

Init ==
    /\ now = 0 /\ caseState = "ACTION_PENDING"
    /\ facts \in Facts /\ merchant \in Merchants /\ policies = 0
    /\ optedOutAt = NoTime /\ promisedAt = NoTime
    /\ pending = NoCandidate
    /\ rows = [i \in Rows |-> NoRow]
    /\ work = NoWork

-----------------------------------------------------------------------------
(* The decision context.                                                    *)

Dated(past) == [i \in past |-> [type |-> rows[i].type, at |-> rows[i].at]]

\* Mutant of History: a failed action is not part of it.
History_Executed == Dated({i \in Rows : rows[i].recorded = "EXECUTED"})

\* recovery_actions of the case that are not SCHEDULED, dated by created_at.
History == Dated({i \in Rows : rows[i].recorded \in {"EXECUTED", "FAILED"}})

Context ==
    [leak |-> facts.leak, category |-> facts.category, amount |-> facts.amount,
     natural |-> facts.natural, fatigue |-> facts.fatigue, mandate |-> facts.mandate,
     deadline |-> facts.deadline, cancelled |-> facts.cancelled,
     recovered |-> caseState = "RECOVERED", terminal |-> caseState \in Terminal,
     optedOut |-> optedOutAt # NoTime, promised |-> promisedAt # NoTime,
     available |-> merchant.available, recent |-> History, at |-> now,
     merchant |-> merchant]

\* What Service.Evaluate may answer, by what the predictors say.
Evaluations ==
    LET ctx == Context
        Judged(c) == LET g == Gate(c, merchant.threshold)
                     IN [candidate |-> c, gate |-> g, policy |-> PolicyDecision(ctx, c, g, now),
                         denials |-> DenyReasons(ctx, c, g, now)]
    IN {Judged(c) : c \in UNION {Selected(ctx, predicted) :
                                  predicted \in [EligibleActions(ctx) \cap Scoreable -> Levels]}}

-----------------------------------------------------------------------------
(* Decisions.                                                               *)

Free(i) == rows[i].status = "NONE" /\ \A j \in Rows : rows[j].status = "NONE" => i <= j

\* A row for the selected action; RETRY_LATER is due a day later.
Schedule(candidate, human) ==
    \E i \in Rows :
       /\ Free(i)
       /\ rows' = [rows EXCEPT ![i] =
             [NoRow EXCEPT !.type = candidate.action, !.at = now, !.status = "PENDING",
                           !.due = IF candidate.action = "RETRY_LATER" THEN now + DayLength ELSE now,
                           !.recorded = "SCHEDULED", !.human = human, !.nerv = candidate.nerv]]

Decide ==
    /\ caseState = "ACTION_PENDING"
    /\ \E e \in Evaluations :
          \/ /\ e.policy = "STOP" /\ caseState' = "STOPPED"
             /\ UNCHANGED <<pending, rows>>
          \/ /\ e.policy = "ESCALATE" /\ caseState' = "ESCALATED"
             /\ pending' = [action |-> e.candidate.action, nerv |-> e.candidate.nerv]
             /\ UNCHANGED rows
          \/ /\ e.policy = "APPROVE" /\ e.candidate.action # "WAIT"
             /\ caseState' = "SCHEDULED"
             /\ Schedule(e.candidate, FALSE) /\ UNCHANGED pending
    /\ UNCHANGED <<now, facts, merchantVars, customerVars, work>>

\* Review with APPROVE: the stored candidate and its stored gate, which let
\* the decision escalate, under a fresh context.  A stale approval, a denial
\* and the other answers are RecoveryWorkflow's.
ApproveReview ==
    /\ caseState = "ESCALATED" /\ facts.deadline > now
    /\ PolicyDecision(Context, pending, "ALLOW", now) \in {"APPROVE", "ESCALATE"}
    /\ caseState' = "SCHEDULED"
    /\ Schedule(pending, TRUE)
    /\ pending' = NoCandidate
    /\ UNCHANGED <<now, facts, merchantVars, customerVars, work>>

-----------------------------------------------------------------------------
(* The worker.                                                              *)

Live(i) == rows[i].status \in {"PENDING", "CLAIMED", "EXECUTING", "RETRY_PENDING"}

\* Mutant of Authorized: the worker relies on the policy result of the decision.
Authorized_NoRecheck(i) == caseState # "RECOVERED"

\* The recheck of RunOnce.  Only a payment moves a case away from a live
\* row here, so the version comparison comes down to RECOVERED.
Authorized(i) ==
    LET candidate == [action |-> rows[i].type, nerv |-> rows[i].nerv]
        policy    == PolicyDecision(Context, candidate, "ALLOW", now)
    IN /\ caseState # "RECOVERED"
       /\ policy = "APPROVE" \/ (policy = "ESCALATE" /\ rows[i].human)

\* ClaimDue, at or after the row's time, and the recheck.
Claim ==
    /\ work = NoWork
    /\ \E i \in Rows :
          /\ Live(i) /\ rows[i].due <= now
          /\ IF Authorized(i)
             THEN /\ work' = [NoWork EXCEPT !.row = i, !.label = "authorized"]
                  /\ rows' = [rows EXCEPT ![i].status = "CLAIMED", ![i].attempt = @ + 1]
             ELSE /\ work' = NoWork
                  /\ rows' = [rows EXCEPT ![i].status = "SUPERSEDED", ![i].attempt = @ + 1]
    /\ UNCHANGED <<now, caseState, facts, merchantVars, customerVars, pending>>

\* The executor answers; sent says whether the customer or the provider was
\* reached, whatever the answer is.
Answer(i, result, sent, links, saved) ==
    /\ work' = [work EXCEPT !.label = "answered", !.result = result]
    /\ rows' = [rows EXCEPT ![i].status = "EXECUTING", ![i].links = links, ![i].saved = saved,
                   ![i].sentAt = IF sent /\ @ = NoTime THEN now ELSE @]

\* Mutant of ReusedLink: the stored reference is not looked up first.
ReusedLink_NoLookup(i) == FALSE

\* GetPaymentLink finds the reference that an earlier attempt stored.
ReusedLink(i) == rows[i].saved

\* PaymentLinkExecutor: the stored link, or a new one.  The new link may
\* exist although its creation timed out or its reference could not be
\* stored; client errors of the provider are permanent, all others are not.
PaymentLink(i) ==
    LET r == rows[i] IN
    \/ /\ ReusedLink(i)
       /\ \E result \in {"SUCCEEDED", "RETRYABLE"} : Answer(i, result, TRUE, r.links, TRUE)
    \/ /\ ~ReusedLink(i)
       /\ \/ Answer(i, "SUCCEEDED", TRUE, r.links + 1, TRUE)
          \/ Answer(i, "RETRYABLE", TRUE, r.links + 1, r.saved)
          \/ Answer(i, "RETRYABLE", FALSE, r.links, r.saved)
          \/ Answer(i, "PERMANENT", FALSE, r.links, r.saved)

\* CaptureEmail and RequestRetry insert by idempotency key; every error is
\* retryable, also one that comes after the insert.
Capture(i) ==
    \/ Answer(i, "SUCCEEDED", TRUE, 0, FALSE)
    \/ \E sent \in BOOLEAN : Answer(i, "RETRYABLE", sent, 0, FALSE)

\* No executor supports WAIT, which a person may have approved.
Unsupported(i) == Answer(i, "PERMANENT", FALSE, 0, FALSE)

\* MarkExecuting, then Registry.Reconcile or Registry.Execute.
Execute ==
    /\ work.label = "authorized"
    /\ CASE rows[work.row].type = "SEND_PAYMENT_LINK" -> PaymentLink(work.row)
         [] rows[work.row].type = "WAIT" -> Unsupported(work.row)
         [] OTHER -> Capture(work.row)
    /\ caseState' = IF caseState = "SCHEDULED" THEN "EXECUTING" ELSE caseState
    /\ UNCHANGED <<now, facts, merchantVars, customerVars, pending>>

\* CompleteExecution: another attempt, the wait for an outcome, or failure.
Complete ==
    LET i == work.row
        again == work.result = "RETRYABLE" /\ rows[i].attempt < MaxAttempts
        done == work.result = "SUCCEEDED"
    IN
    /\ work.label = "answered"
    /\ rows' = [rows EXCEPT
          ![i].status = IF again THEN "RETRY_PENDING" ELSE IF done THEN "OBSERVATION_PENDING" ELSE "FAILED",
          ![i].recorded = IF again THEN @ ELSE IF done THEN "EXECUTED" ELSE "FAILED",
          ![i].due = IF done THEN now + DayLength ELSE @]
    /\ caseState' = IF again \/ caseState # "EXECUTING" THEN caseState
                    ELSE IF done THEN "WAITING_OUTCOME" ELSE "ACTION_PENDING"
    /\ work' = NoWork
    /\ UNCHANGED <<now, facts, merchantVars, customerVars, pending>>

\* The worker dies after the answer, or CompleteExecution fails: the row stays
\* EXECUTING and is claimed again.  (Bounds: once a row, and only after a
\* success; after a failure it is like another retryable answer.)
Crash ==
    /\ work.label = "answered" /\ work.result = "SUCCEEDED" /\ rows[work.row].attempt < MaxAttempts
    /\ work' = NoWork
    /\ UNCHANGED <<now, caseState, facts, merchantVars, customerVars, pending, rows>>

\* RunObservationOnce, up to the decision that follows it.
Observe ==
    /\ work = NoWork
    /\ \E i \in Rows :
          /\ rows[i].status = "OBSERVATION_PENDING" /\ rows[i].due <= now
          /\ rows' = [rows EXCEPT ![i].status = "OBSERVED"]
    /\ caseState' = IF caseState # "WAITING_OUTCOME" THEN caseState
                    ELSE IF facts.deadline > now THEN "ACTION_PENDING" ELSE "EXHAUSTED"
    /\ UNCHANGED <<now, facts, merchantVars, customerVars, pending, work>>

-----------------------------------------------------------------------------
(* The customer, the merchant and the clock.                                *)

Reopened == IF caseState = "WAITING_OUTCOME" THEN "ACTION_PENDING" ELSE caseState

\* A response that is neither an acknowledgement nor a promise; OPT_OUT also
\* marks the customer.  (Bounds: what comes to a closed case is left out, and
\* a customer who has opted out makes no promise, nor the other way round.)
Respond ==
    /\ caseState \notin Terminal
    /\ optedOutAt' \in (IF optedOutAt = NoTime /\ promisedAt = NoTime THEN {NoTime, now} ELSE {optedOutAt})
    /\ caseState' = Reopened
    /\ UNCHANGED <<now, facts, merchantVars, promisedAt, pending, rows, work>>

PromiseMade ==
    /\ caseState \notin Terminal
    /\ optedOutAt = NoTime /\ promisedAt = NoTime /\ promisedAt' = now
    /\ UNCHANGED <<now, caseState, facts, merchantVars, optedOutAt, pending, rows, work>>

\* A broken promise reopens a waiting or escalated case.
PromiseEnds ==
    /\ promisedAt # NoTime /\ promisedAt' = NoTime
    /\ \/ UNCHANGED <<caseState, pending>>
       \/ /\ caseState \in {"WAITING_OUTCOME", "ESCALATED"}
          /\ caseState' = "ACTION_PENDING" /\ pending' = NoCandidate
    /\ UNCHANGED <<now, facts, merchantVars, optedOutAt, rows, work>>

Payment ==
    /\ caseState \notin Terminal
    /\ caseState' = "RECOVERED" /\ promisedAt' = NoTime /\ pending' = NoCandidate
    /\ UNCHANGED <<now, facts, merchantVars, optedOutAt, rows, work>>

ChangePolicy ==
    /\ policies < MaxPolicies /\ policies' = policies + 1
    /\ merchant' \in Merchants \ {merchant}
    /\ UNCHANGED <<now, caseState, facts, customerVars, pending, rows, work>>

\* A worker's lease is short against a tick.  (Bound: the clock stops with
\* the case.)
Tick ==
    /\ now < MaxTime /\ now' = now + 1
    /\ work = NoWork /\ caseState \notin Terminal
    /\ UNCHANGED <<caseState, facts, merchantVars, customerVars, pending, rows, work>>

-----------------------------------------------------------------------------
Next ==
    \/ Decide \/ ApproveReview
    \/ Claim \/ Execute \/ Complete \/ Crash \/ Observe
    \/ Respond \/ PromiseMade \/ PromiseEnds \/ Payment
    \/ ChangePolicy \/ Tick

Spec == Init /\ [][Next]_vars
=============================================================================
