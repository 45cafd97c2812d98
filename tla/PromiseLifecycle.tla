-------------------------- MODULE PromiseLifecycle --------------------------
(***************************************************************************)
(* The promises to pay of one recovery case: their rows in                 *)
(* promises_to_pay, the due checks in promise_checks, and the transactions *)
(* that meet on them -- creation and cancellation by clients, the due      *)
(* check of the worker, the outcome forced by the demonstration, and the   *)
(* attribution of a payment.                                               *)
(*                                                                         *)
(* Transactions are modelled at the grain of their row locks.  A check, a  *)
(* forced outcome and a cancellation lock the promise and then the case;   *)
(* an attribution locks the case, reads the promise without a lock and     *)
(* later updates it.  The lock on the case is FOR UPDATE, or, where only a *)
(* row that refers to the case is inserted, the FOR KEY SHARE lock of the  *)
(* foreign key, which waits for FOR UPDATE as well.  A transaction waits   *)
(* for a lock by not being enabled; what it does from its last lock to its *)
(* commit is one step.  Two transactions that wait for each other are      *)
(* resolved as PostgreSQL does it, by aborting either.                     *)
(*                                                                         *)
(* The other writers of the case row (module RecoveryWorkflow) appear as   *)
(* MoveCase: they follow the transition table, and a case that waits for   *)
(* its outcome has an execution that succeeded.                            *)
(***************************************************************************)
EXTENDS CaseStateMachine, Naturals

CONSTANTS
    Promises,       \* identities of the rows of promises_to_pay
    Payments,       \* payment references
    Checkers,       \* promise workers
    Presenters,     \* callers of the demonstration's outcome endpoint
    Cancellers,     \* clients that cancel promises
    Observers,      \* handlers that attribute payments
    MaxFailures,    \* bound: transactions lost to errors and crashes
    NoPromise, NoPayment

ASSUME PromiseAssumption ==
    /\ NoPromise \notin Promises
    /\ NoPayment \notin Payments
    /\ MaxFailures \in Nat

VARIABLES
    caseState,      \* recovery_cases.current_state
    executed,       \* some execution of the case has succeeded
    deadlinePassed, \* recovery_deadline <= now
    status,         \* promises_to_pay.status, "NONE" before the insert
    due,            \* the promises whose due_at has passed
    check,          \* promise_checks.status
    leased,         \* the checks whose lease_expires_at lies ahead
    attributions,   \* rows of recovery_attributions: payment and promise_id
    resolver,       \* a call of resolvePromise or CancelPromise: pc, promise, forced outcome
    observer,       \* a call of AttributeRecovery: pc, promise, payment, answer
    failures        \* number of failures so far

caseVars == <<caseState, executed, deadlinePassed>>
promiseVars == <<status, due>>
checkVars == <<check, leased>>
vars == <<caseVars, promiseVars, checkVars, attributions, resolver, observer, failures>>

Resolvers == Checkers \cup Presenters \cup Cancellers

IdleResolver == [pc |-> "idle", promise |-> NoPromise, forced |-> ""]
IdleObserver == [pc |-> "idle", promise |-> NoPromise, payment |-> NoPayment, answer |-> ""]

Init ==
    /\ caseState = "DETECTED"
    /\ executed = FALSE
    /\ deadlinePassed = FALSE
    /\ status = [p \in Promises |-> "NONE"]
    /\ due = {}
    /\ check = [p \in Promises |-> "NONE"]
    /\ leased = {}
    /\ attributions = {}
    /\ resolver = [k \in Resolvers |-> IdleResolver]
    /\ observer = [q \in Observers |-> IdleObserver]
    /\ failures = 0

-----------------------------------------------------------------------------
(* Row locks.  Only an attribution holds the case across steps, and only a *)
(* resolver holds a promise.                                               *)

CaseLocked == \E q \in Observers : observer[q].pc = "fulfilling"

PromiseLocked(p) ==
    \E k \in Resolvers : resolver[k].pc = "locked" /\ resolver[k].promise = p

-----------------------------------------------------------------------------
(* Clients.                                                                *)

\* Mutant: the due check is left to somebody else.
CreatePromise_NoCheck(p) ==
    /\ ~CaseLocked
    /\ status[p] = "NONE"
    /\ \A r \in Promises : status[r] # "ACTIVE"
    /\ status' = [status EXCEPT ![p] = "ACTIVE"]
    /\ UNCHANGED <<caseVars, due, checkVars, attributions, resolver, observer, failures>>

\* CreatePromise, called by the API or for a PROMISE_TO_PAY response: the
\* index one_active_promise_per_case_idx refuses a second active promise;
\* the state of the case is not consulted.
CreatePromise(p) ==
    /\ ~CaseLocked
    /\ status[p] = "NONE"
    /\ \A r \in Promises : status[r] # "ACTIVE"
    /\ status' = [status EXCEPT ![p] = "ACTIVE"]
    /\ check' = [check EXCEPT ![p] = "PENDING"]
    /\ UNCHANGED <<caseVars, due, leased, attributions, resolver, observer, failures>>

-----------------------------------------------------------------------------
(* Due checks, forced outcomes and cancellations.                          *)

\* Mutant: a claimed check is never claimed again.
ClaimDuePromise_NoReclaim(k, p) ==
    /\ resolver[k].pc = "idle"
    /\ p \in due
    /\ check[p] = "PENDING"
    /\ check' = [check EXCEPT ![p] = "CLAIMED"]
    /\ leased' = leased \cup {p}
    /\ resolver' = [resolver EXCEPT ![k] = [pc |-> "resolving", promise |-> p, forced |-> ""]]
    /\ UNCHANGED <<caseVars, promiseVars, attributions, observer, failures>>

\* ClaimDuePromise: an open check that is due, unless somebody's lease on it
\* is still good.
ClaimDuePromise(k, p) ==
    /\ resolver[k].pc = "idle"
    /\ p \in due
    /\ check[p] = "PENDING" \/ (check[p] = "CLAIMED" /\ p \notin leased)
    /\ check' = [check EXCEPT ![p] = "CLAIMED"]
    /\ leased' = leased \cup {p}
    /\ resolver' = [resolver EXCEPT ![k] = [pc |-> "resolving", promise |-> p, forced |-> ""]]
    /\ UNCHANGED <<caseVars, promiseVars, attributions, observer, failures>>

\* A client names a promise and the status it shall get.
AskOutcome(k, p, outcome) ==
    /\ resolver[k].pc = "idle"
    /\ status[p] # "NONE"
    /\ resolver' = [resolver EXCEPT ![k] = [pc |-> "resolving", promise |-> p, forced |-> outcome]]
    /\ UNCHANGED <<caseVars, promiseVars, checkVars, attributions, observer, failures>>

\* Mutant: the status that was read with the claim is trusted.
LockPromise_StaleRead(k) ==
    /\ resolver[k].pc = "resolving"
    /\ ~PromiseLocked(resolver[k].promise)
    /\ resolver' = [resolver EXCEPT ![k].pc = "locked"]
    /\ UNCHANGED <<caseVars, promiseVars, checkVars, attributions, observer, failures>>

\* resolvePromise and transitionPromise, first lock: the promise is read
\* under it.
LockPromise(k) ==
    /\ resolver[k].pc = "resolving"
    /\ ~PromiseLocked(resolver[k].promise)
    /\ status[resolver[k].promise] = "ACTIVE"
    /\ resolver' = [resolver EXCEPT ![k].pc = "locked"]
    /\ UNCHANGED <<caseVars, promiseVars, checkVars, attributions, observer, failures>>

\* ErrConflict: the promise was settled before.  Its check stays as it is.
RefuseSettled(k) ==
    /\ resolver[k].pc = "resolving"
    /\ ~PromiseLocked(resolver[k].promise)
    /\ status[resolver[k].promise] # "ACTIVE"
    /\ resolver' = [resolver EXCEPT ![k] = IdleResolver]
    /\ UNCHANGED <<caseVars, promiseVars, checkVars, attributions, observer, failures>>

\* The outcome of a check: what was forced, or what the case says.
Outcome(forced) ==
    IF forced # "" THEN forced
    ELSE IF caseState = "RECOVERED" THEN "FULFILLED"
    ELSE IF deadlinePassed THEN "EXPIRED" ELSE "BROKEN"

\* The case after an outcome: a broken promise ends its waiting by way of
\* REASSESSING.
AfterOutcome(outcome) ==
    IF outcome = "BROKEN" /\ caseState \in {"WAITING_OUTCOME", "ESCALATED"}
    THEN "ACTION_PENDING" ELSE caseState

\* Mutant: the check takes the promise's status instead of its own.
ResolvePromise_ResultAsStatus(k) ==
    LET p == resolver[k].promise
        outcome == Outcome(resolver[k].forced)
    IN  /\ resolver[k].pc = "locked" /\ resolver[k].forced # "CANCELLED"
        /\ ~CaseLocked
        /\ status' = [status EXCEPT ![p] = outcome]
        /\ check' = [check EXCEPT ![p] = outcome]
        /\ leased' = leased \ {p}
        /\ caseState' = AfterOutcome(outcome)
        /\ resolver' = [resolver EXCEPT ![k] = IdleResolver]
        /\ UNCHANGED <<executed, deadlinePassed, due, attributions, observer, failures>>

\* resolvePromise from the lock on the case to the commit.  The decision
\* that follows a broken promise is a step of RecoveryWorkflow.
ResolvePromise(k) ==
    LET p == resolver[k].promise
        outcome == Outcome(resolver[k].forced)
    IN  /\ resolver[k].pc = "locked" /\ resolver[k].forced # "CANCELLED"
        /\ ~CaseLocked
        /\ status' = [status EXCEPT ![p] = outcome]
        /\ check' = [check EXCEPT ![p] = "COMPLETED"]
        /\ leased' = leased \ {p}
        /\ caseState' = AfterOutcome(outcome)
        /\ resolver' = [resolver EXCEPT ![k] = IdleResolver]
        /\ UNCHANGED <<executed, deadlinePassed, due, attributions, observer, failures>>

\* What a cancellation writes: the promise's open check goes with it.
Cancel(k) ==
    LET p == resolver[k].promise
    IN  /\ resolver[k].pc = "locked" /\ resolver[k].forced = "CANCELLED"
        /\ status' = [status EXCEPT ![p] = "CANCELLED"]
        /\ check' = [check EXCEPT ![p] = IF @ \in {"PENDING", "CLAIMED"} THEN "CANCELLED" ELSE @]
        /\ resolver' = [resolver EXCEPT ![k] = IdleResolver]
        /\ UNCHANGED <<caseVars, due, leased, attributions, observer, failures>>

\* Mutant: the rows that a cancellation inserts do not refer to the case.
CancelPromise_NoForeignKey(k) == Cancel(k)

\* transitionPromise: it never locks the case itself, but its insert into
\* promise_events waits for whoever has locked the case FOR UPDATE.
CancelPromise(k) == Cancel(k) /\ ~CaseLocked

-----------------------------------------------------------------------------
(* AttributeRecovery.                                                      *)

Answered(promise, payment, answer) ==
    [pc |-> "answered", promise |-> promise, payment |-> payment, answer |-> answer]

\* The promises in the window of the query for PTP evidence, whose width and
\* the time of the payment are data: any active or kept promise may match.
PromiseEvidence == {p \in Promises : status[p] \in {"ACTIVE", "FULFILLED"}}

\* A case that is over takes no payment.
RefusePayment(q, pay) ==
    /\ observer[q].pc = "idle"
    /\ ~CaseLocked
    /\ caseState \in Terminal
    /\ observer' = [observer EXCEPT ![q] = Answered(NoPromise, pay, "terminal")]
    /\ UNCHANGED <<caseVars, promiseVars, checkVars, attributions, resolver, failures>>

\* The payment was attributed before.  Returning its record instead is a branch
\* the code cannot reach: the attribution made the case terminal.
AttributedBefore(pay) == \E a \in attributions : a.payment = pay

\* An execution carries the payment's reference and a promise matches too:
\* the test of the promise query's error returns, without an error, before
\* anything is written.
MeetOverlap(q, pay) ==
    /\ observer[q].pc = "idle"
    /\ executed
    /\ ~CaseLocked
    /\ caseState \notin Terminal
    /\ ~AttributedBefore(pay)
    /\ PromiseEvidence # {}
    /\ observer' = [observer EXCEPT ![q] = Answered(NoPromise, pay, "nothing")]
    /\ UNCHANGED <<caseVars, promiseVars, checkVars, attributions, resolver, failures>>

\* No promise is to be kept: other evidence, or a promise kept before.
AttributePayment(q, pay) ==
    /\ observer[q].pc = "idle"
    /\ ~CaseLocked
    /\ caseState \notin Terminal
    /\ ~AttributedBefore(pay)
    /\ \E p \in {NoPromise} \cup {r \in PromiseEvidence : status[r] = "FULFILLED"} :
          attributions' = attributions \cup {[payment |-> pay, promise |-> p]}
    /\ caseState' = "RECOVERED"
    /\ observer' = [observer EXCEPT ![q] = Answered(NoPromise, pay, "attributed")]
    /\ UNCHANGED <<executed, deadlinePassed, promiseVars, checkVars, resolver, failures>>

\* The payment matches an active promise, read without a lock; the case stays
\* locked until the promise can be updated.
MatchPromise(q, pay, p) ==
    /\ observer[q].pc = "idle"
    /\ ~CaseLocked
    /\ caseState \notin Terminal
    /\ ~AttributedBefore(pay)
    /\ status[p] = "ACTIVE"
    /\ observer' = [observer EXCEPT ![q] =
           [pc |-> "fulfilling", promise |-> p, payment |-> pay, answer |-> ""]]
    /\ UNCHANGED <<caseVars, promiseVars, checkVars, attributions, resolver, failures>>

\* The insert of the attribution, which refers to the promise and so waits for
\* its lock, to the commit.  transitionPromiseTx trusts the status read before
\* and names the promise by id alone.  Its check stays open.
FulfilPromise(q) ==
    LET p == observer[q].promise
        pay == observer[q].payment
    IN  /\ observer[q].pc = "fulfilling"
        /\ ~PromiseLocked(p)
        /\ status' = [status EXCEPT ![p] = "FULFILLED"]
        /\ attributions' = attributions \cup {[payment |-> pay, promise |-> p]}
        /\ caseState' = "RECOVERED"
        /\ observer' = [observer EXCEPT ![q] = Answered(p, pay, "attributed")]
        /\ UNCHANGED <<executed, deadlinePassed, due, checkVars, resolver, failures>>

\* The caller takes the answer.
TakeAnswer(q) ==
    /\ observer[q].pc = "answered"
    /\ observer' = [observer EXCEPT ![q] = IdleObserver]
    /\ UNCHANGED <<caseVars, promiseVars, checkVars, attributions, resolver, failures>>

-----------------------------------------------------------------------------
(* Failures.                                                               *)

\* PostgreSQL meets a resolver that waits for the case and an attribution that
\* waits for the promise, and aborts one of them.
Deadlocked(k, q) ==
    /\ resolver[k].pc = "locked"
    /\ observer[q].pc = "fulfilling"
    /\ observer[q].promise = resolver[k].promise

AbortResolver(k, q) ==
    /\ Deadlocked(k, q)
    /\ resolver' = [resolver EXCEPT ![k] = IdleResolver]
    /\ UNCHANGED <<caseVars, promiseVars, checkVars, attributions, observer, failures>>

AbortObserver(k, q) ==
    /\ Deadlocked(k, q)
    /\ observer' = [observer EXCEPT ![q] = Answered(NoPromise, @.payment, "error")]
    /\ UNCHANGED <<caseVars, promiseVars, checkVars, attributions, resolver, failures>>

\* A resolver dies or its transaction fails, before it has committed.
LoseResolver(k) ==
    /\ resolver[k].pc # "idle"
    /\ failures < MaxFailures
    /\ resolver' = [resolver EXCEPT ![k] = IdleResolver]
    /\ failures' = failures + 1
    /\ UNCHANGED <<caseVars, promiseVars, checkVars, attributions, observer>>

\* An attribution fails before it has committed (a query's error, or an event
\* sequence number taken by a writer that does not hold the case).
FailObserver(q, pay) ==
    /\ \/ observer[q].pc = "idle"
       \/ observer[q].pc = "fulfilling" /\ observer[q].payment = pay
    /\ failures < MaxFailures
    /\ observer' = [observer EXCEPT ![q] = Answered(NoPromise, pay, "error")]
    /\ failures' = failures + 1
    /\ UNCHANGED <<caseVars, promiseVars, checkVars, attributions, resolver>>

\* The caller of AttributeRecovery dies, before, in or after the call.
LoseObserver(q) ==
    /\ failures < MaxFailures
    /\ observer' = [observer EXCEPT ![q] = IdleObserver]
    /\ failures' = failures + 1
    /\ UNCHANGED <<caseVars, promiseVars, checkVars, attributions, resolver>>

-----------------------------------------------------------------------------
(* Time and the other writers of the case.                                 *)

FallDue(p) ==
    /\ status[p] # "NONE"
    /\ p \notin due
    /\ due' = due \cup {p}
    /\ UNCHANGED <<caseVars, status, checkVars, attributions, resolver, observer, failures>>

LapseLease(p) ==
    /\ p \in leased
    /\ leased' = leased \ {p}
    /\ UNCHANGED <<caseVars, promiseVars, check, attributions, resolver, observer, failures>>

PassDeadline ==
    /\ ~deadlinePassed
    /\ deadlinePassed' = TRUE
    /\ UNCHANGED <<caseState, executed, promiseVars, checkVars, attributions, resolver, observer, failures>>

MoveCase ==
    /\ ~CaseLocked
    /\ caseState' \in Transitions[caseState]
    /\ executed' = (executed \/ caseState' = "WAITING_OUTCOME")
    /\ UNCHANGED <<deadlinePassed, promiseVars, checkVars, attributions, resolver, observer, failures>>

-----------------------------------------------------------------------------

Clients == \E p \in Promises : CreatePromise(p)

Resolve(k) == LockPromise(k) \/ RefuseSettled(k) \/ ResolvePromise(k) \/ CancelPromise(k)

Resolving ==
    \/ \E k \in Checkers, p \in Promises : ClaimDuePromise(k, p)
    \/ \E k \in Presenters, p \in Promises, outcome \in {"FULFILLED", "BROKEN"} :
          AskOutcome(k, p, outcome)
    \/ \E k \in Cancellers, p \in Promises : AskOutcome(k, p, "CANCELLED")
    \/ \E k \in Resolvers : Resolve(k) \/ LoseResolver(k)

Aborting == \E k \in Resolvers, q \in Observers : AbortResolver(k, q) \/ AbortObserver(k, q)

\* What AttributeRecovery may do first for a payment.
Observe(q, pay) ==
    \/ RefusePayment(q, pay)
    \/ MeetOverlap(q, pay)
    \/ AttributePayment(q, pay)
    \/ \E p \in Promises : MatchPromise(q, pay, p)

Environment ==
    \/ \E p \in Promises : FallDue(p) \/ LapseLease(p)
    \/ PassDeadline
    \/ MoveCase

Next ==
    \/ Clients
    \/ Resolving
    \/ Aborting
    \/ \E q \in Observers :
          \/ \E pay \in Payments : Observe(q, pay) \/ FailObserver(q, pay)
          \/ FulfilPromise(q)
          \/ TakeAnswer(q)
          \/ LoseObserver(q)
    \/ Environment

Spec == Init /\ [][Next]_vars
=============================================================================
