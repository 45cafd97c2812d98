------------------------- MODULE PromiseProperties -------------------------
(***************************************************************************)
(* What makes promises correct, stated over PromiseLifecycle.              *)
(***************************************************************************)
EXTENDS PromiseLifecycle, FiniteSets

Verdicts == {"FULFILLED", "BROKEN", "EXPIRED"}

Statuses == {"NONE", "ACTIVE", "CANCELLED"} \cup Verdicts
CheckStatuses == {"NONE", "PENDING", "CLAIMED", "COMPLETED", "CANCELLED"}

ResolverCalls ==
    {IdleResolver}
    \cup [pc : {"resolving", "locked"}, promise : Promises, forced : {"", "FULFILLED", "BROKEN", "CANCELLED"}]

ObserverCalls ==
    {IdleObserver}
    \cup [pc : {"fulfilling"}, promise : Promises, payment : Payments, answer : {""}]
    \cup [pc : {"answered"}, promise : Promises \cup {NoPromise}, payment : Payments,
          answer : {"attributed", "terminal", "nothing", "error"}]

\* Every variable keeps its type, and a call holds what its pc says it holds
\* (store/promises.go, store/attribution.go).
TypeOK ==
    /\ caseState \in CaseStates
    /\ executed \in BOOLEAN
    /\ deadlinePassed \in BOOLEAN
    /\ status \in [Promises -> Statuses]
    /\ due \subseteq Promises
    /\ check \in [Promises -> CheckStatuses]
    /\ leased \subseteq Promises
    /\ attributions \subseteq [payment : Payments, promise : Promises \cup {NoPromise}]
    /\ resolver \in [Resolvers -> ResolverCalls]
    /\ observer \in [Observers -> ObserverCalls]
    /\ failures \in 0..MaxFailures

\* An active promise always has an open check ahead of it, whoever cancels,
\* claims, dies or pays: no promise can be forgotten (CreatePromise,
\* resolvePromise and transitionPromise keep the two tables together).
ActiveIsChecked ==
    \A p \in Promises : status[p] = "ACTIVE" => check[p] \in {"PENDING", "CLAIMED"}

\* The attribution that names a promise and that promise's row agree for ever:
\* the promise was kept, and the due check that raced the payment has not
\* called it broken or expired; the case that was paid is recovered, and it
\* was paid once.
PaymentKeepsPromise ==
    \A a \in attributions :
        /\ a.promise # NoPromise => status[a.promise] = "FULFILLED"
        /\ caseState = "RECOVERED"
        /\ attributions = {a}

\* The promises of the case behave as PromiseContract says: one active at a
\* time, settled once and for ever (although AttributeRecovery reads its promise
\* without a lock and updates it by id alone), paid and kept in one step, and no
\* blame for a customer whose case is recovered.
Contract == INSTANCE PromiseContract WITH Simulated <- Presenters # {}
ContractSpec == Contract!Spec

-----------------------------------------------------------------------------
(* Liveness.                                                               *)

\* The worker polls every second: it finishes what it starts, and since it
\* takes the oldest open check and a claim hides a check for two minutes, no
\* due check is passed over for ever (strong fairness of the claim).  Row
\* locks are granted in the order they were asked for (strong fairness of the
\* resolver's steps).  A handler that observes a payment comes to an end, a
\* lease lapses with the clock, and a deadlock is detected.  Nothing is owed
\* by clients, presenters, payments or the rest of the system.
Fairness ==
    /\ \A p \in Promises : SF_vars(\E k \in Checkers : ClaimDuePromise(k, p))
    /\ \A k \in Resolvers : SF_vars(Resolve(k))
    /\ \A q \in Observers : SF_vars(FulfilPromise(q)) /\ WF_vars(TakeAnswer(q))
    /\ WF_vars(Aborting)
    /\ \A p \in Promises : WF_vars(LapseLease(p))

FairSpec == Spec /\ Fairness

\* Every active promise whose time has come is settled in the end, although
\* checkers die, leases lapse and transactions deadlock (RunDueCheck).
DuePromiseSettles ==
    \A p \in Promises : (p \in due /\ status[p] = "ACTIVE") ~> (status[p] # "ACTIVE")
============================================================================
