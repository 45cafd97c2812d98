--------------------------- MODULE PromiseProofs ---------------------------
(***************************************************************************)
(* Proofs about PromiseLifecycle, for any number of promises, payments,    *)
(* checkers, presenters and observers.                                     *)
(*                                                                         *)
(* The inductive invariant says what the row locks are for: at most one    *)
(* attribution holds the case, the promise it waits to keep has stayed     *)
(* active since it was read, because whoever settles a promise needs the   *)
(* case too, and a resolver that holds a promise holds it alone, and       *)
(* active.                                                                 *)
(***************************************************************************)
EXTENDS PromiseProperties, TLAPS

Fulfilling(q) == observer[q].pc = "fulfilling"
Locks(k, p) == resolver[k].pc = "locked" /\ resolver[k].promise = p

CaseHeldOnce == \A q, r \in Observers : Fulfilling(q) /\ Fulfilling(r) => q = r

HeldCaseIsLive ==
    \A q \in Observers : Fulfilling(q) =>
        /\ caseState \notin Terminal
        /\ status[observer[q].promise] = "ACTIVE"

PromiseHeldOnce ==
    \A k, j \in Resolvers, p \in Promises : Locks(k, p) /\ Locks(j, p) => k = j

HeldPromiseIsActive ==
    \A k \in Resolvers, p \in Promises : Locks(k, p) => status[p] = "ACTIVE"

LockInv == CaseHeldOnce /\ HeldCaseIsLive /\ PromiseHeldOnce /\ HeldPromiseIsActive

OneActive ==
    \A p, r \in Promises : status[p] = "ACTIVE" /\ status[r] = "ACTIVE" => p = r

IInv == TypeOK /\ LockInv /\ OneActive /\ ActiveIsChecked /\ PaymentKeepsPromise

-----------------------------------------------------------------------------
(* Type correctness.                                                       *)

\* Losing a call counts as one of the permitted failures.
LEMMA FailureCounted ==
    ASSUME failures \in 0..MaxFailures, failures < MaxFailures
    PROVE  failures + 1 \in 0..MaxFailures
BY PromiseAssumption DEF PromiseAssumption

LEMMA IdleTyped == IdleResolver \in ResolverCalls /\ IdleObserver \in ObserverCalls
BY DEF ResolverCalls, ObserverCalls

LEMMA InitType == Init => TypeOK
<1> SUFFICES ASSUME Init PROVE TypeOK
  OBVIOUS
<1>1. failures \in 0..MaxFailures
  BY PromiseAssumption DEF PromiseAssumption, Init
<1>2. /\ resolver \in [Resolvers -> ResolverCalls]
      /\ observer \in [Observers -> ObserverCalls]
  BY DEF Init, ResolverCalls, ObserverCalls
<1>3. status \in [Promises -> Statuses] /\ check \in [Promises -> CheckStatuses]
  BY DEF Init, Statuses, CheckStatuses
<1> QED BY <1>1, <1>2, <1>3 DEF Init, TypeOK, CaseStates

\* What a call at each of its steps holds.
LEMMA ResolverHolds ==
    ASSUME TypeOK, NEW k \in Resolvers, resolver[k].pc # "idle"
    PROVE  /\ resolver[k].promise \in Promises
           /\ resolver[k].forced \in {"", "FULFILLED", "BROKEN", "CANCELLED"}
           /\ resolver[k].pc \in {"resolving", "locked"}
           /\ [resolver[k] EXCEPT !.pc = "locked"] \in ResolverCalls
           /\ [resolver[k] EXCEPT !.pc = "locked"].forced = resolver[k].forced
<1>0. resolver[k] \in ResolverCalls
  BY DEF TypeOK
<1>i. IdleResolver.pc = "idle"
  BY DEF IdleResolver
<1>1. resolver[k] # IdleResolver
  BY <1>i
<1>2. resolver[k] \in [pc : {"resolving", "locked"}, promise : Promises,
                      forced : {"", "FULFILLED", "BROKEN", "CANCELLED"}]
  BY <1>0, <1>1 DEF ResolverCalls
<1> QED BY <1>2 DEF ResolverCalls

LEMMA ObserverHolds ==
    ASSUME TypeOK, NEW q \in Observers, observer[q].pc = "fulfilling"
    PROVE  observer[q].promise \in Promises /\ observer[q].payment \in Payments
<1>0. observer[q] \in ObserverCalls
  BY DEF TypeOK
<1>i. IdleObserver.pc = "idle"
  BY DEF IdleObserver
<1>1. observer[q] # IdleObserver
  BY <1>i
<1>2. observer[q] \in [pc : {"fulfilling"}, promise : Promises, payment : Payments, answer : {""}]
  BY <1>0, <1>1 DEF ObserverCalls
<1> QED BY <1>2

LEMMA AnswersTyped ==
    ASSUME NEW p \in Promises \cup {NoPromise}, NEW pay \in Payments,
           NEW answer \in {"attributed", "terminal", "nothing", "error"}
    PROVE  Answered(p, pay, answer) \in ObserverCalls
BY DEF Answered, ObserverCalls

LEMMA ClientsType == TypeOK /\ Clients => TypeOK'
BY DEF Clients, TypeOK, CreatePromise, caseVars, Statuses, CheckStatuses

\* The outcome of a check and the state it leaves the case in.
LEMMA OutcomeType ==
    ASSUME TypeOK, NEW forced \in {"", "FULFILLED", "BROKEN"}
    PROVE  Outcome(forced) \in Verdicts /\ AfterOutcome(Outcome(forced)) \in CaseStates
BY DEF TypeOK, Outcome, AfterOutcome, Verdicts, CaseStates

LEMMA ResolvingType == TypeOK /\ Resolving => TypeOK'
<1> SUFFICES ASSUME TypeOK, Resolving
             PROVE  TypeOK'
  OBVIOUS
<1>1. ASSUME NEW k \in Checkers, NEW p \in Promises, ClaimDuePromise(k, p)
      PROVE  TypeOK'
  BY <1>1 DEF ClaimDuePromise, TypeOK, caseVars, promiseVars, Resolvers, ResolverCalls, CheckStatuses
<1>2. ASSUME NEW k \in Resolvers, NEW p \in Promises,
             NEW outcome \in {"FULFILLED", "BROKEN", "CANCELLED"}, AskOutcome(k, p, outcome)
      PROVE  TypeOK'
  BY <1>2 DEF AskOutcome, TypeOK, caseVars, promiseVars, checkVars, Resolvers, ResolverCalls
<1>3. ASSUME NEW k \in Resolvers, LockPromise(k)
      PROVE  TypeOK'
  <2>1. [resolver[k] EXCEPT !.pc = "locked"] \in ResolverCalls
    BY <1>3, ResolverHolds DEF LockPromise
  <2> QED BY <1>3, <2>1 DEF LockPromise, TypeOK, caseVars, promiseVars, checkVars
<1>4. ASSUME NEW k \in Resolvers, RefuseSettled(k) \/ LoseResolver(k)
      PROVE  TypeOK'
  BY <1>4, FailureCounted, IdleTyped
     DEF RefuseSettled, LoseResolver, TypeOK, caseVars, promiseVars, checkVars
<1>5. ASSUME NEW k \in Resolvers, ResolvePromise(k)
      PROVE  TypeOK'
  <2> DEFINE p == resolver[k].promise
             outcome == Outcome(resolver[k].forced)
  <2>1. p \in Promises /\ resolver[k].forced \in {"", "FULFILLED", "BROKEN"}
    BY <1>5, ResolverHolds DEF ResolvePromise
  <2>2. outcome \in Verdicts /\ AfterOutcome(outcome) \in CaseStates
    BY <2>1, OutcomeType
  <2>3. status' = [status EXCEPT ![p] = outcome] /\ caseState' = AfterOutcome(outcome)
    BY <1>5 DEF ResolvePromise
  <2> HIDE DEF outcome
  <2>4. status' \in [Promises -> Statuses] /\ caseState' \in CaseStates
    BY <2>2, <2>3 DEF TypeOK, Statuses
  <2>5. check' \in [Promises -> CheckStatuses] /\ leased' \subseteq Promises
    BY <1>5 DEF ResolvePromise, TypeOK, CheckStatuses
  <2>6. resolver' \in [Resolvers -> ResolverCalls]
    BY <1>5 DEF ResolvePromise, TypeOK, ResolverCalls
  <2> QED BY <1>5, <2>4, <2>5, <2>6 DEF ResolvePromise, TypeOK
<1>6. ASSUME NEW k \in Resolvers, CancelPromise(k)
      PROVE  TypeOK'
  BY <1>6, IdleTyped DEF CancelPromise, Cancel, TypeOK, caseVars, Statuses, CheckStatuses
<1> QED BY <1>1, <1>2, <1>3, <1>4, <1>5, <1>6 DEF Resolving, Resolve, Resolvers

LEMMA AbortingType == TypeOK /\ Aborting => TypeOK'
<1> SUFFICES ASSUME TypeOK, NEW k \in Resolvers, NEW q \in Observers,
                    AbortResolver(k, q) \/ AbortObserver(k, q)
             PROVE  TypeOK'
  BY DEF Aborting
<1>1. CASE AbortResolver(k, q)
  BY <1>1 DEF AbortResolver, TypeOK, caseVars, promiseVars, checkVars, ResolverCalls
<1>2. CASE AbortObserver(k, q)
  <2>1. Answered(NoPromise, observer[q].payment, "error") \in ObserverCalls
    BY <1>2, ObserverHolds, AnswersTyped DEF AbortObserver, Deadlocked
  <2> QED BY <1>2, <2>1 DEF AbortObserver, TypeOK, caseVars, promiseVars, checkVars
<1> QED BY <1>1, <1>2

LEMMA ObserveType ==
    ASSUME TypeOK, NEW q \in Observers, NEW pay \in Payments, Observe(q, pay)
    PROVE  TypeOK'
<1>1. CASE RefusePayment(q, pay)
  <2>1. Answered(NoPromise, pay, "terminal") \in ObserverCalls
    BY AnswersTyped
  <2> QED BY <1>1, <2>1 DEF RefusePayment, TypeOK, caseVars, promiseVars, checkVars
<1>o. CASE MeetOverlap(q, pay)
  <2>1. Answered(NoPromise, pay, "nothing") \in ObserverCalls
    BY AnswersTyped
  <2> QED BY <1>o, <2>1 DEF MeetOverlap, TypeOK, caseVars, promiseVars, checkVars
<1>2. CASE AttributePayment(q, pay)
  <2>1. PICK p \in {NoPromise} \cup Promises :
            attributions' = attributions \cup {[payment |-> pay, promise |-> p]}
    BY <1>2 DEF AttributePayment, PromiseEvidence
  <2>2. Answered(NoPromise, pay, "attributed") \in ObserverCalls
    BY AnswersTyped
  <2>3. attributions' \subseteq [payment : Payments, promise : Promises \cup {NoPromise}]
    BY <2>1 DEF TypeOK
  <2>4. caseState' \in CaseStates
    BY <1>2 DEF AttributePayment, CaseStates
  <2> QED BY <1>2, <2>2, <2>3, <2>4 DEF AttributePayment, TypeOK, promiseVars, checkVars
<1>3. ASSUME NEW p \in Promises, MatchPromise(q, pay, p)
      PROVE  TypeOK'
  BY <1>3 DEF MatchPromise, TypeOK, caseVars, promiseVars, checkVars, ObserverCalls
<1> QED BY <1>1, <1>o, <1>2, <1>3 DEF Observe

\* The other steps of an observer.
LEMMA ObserverType ==
    ASSUME TypeOK, NEW q \in Observers,
           \/ \E pay \in Payments : FailObserver(q, pay)
           \/ FulfilPromise(q) \/ TakeAnswer(q) \/ LoseObserver(q)
    PROVE  TypeOK'
<1>1. ASSUME NEW pay \in Payments, FailObserver(q, pay)
      PROVE  TypeOK'
  BY <1>1, FailureCounted, AnswersTyped
     DEF FailObserver, TypeOK, caseVars, promiseVars, checkVars
<1>2. CASE FulfilPromise(q)
  <2>1. observer[q].promise \in Promises /\ observer[q].payment \in Payments
    BY <1>2, ObserverHolds DEF FulfilPromise
  <2>2. Answered(observer[q].promise, observer[q].payment, "attributed") \in ObserverCalls
    BY <2>1, AnswersTyped
  <2>3. attributions' \subseteq [payment : Payments, promise : Promises \cup {NoPromise}]
    BY <1>2, <2>1 DEF FulfilPromise, TypeOK
  <2>4. caseState' \in CaseStates /\ status' \in [Promises -> Statuses]
    BY <1>2 DEF FulfilPromise, TypeOK, CaseStates, Statuses, Verdicts
  <2> QED BY <1>2, <2>2, <2>3, <2>4 DEF FulfilPromise, TypeOK, checkVars
<1>3. CASE TakeAnswer(q) \/ LoseObserver(q)
  BY <1>3, FailureCounted, IdleTyped
     DEF TakeAnswer, LoseObserver, TypeOK, caseVars, promiseVars, checkVars
<1> QED BY <1>1, <1>2, <1>3

LEMMA EnvironmentType == TypeOK /\ Environment => TypeOK'
<1> SUFFICES ASSUME TypeOK, Environment
             PROVE  TypeOK'
  OBVIOUS
<1>1. ASSUME NEW p \in Promises, FallDue(p) \/ LapseLease(p)
      PROVE  TypeOK'
  BY <1>1 DEF FallDue, LapseLease, TypeOK, caseVars, promiseVars, checkVars
<1>2. CASE PassDeadline
  BY <1>2 DEF PassDeadline, TypeOK, promiseVars, checkVars
<1>3. CASE MoveCase
  <2>1. caseState' \in CaseStates
    BY <1>3 DEF MoveCase, TypeOK, Transitions, CaseStates
  <2> QED BY <1>3, <2>1 DEF MoveCase, TypeOK, promiseVars, checkVars
<1> QED BY <1>1, <1>2, <1>3 DEF Environment

LEMMA NextType == TypeOK /\ [Next]_vars => TypeOK'
<1> SUFFICES ASSUME TypeOK, [Next]_vars
             PROVE  TypeOK'
  OBVIOUS
<1>1. CASE UNCHANGED vars
  BY <1>1 DEF vars, caseVars, promiseVars, checkVars, TypeOK
<1>2. CASE Next
  BY <1>2, ClientsType, ResolvingType, AbortingType, ObserveType, ObserverType, EnvironmentType
     DEF Next
<1> QED BY <1>1, <1>2

\* Every variable of the promise engine keeps its type (store/promises.go,
\* store/attribution.go).
THEOREM PromisesTyped == Spec => []TypeOK
BY InitType, NextType, PTL DEF Spec

-----------------------------------------------------------------------------
(* Safety.                                                                 *)

Safe == LockInv /\ OneActive /\ ActiveIsChecked /\ PaymentKeepsPromise

LEMMA InitSafe == Init => Safe
<1> SUFFICES ASSUME Init PROVE Safe
  OBVIOUS
<1>1. \A k \in Resolvers : resolver[k].pc = "idle"
  BY DEF Init, IdleResolver
<1>2. \A q \in Observers : observer[q].pc = "idle"
  BY DEF Init, IdleObserver
<1>3. LockInv
  BY <1>1, <1>2 DEF LockInv, CaseHeldOnce, HeldCaseIsLive, PromiseHeldOnce,
                    HeldPromiseIsActive, Fulfilling, Locks
<1>4. OneActive /\ ActiveIsChecked /\ PaymentKeepsPromise
  BY DEF Init, OneActive, ActiveIsChecked, PaymentKeepsPromise
<1> QED BY <1>3, <1>4 DEF Safe

\* A step that writes neither a promise nor the case, keeps open checks open
\* and takes no lock.
Quiet ==
    /\ UNCHANGED <<caseState, status, attributions>>
    /\ \A p \in Promises : check[p] \in {"PENDING", "CLAIMED"} => check'[p] \in {"PENDING", "CLAIMED"}
    /\ \A q \in Observers : observer'[q].pc = "fulfilling" => observer'[q] = observer[q]
    /\ \A k \in Resolvers : resolver'[k].pc = "locked" => resolver'[k] = resolver[k]

LEMMA QuietSafe == Safe /\ Quiet => Safe'
<1> SUFFICES ASSUME Safe, Quiet PROVE Safe'
  OBVIOUS
<1>1. CaseHeldOnce' /\ HeldCaseIsLive'
  BY DEF Safe, Quiet, LockInv, CaseHeldOnce, HeldCaseIsLive, Fulfilling
<1>2. PromiseHeldOnce' /\ HeldPromiseIsActive'
  BY DEF Safe, Quiet, LockInv, PromiseHeldOnce, HeldPromiseIsActive, Locks
<1>3. OneActive' /\ ActiveIsChecked' /\ PaymentKeepsPromise'
  BY DEF Safe, Quiet, OneActive, ActiveIsChecked, PaymentKeepsPromise
<1> QED BY <1>1, <1>2, <1>3 DEF Safe, LockInv

\* A new promise is not the one of an earlier attribution, and nobody holds it.
LEMMA CreateSafe ==
    ASSUME TypeOK, Safe, NEW p \in Promises, CreatePromise(p)
    PROVE  Safe'
<1>1. status' = [status EXCEPT ![p] = "ACTIVE"] /\ status[p] = "NONE" /\ ~CaseLocked
  BY DEF CreatePromise
<1>2. UNCHANGED <<caseState, attributions, resolver, observer>>
  BY DEF CreatePromise, caseVars
<1>3. \A q \in Observers : ~Fulfilling(q)
  BY <1>1 DEF CaseLocked, Fulfilling
<1>4. CaseHeldOnce' /\ HeldCaseIsLive'
  BY <1>2, <1>3 DEF CaseHeldOnce, HeldCaseIsLive, Fulfilling
<1>5. PromiseHeldOnce'
  BY <1>2 DEF Safe, LockInv, PromiseHeldOnce, Locks
<1>6. HeldPromiseIsActive'
  BY <1>1, <1>2 DEF Safe, LockInv, HeldPromiseIsActive, Locks, TypeOK
<1>7. OneActive'
  BY <1>1 DEF CreatePromise, OneActive, TypeOK
<1>8. ActiveIsChecked'
  BY <1>1 DEF CreatePromise, Safe, ActiveIsChecked, TypeOK
<1>9. PaymentKeepsPromise'
  BY <1>1, <1>2 DEF Safe, PaymentKeepsPromise, TypeOK
<1> QED BY <1>4, <1>5, <1>6, <1>7, <1>8, <1>9 DEF Safe, LockInv

LEMMA LockSafe ==
    ASSUME TypeOK, Safe, NEW k \in Resolvers, LockPromise(k)
    PROVE  Safe'
<1>1. resolver' = [resolver EXCEPT ![k].pc = "locked"]
      /\ ~PromiseLocked(resolver[k].promise) /\ status[resolver[k].promise] = "ACTIVE"
  BY DEF LockPromise
<1>2. UNCHANGED <<caseState, status, check, attributions, observer>>
  BY DEF LockPromise, caseVars, promiseVars, checkVars
<1>3. resolver[k].promise \in Promises /\ [resolver[k] EXCEPT !.pc = "locked"] \in ResolverCalls
  BY ResolverHolds DEF LockPromise
<1>4. /\ resolver'[k].promise = resolver[k].promise
      /\ \A j \in Resolvers \ {k} : resolver'[j] = resolver[j]
  BY <1>1, <1>3 DEF TypeOK, ResolverCalls, IdleResolver
<1>5. PromiseHeldOnce'
  BY <1>1, <1>4 DEF Safe, LockInv, PromiseHeldOnce, Locks, PromiseLocked
<1>6. HeldPromiseIsActive'
  BY <1>1, <1>2, <1>4 DEF Safe, LockInv, HeldPromiseIsActive, Locks
<1>7. CaseHeldOnce' /\ HeldCaseIsLive'
  BY <1>2 DEF Safe, LockInv, CaseHeldOnce, HeldCaseIsLive, Fulfilling
<1>8. OneActive' /\ ActiveIsChecked' /\ PaymentKeepsPromise'
  BY <1>2 DEF Safe, OneActive, ActiveIsChecked, PaymentKeepsPromise
<1> QED BY <1>5, <1>6, <1>7, <1>8 DEF Safe, LockInv

\* What the two ways to settle a promise have in common: both locks, one
\* promise, its check closed, and a recovered case left alone.
LEMMA SettleEffect ==
    ASSUME TypeOK, Safe, NEW k \in Resolvers, ResolvePromise(k) \/ CancelPromise(k)
    PROVE  /\ resolver[k].promise \in Promises
           /\ Locks(k, resolver[k].promise)
           /\ ~CaseLocked
           /\ status[resolver[k].promise] = "ACTIVE"
           /\ \E to \in Verdicts \cup {"CANCELLED"} :
                status' = [status EXCEPT ![resolver[k].promise] = to]
           /\ caseState = "RECOVERED" => caseState' = "RECOVERED"
           /\ \A r \in Promises \ {resolver[k].promise} : check'[r] = check[r]
           /\ resolver' = [resolver EXCEPT ![k] = IdleResolver]
           /\ UNCHANGED <<attributions, observer>>
<1> DEFINE p == resolver[k].promise
<1>1. p \in Promises /\ Locks(k, p) /\ ~CaseLocked
  BY ResolverHolds DEF ResolvePromise, CancelPromise, Cancel, Locks
<1>2. status[p] = "ACTIVE"
  BY <1>1 DEF Safe, LockInv, HeldPromiseIsActive
<1>3. CASE ResolvePromise(k)
  <2>1. resolver[k].forced \in {"", "FULFILLED", "BROKEN"}
    BY <1>3, ResolverHolds DEF ResolvePromise
  <2>2. Outcome(resolver[k].forced) \in Verdicts
    BY <2>1, OutcomeType
  <2>3. caseState = "RECOVERED" => caseState' = "RECOVERED"
    BY <1>3 DEF ResolvePromise, AfterOutcome
  <2>4. \A r \in Promises \ {p} : check'[r] = check[r]
    BY <1>3 DEF ResolvePromise, TypeOK
  <2> QED BY <1>1, <1>2, <1>3, <2>2, <2>3, <2>4 DEF ResolvePromise
<1>4. CASE CancelPromise(k)
  <2>1. \A r \in Promises \ {p} : check'[r] = check[r]
    BY <1>4 DEF CancelPromise, Cancel, TypeOK
  <2> QED BY <1>1, <1>2, <1>4, <2>1 DEF CancelPromise, Cancel, caseVars
<1> QED BY <1>3, <1>4

\* A promise is settled while it is active and both rows are held.
LEMMA SettleSafe ==
    ASSUME TypeOK, Safe, NEW k \in Resolvers, ResolvePromise(k) \/ CancelPromise(k)
    PROVE  Safe'
<1> DEFINE p == resolver[k].promise
<1>1. p \in Promises /\ Locks(k, p) /\ ~CaseLocked /\ status[p] = "ACTIVE"
  BY SettleEffect
<1>2. PICK to \in Verdicts \cup {"CANCELLED"} : status' = [status EXCEPT ![p] = to]
  BY SettleEffect
<1>3. /\ caseState = "RECOVERED" => caseState' = "RECOVERED"
      /\ \A r \in Promises \ {p} : check'[r] = check[r]
      /\ resolver' = [resolver EXCEPT ![k] = IdleResolver]
      /\ UNCHANGED <<attributions, observer>>
  BY SettleEffect
<1> HIDE DEF p
<1>4. \A q \in Observers : ~Fulfilling(q) /\ ~Fulfilling(q)'
  BY <1>1, <1>3 DEF CaseLocked, Fulfilling
<1>5. CaseHeldOnce' /\ HeldCaseIsLive'
  BY <1>4 DEF CaseHeldOnce, HeldCaseIsLive
<1>6. \A j \in Resolvers, r \in Promises : Locks(j, r)' => Locks(j, r) /\ j # k
  BY <1>3 DEF Locks, IdleResolver, TypeOK
<1>7. PromiseHeldOnce'
  BY <1>6 DEF Safe, LockInv, PromiseHeldOnce
<1>8. HeldPromiseIsActive'
  BY <1>1, <1>2, <1>6 DEF Safe, LockInv, HeldPromiseIsActive, PromiseHeldOnce, TypeOK
<1>9. OneActive'
  BY <1>2 DEF Safe, OneActive, TypeOK, Verdicts
<1>10. ActiveIsChecked'
  BY <1>2, <1>3 DEF Safe, ActiveIsChecked, TypeOK, Verdicts
<1>11. PaymentKeepsPromise'
  BY <1>1, <1>2, <1>3 DEF Safe, PaymentKeepsPromise, TypeOK
<1> QED BY <1>5, <1>7, <1>8, <1>9, <1>10, <1>11 DEF Safe, LockInv

\* The attribution that takes the case is the only one, and its promise active.
LEMMA MatchSafe ==
    ASSUME TypeOK, Safe, NEW q \in Observers, NEW pay \in Payments, NEW p \in Promises,
           MatchPromise(q, pay, p)
    PROVE  Safe'
<1>1. /\ ~CaseLocked
      /\ caseState \notin Terminal
      /\ status[p] = "ACTIVE"
      /\ observer' = [observer EXCEPT ![q] =
             [pc |-> "fulfilling", promise |-> p, payment |-> pay, answer |-> ""]]
      /\ UNCHANGED <<caseState, status, check, attributions, resolver>>
  BY DEF MatchPromise, caseVars, promiseVars, checkVars
<1>2. \A r \in Observers : Fulfilling(r)' => r = q
  BY <1>1 DEF CaseLocked, Fulfilling, TypeOK
<1>3. observer'[q].promise = p
  BY <1>1 DEF TypeOK
<1>4. CaseHeldOnce' /\ HeldCaseIsLive'
  BY <1>1, <1>2, <1>3 DEF CaseHeldOnce, HeldCaseIsLive
<1>5. PromiseHeldOnce' /\ HeldPromiseIsActive'
  BY <1>1 DEF Safe, LockInv, PromiseHeldOnce, HeldPromiseIsActive, Locks
<1>6. OneActive' /\ ActiveIsChecked' /\ PaymentKeepsPromise'
  BY <1>1 DEF Safe, OneActive, ActiveIsChecked, PaymentKeepsPromise
<1> QED BY <1>4, <1>5, <1>6 DEF Safe, LockInv

\* A live case has no attribution yet.
LEMMA LiveIsUnpaid == Safe /\ caseState \notin Terminal => attributions = {}
BY DEF Safe, PaymentKeepsPromise, Terminal

LEMMA AttributeSafe ==
    ASSUME TypeOK, Safe, NEW q \in Observers, NEW pay \in Payments, AttributePayment(q, pay)
    PROVE  Safe'
<1>1. /\ ~CaseLocked
      /\ caseState' = "RECOVERED"
      /\ observer' = [observer EXCEPT ![q] = Answered(NoPromise, pay, "attributed")]
      /\ UNCHANGED <<status, check, resolver>>
  BY DEF AttributePayment, promiseVars, checkVars
<1>2. attributions = {}
  BY LiveIsUnpaid DEF AttributePayment
<1>3. PICK p \in {NoPromise} \cup {r \in PromiseEvidence : status[r] = "FULFILLED"} :
          attributions' = attributions \cup {[payment |-> pay, promise |-> p]}
  BY DEF AttributePayment
<1>4. PaymentKeepsPromise'
  BY <1>1, <1>2, <1>3 DEF PaymentKeepsPromise
<1>5. \A r \in Observers : ~Fulfilling(r)'
  BY <1>1 DEF CaseLocked, Fulfilling, Answered, TypeOK
<1>6. CaseHeldOnce' /\ HeldCaseIsLive'
  BY <1>5 DEF CaseHeldOnce, HeldCaseIsLive
<1>7. PromiseHeldOnce' /\ HeldPromiseIsActive'
  BY <1>1 DEF Safe, LockInv, PromiseHeldOnce, HeldPromiseIsActive, Locks
<1>8. OneActive' /\ ActiveIsChecked'
  BY <1>1 DEF Safe, OneActive, ActiveIsChecked
<1> QED BY <1>4, <1>6, <1>7, <1>8 DEF Safe, LockInv

\* The update by id alone is harmless: the case was held all the time.
LEMMA FulfilSafe ==
    ASSUME TypeOK, Safe, NEW q \in Observers, FulfilPromise(q)
    PROVE  Safe'
<1> DEFINE p == observer[q].promise
           pay == observer[q].payment
<1>1. /\ Fulfilling(q)
      /\ ~PromiseLocked(p)
      /\ status' = [status EXCEPT ![p] = "FULFILLED"]
      /\ attributions' = attributions \cup {[payment |-> pay, promise |-> p]}
      /\ caseState' = "RECOVERED"
      /\ observer' = [observer EXCEPT ![q] = Answered(p, pay, "attributed")]
      /\ UNCHANGED <<check, resolver>>
  BY DEF FulfilPromise, Fulfilling, checkVars
<1>2. p \in Promises
  BY <1>1, ObserverHolds DEF Fulfilling
<1>3. attributions = {}
  BY <1>1, LiveIsUnpaid DEF Safe, LockInv, HeldCaseIsLive
<1>4. \A r \in Observers : ~Fulfilling(r)'
  <2>1. ~Fulfilling(q)'
    BY <1>1 DEF Fulfilling, Answered, TypeOK
  <2>2. \A r \in Observers \ {q} : Fulfilling(r)' => Fulfilling(r)
    BY <1>1 DEF Fulfilling, TypeOK
  <2> QED BY <1>1, <2>1, <2>2 DEF Safe, LockInv, CaseHeldOnce
<1> HIDE DEF p, pay
<1>5. CaseHeldOnce' /\ HeldCaseIsLive'
  BY <1>4 DEF CaseHeldOnce, HeldCaseIsLive
<1>6. PromiseHeldOnce'
  BY <1>1 DEF Safe, LockInv, PromiseHeldOnce, Locks
<1>7. HeldPromiseIsActive'
  BY <1>1 DEF Safe, LockInv, HeldPromiseIsActive, PromiseLocked, Locks, TypeOK
<1>8. OneActive' /\ ActiveIsChecked'
  BY <1>1 DEF Safe, OneActive, ActiveIsChecked, TypeOK
<1>9. PaymentKeepsPromise'
  BY <1>1, <1>2, <1>3 DEF PaymentKeepsPromise, TypeOK
<1> QED BY <1>5, <1>6, <1>7, <1>8, <1>9 DEF Safe, LockInv

\* The other writers need the case, and leave a recovered case alone.
LEMMA MoveCaseSafe ==
    ASSUME TypeOK, Safe, MoveCase
    PROVE  Safe'
<1>1. /\ ~CaseLocked
      /\ caseState' \in Transitions[caseState]
      /\ UNCHANGED <<status, check, attributions, resolver, observer>>
  BY DEF MoveCase, promiseVars, checkVars
<1>2. caseState # "RECOVERED"
  BY <1>1 DEF Transitions, CaseStates
<1>3. CaseHeldOnce' /\ HeldCaseIsLive'
  BY <1>1 DEF CaseLocked, CaseHeldOnce, HeldCaseIsLive, Fulfilling
<1>4. PromiseHeldOnce' /\ HeldPromiseIsActive'
  BY <1>1 DEF Safe, LockInv, PromiseHeldOnce, HeldPromiseIsActive, Locks
<1>5. OneActive' /\ ActiveIsChecked' /\ PaymentKeepsPromise'
  BY <1>1, <1>2 DEF Safe, OneActive, ActiveIsChecked, PaymentKeepsPromise
<1> QED BY <1>3, <1>4, <1>5 DEF Safe, LockInv

\* Overwriting one call by another that is not at label pc adds none there.
LEMMA CallDropped ==
    ASSUME NEW S, NEW T, NEW f \in [S -> T], NEW s \in S, NEW pc, NEW c, c.pc # pc,
           NEW g, g = [f EXCEPT ![s] = c]
    PROVE  \A r \in S : g[r].pc = pc => g[r] = f[r]
OBVIOUS

\* Claims, refusals, answers, aborts, failures and clocks are quiet.
LEMMA ResolverQuiet ==
    ASSUME TypeOK, NEW k \in Resolvers, NEW p \in Promises, NEW outcome,
           \/ ClaimDuePromise(k, p) \/ AskOutcome(k, p, outcome)
           \/ RefuseSettled(k) \/ LoseResolver(k)
    PROVE  Quiet
<1>1. UNCHANGED <<caseState, status, attributions, observer>>
  BY DEF ClaimDuePromise, AskOutcome, RefuseSettled, LoseResolver, caseVars, promiseVars
<1>2. \A r \in Promises : check[r] \in {"PENDING", "CLAIMED"} => check'[r] \in {"PENDING", "CLAIMED"}
  BY DEF ClaimDuePromise, AskOutcome, RefuseSettled, LoseResolver, checkVars, TypeOK
<1>3. \A j \in Resolvers : resolver'[j].pc = "locked" => resolver'[j] = resolver[j]
  <2>0. resolver \in [Resolvers -> ResolverCalls] /\ IdleResolver.pc # "locked"
    BY DEF TypeOK, IdleResolver
  <2> DEFINE call(o) == [pc |-> "resolving", promise |-> p, forced |-> o]
  <2>i. \A o : call(o).pc # "locked"
    OBVIOUS
  <2>1. CASE ClaimDuePromise(k, p)
    <3>1. resolver' = [resolver EXCEPT ![k] = call("")]
      BY <2>1 DEF ClaimDuePromise
    <3> HIDE DEF call
    <3> QED BY <2>0, <2>i, <3>1, CallDropped
  <2>2. CASE AskOutcome(k, p, outcome)
    <3>1. resolver' = [resolver EXCEPT ![k] = call(outcome)]
      BY <2>2 DEF AskOutcome
    <3> HIDE DEF call
    <3> QED BY <2>0, <2>i, <3>1, CallDropped
  <2>3. CASE RefuseSettled(k) \/ LoseResolver(k)
    BY <2>0, <2>3, CallDropped DEF RefuseSettled, LoseResolver
  <2> QED BY <2>1, <2>2, <2>3
<1> QED BY <1>1, <1>2, <1>3 DEF Quiet

LEMMA AbortQuiet ==
    ASSUME TypeOK, NEW k \in Resolvers, NEW q \in Observers,
           AbortResolver(k, q) \/ AbortObserver(k, q)
    PROVE  Quiet
<1>1. UNCHANGED <<caseState, status, check, attributions>>
  BY DEF AbortResolver, AbortObserver, caseVars, promiseVars, checkVars
<1>2. CASE AbortResolver(k, q)
  <2>1. IdleResolver.pc # "locked" /\ resolver' = [resolver EXCEPT ![k] = IdleResolver]
        /\ observer' = observer
    BY <1>2 DEF AbortResolver, IdleResolver
  <2>2. \A j \in Resolvers : resolver'[j].pc = "locked" => resolver'[j] = resolver[j]
    BY <2>1, CallDropped DEF TypeOK
  <2> QED BY <1>1, <2>1, <2>2 DEF Quiet
<1>3. CASE AbortObserver(k, q)
  <2> DEFINE call == Answered(NoPromise, observer[q].payment, "error")
  <2>1. call.pc # "fulfilling" /\ observer' = [observer EXCEPT ![q] = call]
        /\ resolver' = resolver
    BY <1>3 DEF AbortObserver, Answered
  <2> HIDE DEF call
  <2>2. \A r \in Observers : observer'[r].pc = "fulfilling" => observer'[r] = observer[r]
    BY <2>1, CallDropped DEF TypeOK
  <2> QED BY <1>1, <2>1, <2>2 DEF Quiet
<1> QED BY <1>2, <1>3

LEMMA ObserverQuiet ==
    ASSUME TypeOK, NEW q \in Observers, NEW pay,
           \/ RefusePayment(q, pay) \/ MeetOverlap(q, pay) \/ FailObserver(q, pay)
           \/ TakeAnswer(q) \/ LoseObserver(q)
    PROVE  Quiet
<1>1. UNCHANGED <<caseState, status, check, attributions, resolver>>
  BY DEF RefusePayment, MeetOverlap, FailObserver, TakeAnswer, LoseObserver,
         caseVars, promiseVars, checkVars
<1>2. /\ \A a : Answered(NoPromise, pay, a).pc # "fulfilling"
      /\ IdleObserver.pc # "fulfilling"
  BY DEF Answered, IdleObserver
<1>3. \A r \in Observers : observer'[r].pc = "fulfilling" => observer'[r] = observer[r]
  <2>0. observer \in [Observers -> ObserverCalls]
    BY DEF TypeOK
  <2>1. CASE RefusePayment(q, pay)
    BY <1>2, <2>0, <2>1, CallDropped DEF RefusePayment
  <2>2. CASE MeetOverlap(q, pay)
    BY <1>2, <2>0, <2>2, CallDropped DEF MeetOverlap
  <2>3. CASE FailObserver(q, pay)
    BY <1>2, <2>0, <2>3, CallDropped DEF FailObserver
  <2>4. CASE TakeAnswer(q) \/ LoseObserver(q)
    BY <1>2, <2>0, <2>4, CallDropped DEF TakeAnswer, LoseObserver
  <2> QED BY <2>1, <2>2, <2>3, <2>4
<1> QED BY <1>1, <1>3 DEF Quiet

LEMMA ClockQuiet ==
    ASSUME \/ \E p \in Promises : FallDue(p) \/ LapseLease(p)
           \/ PassDeadline
    PROVE  Quiet
BY DEF FallDue, LapseLease, PassDeadline, Quiet, caseVars, promiseVars, checkVars

\* Every step, by the component it belongs to.
LEMMA ClientsSafe == TypeOK /\ Safe /\ Clients => Safe'
BY CreateSafe DEF Clients

LEMMA ResolvingSafe == TypeOK /\ Safe /\ Resolving => Safe'
<1> SUFFICES ASSUME TypeOK, Safe, Resolving PROVE Safe'
  OBVIOUS
<1>1. ASSUME NEW k \in Checkers, NEW p \in Promises, ClaimDuePromise(k, p)
      PROVE  Safe'
  BY <1>1, ResolverQuiet, QuietSafe DEF Resolvers
<1>2. ASSUME NEW k \in Resolvers, NEW p \in Promises, NEW outcome, AskOutcome(k, p, outcome)
      PROVE  Safe'
  BY <1>2, ResolverQuiet, QuietSafe
<1>3. ASSUME NEW k \in Resolvers, RefuseSettled(k) \/ LoseResolver(k)
      PROVE  Safe'
  <2>1. resolver[k].promise \in Promises
    BY <1>3, ResolverHolds DEF RefuseSettled, LoseResolver
  <2> QED BY <1>3, <2>1, ResolverQuiet, QuietSafe
<1>4. ASSUME NEW k \in Resolvers, LockPromise(k) \/ ResolvePromise(k) \/ CancelPromise(k)
      PROVE  Safe'
  BY <1>4, LockSafe, SettleSafe
<1> QED BY <1>1, <1>2, <1>3, <1>4 DEF Resolving, Resolve, Resolvers

LEMMA ObserveSafe ==
    ASSUME TypeOK, Safe, NEW q \in Observers, NEW pay \in Payments, Observe(q, pay)
    PROVE  Safe'
BY ObserverQuiet, QuietSafe, AttributeSafe, MatchSafe DEF Observe

LEMMA ObserverSafe ==
    ASSUME TypeOK, Safe, NEW q \in Observers,
           \/ \E pay \in Payments : FailObserver(q, pay)
           \/ FulfilPromise(q) \/ TakeAnswer(q) \/ LoseObserver(q)
    PROVE  Safe'
BY ObserverQuiet, QuietSafe, FulfilSafe

LEMMA EnvironmentSafe == TypeOK /\ Safe /\ Environment => Safe'
BY ClockQuiet, QuietSafe, MoveCaseSafe DEF Environment

LEMMA NextSafe == TypeOK /\ Safe /\ [Next]_vars => Safe'
<1> SUFFICES ASSUME TypeOK, Safe, [Next]_vars PROVE Safe'
  OBVIOUS
<1>1. CASE UNCHANGED vars
  BY <1>1, QuietSafe DEF vars, caseVars, promiseVars, checkVars, Quiet
<1>2. ASSUME Aborting PROVE Safe'
  BY <1>2, AbortQuiet, QuietSafe DEF Aborting
<1>3. CASE Next
  BY <1>2, <1>3, ClientsSafe, ResolvingSafe, ObserveSafe, ObserverSafe, EnvironmentSafe DEF Next
<1> QED BY <1>1, <1>3

LEMMA IInvHolds == Spec => []IInv
<1>1. Init => IInv
  BY InitType, InitSafe DEF IInv, Safe
<1>2. IInv /\ [Next]_vars => IInv'
  BY NextType, NextSafe DEF IInv, Safe
<1> QED BY <1>1, <1>2, PTL DEF Spec

\* An active promise always has an open check (CreatePromise, resolvePromise,
\* transitionPromise and ClaimDuePromise keep the two tables together).
THEOREM ActivePromiseIsChecked == Spec => []ActiveIsChecked
<1>1. IInv => ActiveIsChecked
  BY DEF IInv
<1> QED BY <1>1, IInvHolds, PTL

\* A promise named by an attribution is and stays FULFILLED, and its case
\* recovered and paid once, however the due check, withdrawals and other
\* payments interleave with the attribution (AttributeRecovery).
THEOREM PaymentIsFinal == Spec => []PaymentKeepsPromise
<1>1. IInv => PaymentKeepsPromise
  BY DEF IInv
<1> QED BY <1>1, IInvHolds, PTL

-----------------------------------------------------------------------------
(* The detailed module implements PromiseContract.  Only a presenter       *)
(* forces a verdict, so without presenters every verdict is the case's.    *)

ForcedByPresenter ==
    \A k \in Resolvers : resolver[k].forced \notin {"", "CANCELLED"} => k \in Presenters

LEMMA ForcedStep == TypeOK /\ ForcedByPresenter /\ [Next]_vars => ForcedByPresenter'
<1> SUFFICES ASSUME TypeOK, ForcedByPresenter, [Next]_vars PROVE ForcedByPresenter'
  OBVIOUS
<1>0. resolver \in [Resolvers -> ResolverCalls] /\ IdleResolver.forced = ""
  BY DEF TypeOK, IdleResolver
<1>1. ASSUME NEW k \in Checkers, NEW p \in Promises, ClaimDuePromise(k, p)
      PROVE  ForcedByPresenter'
  BY <1>0, <1>1 DEF ClaimDuePromise, ForcedByPresenter, Resolvers
<1>2. ASSUME NEW k \in Presenters, NEW p \in Promises, NEW outcome \in {"FULFILLED", "BROKEN"},
             AskOutcome(k, p, outcome)
      PROVE  ForcedByPresenter'
  BY <1>0, <1>2 DEF AskOutcome, ForcedByPresenter, Resolvers
<1>c. ASSUME NEW k \in Cancellers, NEW p \in Promises, AskOutcome(k, p, "CANCELLED")
      PROVE  ForcedByPresenter'
  BY <1>0, <1>c DEF AskOutcome, ForcedByPresenter, Resolvers
<1>3. ASSUME NEW k \in Resolvers, LockPromise(k)
      PROVE  ForcedByPresenter'
  <2>1. resolver' = [resolver EXCEPT ![k] = [resolver[k] EXCEPT !.pc = "locked"]]
    BY <1>3 DEF LockPromise
  <2>2. [resolver[k] EXCEPT !.pc = "locked"].forced = resolver[k].forced
    BY <1>3, ResolverHolds DEF LockPromise
  <2> QED BY <1>0, <2>1, <2>2 DEF ForcedByPresenter
<1>4. ASSUME NEW k \in Resolvers, NEW q,
             \/ RefuseSettled(k) \/ LoseResolver(k) \/ AbortResolver(k, q)
             \/ ResolvePromise(k) \/ CancelPromise(k)
      PROVE  ForcedByPresenter'
  <2>1. resolver' = [resolver EXCEPT ![k] = IdleResolver]
    BY <1>4 DEF RefuseSettled, LoseResolver, AbortResolver, ResolvePromise, CancelPromise, Cancel
  <2> QED BY <1>0, <2>1 DEF ForcedByPresenter
<1>5. ASSUME UNCHANGED resolver
      PROVE  ForcedByPresenter'
  BY <1>5 DEF ForcedByPresenter
<1>6. ASSUME NEW q \in Observers, NEW pay \in Payments, Observe(q, pay) \/ FailObserver(q, pay)
      PROVE  ForcedByPresenter'
  BY <1>5, <1>6 DEF Observe, RefusePayment, MeetOverlap, AttributePayment, MatchPromise, FailObserver
<1>7. ASSUME NEW q \in Observers, NEW k,
             FulfilPromise(q) \/ TakeAnswer(q) \/ LoseObserver(q) \/ AbortObserver(k, q)
      PROVE  ForcedByPresenter'
  BY <1>5, <1>7 DEF FulfilPromise, TakeAnswer, LoseObserver, AbortObserver
<1>8. CASE Clients \/ Environment \/ UNCHANGED vars
  BY <1>5, <1>8 DEF Clients, CreatePromise, vars,
                    Environment, FallDue, LapseLease, PassDeadline, MoveCase
<1> QED BY <1>1, <1>2, <1>c, <1>3, <1>4, <1>6, <1>7, <1>8 DEF Next, Resolving, Resolve, Aborting

LEMMA SameTable == Contract!Transitions = Transitions /\ Contract!Terminal = Terminal
BY DEF Contract!Transitions, Transitions, Contract!CaseStates, CaseStates, Contract!Terminal, Terminal

\* A check's verdict is a verdict of the contract.
LEMMA ResolveJudges ==
    ASSUME IInv, ForcedByPresenter, NEW k \in Resolvers, ResolvePromise(k)
    PROVE  Contract!Next
<1> DEFINE p == resolver[k].promise
           outcome == Outcome(resolver[k].forced)
<1>1. p \in Promises /\ resolver[k].forced \in {"", "FULFILLED", "BROKEN"} /\ Locks(k, p)
  BY ResolverHolds DEF IInv, ResolvePromise, Locks
<1>2. outcome \in Verdicts
  BY <1>1, OutcomeType DEF IInv
<1>3. status[p] = "ACTIVE"
  BY <1>1 DEF IInv, LockInv, HeldPromiseIsActive
<1>4. caseState = "RECOVERED" /\ ~(Presenters # {}) => outcome = "FULFILLED"
  BY <1>1 DEF ForcedByPresenter, Outcome
<1>5. status' = [status EXCEPT ![p] = outcome] /\ caseState' = AfterOutcome(outcome)
  BY DEF ResolvePromise
<1> HIDE DEF p, outcome
<1>6. Contract!Judge(p, outcome)
  BY <1>3, <1>4, <1>5 DEF Contract!Judge, AfterOutcome
<1> QED BY <1>1, <1>2, <1>6 DEF Contract!Next, Verdicts

\* A cancellation is a withdrawal of the contract.
LEMMA CancelWithdraws ==
    ASSUME IInv, NEW k \in Resolvers, CancelPromise(k)
    PROVE  Contract!Next
<1>1. resolver[k].promise \in Promises /\ status[resolver[k].promise] = "ACTIVE"
  BY SettleEffect DEF IInv, Safe
<1>2. Contract!Withdraw(resolver[k].promise)
  BY <1>1 DEF CancelPromise, Cancel, caseVars, Contract!Withdraw
<1> QED BY <1>1, <1>2 DEF Contract!Next

\* A payment that keeps a promise, or none, is a payment of the contract.
LEMMA PaymentPays ==
    ASSUME IInv, NEW q \in Observers,
           FulfilPromise(q) \/ \E pay \in Payments : AttributePayment(q, pay)
    PROVE  Contract!Next
<1>1. CASE FulfilPromise(q)
  <2> DEFINE p == observer[q].promise
  <2>1. p \in Promises /\ Fulfilling(q)
    BY <1>1, ObserverHolds DEF IInv, FulfilPromise, Fulfilling
  <2>2. caseState \notin Terminal /\ status[p] = "ACTIVE"
    BY <2>1 DEF IInv, LockInv, HeldCaseIsLive
  <2>3. caseState' = "RECOVERED" /\ status' = [status EXCEPT ![p] = "FULFILLED"]
    BY <1>1 DEF FulfilPromise
  <2> HIDE DEF p
  <2> QED BY <2>1, <2>2, <2>3, SameTable DEF Contract!Next, Contract!Pay
<1>2. CASE \E pay \in Payments : AttributePayment(q, pay)
  BY <1>2, SameTable DEF AttributePayment, promiseVars, Contract!Next, Contract!Pay
<1> QED BY <1>1, <1>2

LEMMA StepRefines ==
    IInv /\ ForcedByPresenter /\ [Next]_vars => [Contract!Next]_(Contract!vars)
<1> SUFFICES ASSUME IInv, ForcedByPresenter, [Next]_vars
             PROVE  Contract!Next \/ UNCHANGED <<caseState, status>>
  BY DEF Contract!vars
<1>1. ASSUME Quiet PROVE UNCHANGED <<caseState, status>>
  BY <1>1 DEF Quiet
<1>2. CASE Clients
  BY <1>2 DEF Clients, CreatePromise, caseVars, Contract!Next, Contract!Make
<1>3. CASE Resolving
  <2>1. ASSUME NEW k \in Resolvers, NEW p \in Promises, NEW outcome,
               ClaimDuePromise(k, p) \/ AskOutcome(k, p, outcome)
        PROVE  UNCHANGED <<caseState, status>>
    BY <1>1, <2>1, ResolverQuiet DEF IInv
  <2>2. ASSUME NEW k \in Resolvers, LockPromise(k) \/ RefuseSettled(k) \/ LoseResolver(k)
        PROVE  UNCHANGED <<caseState, status>>
    BY <2>2 DEF LockPromise, RefuseSettled, LoseResolver, caseVars, promiseVars
  <2> QED BY <1>3, <2>1, <2>2, ResolveJudges, CancelWithdraws DEF Resolving, Resolve, Resolvers
<1>4. CASE Aborting
  BY <1>1, <1>4, AbortQuiet DEF Aborting, IInv
<1>5. ASSUME NEW q \in Observers, NEW pay \in Payments,
             \/ RefusePayment(q, pay) \/ MeetOverlap(q, pay) \/ FailObserver(q, pay)
             \/ TakeAnswer(q) \/ LoseObserver(q)
      PROVE  UNCHANGED <<caseState, status>>
  BY <1>1, <1>5, ObserverQuiet DEF IInv
<1>6. ASSUME NEW q \in Observers, NEW pay \in Payments, NEW p \in Promises, MatchPromise(q, pay, p)
      PROVE  UNCHANGED <<caseState, status>>
  BY <1>6 DEF MatchPromise, caseVars, promiseVars
<1>7. ASSUME NEW q \in Observers, TakeAnswer(q) \/ LoseObserver(q)
      PROVE  UNCHANGED <<caseState, status>>
  BY <1>7 DEF TakeAnswer, LoseObserver, caseVars, promiseVars
<1>8. CASE Environment
  BY <1>1, <1>8, ClockQuiet, SameTable
     DEF Environment, MoveCase, promiseVars, Contract!Next, Contract!MoveCase
<1>9. CASE UNCHANGED vars
  BY <1>9 DEF vars, caseVars, promiseVars
<1> QED BY <1>2, <1>3, <1>4, <1>5, <1>6, <1>7, <1>8, <1>9, PaymentPays DEF Next, Observe

\* The promises behave as PromiseContract says, whatever the number of
\* checkers, payments and clients: one active promise at a time, settled once
\* and for ever, and no verdict against a customer whose case is recovered
\* (store/promises.go, store/attribution.go).
THEOREM PromisesKeepContract == Spec => ContractSpec
<1>1. Init => Contract!Init /\ ForcedByPresenter
  <2>1. Init => Contract!Init
    BY DEF Init, Contract!Init
  <2>2. IdleResolver.forced = ""
    BY DEF IdleResolver
  <2>3. Init => ForcedByPresenter
    BY <2>2 DEF Init, ForcedByPresenter
  <2> QED BY <2>1, <2>3
<1>2. Spec => []ForcedByPresenter
  <2>1. Init => ForcedByPresenter
    BY <1>1
  <2> QED BY <2>1, ForcedStep, PromisesTyped, PTL DEF Spec
<1> QED BY <1>1, <1>2, IInvHolds, StepRefines, PTL DEF Spec, ContractSpec, Contract!Spec
=============================================================================
