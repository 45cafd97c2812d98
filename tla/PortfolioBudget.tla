---------------------------- MODULE PortfolioBudget ----------------------------
(***************************************************************************)
(* Which cases a merchant's limited budget goes to.  A priority run ranks  *)
(* the open cases by the first candidate of their latest decision; an      *)
(* allocation run reads a priority run, orders its items by one of two     *)
(* algorithms and walks them in that order, charging each item that still  *)
(* fits against every limit.  Both kinds of run are written once and never *)
(* changed, so that requests interfere only through which runs exist.      *)
(***************************************************************************)
EXTENDS Integers, FiniteSets, Sequences, Functions, MinorUnits

CONSTANTS
    Portfolio,      \* candidates a merchant's cases may have:
                    \*   [case, action, nerv, hours to deadline, recoverability, arrival]
    LimitChoices,   \* the limits a request may carry: functions on Kinds
    MaxPriorityRuns, MaxBudgetRuns  \* bound the runs

Kinds == {"spend", "contacts", "retries", "discount", "reviews"}

Algorithms == {"budget-greedy-v1", "budget-fcfs-v1"}

\* What the API accepts, and what the loader returns.
ASSUME LimitsAssumption == LimitChoices \subseteq [Kinds -> Nat]

ASSUME PortfolioAssumption ==
    /\ IsFiniteSet(Portfolio)
    /\ \A c \in Portfolio : c.nerv \in Int /\ c.arrival \in Int

VARIABLES
    priorityRuns,  \* portfolio_priority_snapshots: a sequence of items per run
    budgetRuns,    \* budget_allocation_runs and budget_allocations
    allocation     \* the allocation run being computed

budgetVars == <<priorityRuns, budgetRuns, allocation>>

NoAllocation == [pc |-> "none"]

Uses(cost, discount, contacts, retries, reviews) ==
    [k \in Kinds |-> CASE k = "spend" -> cost
                       [] k = "discount" -> discount
                       [] k = "contacts" -> contacts
                       [] k = "retries" -> retries
                       [] k = "reviews" -> reviews]

\* Every other action, among them two that contact the customer, is free.
Resources(action) ==
    CASE action \in {"RETRY_NOW", "RETRY_LATER"} -> Uses(35, 0, 0, 1, 0)
      [] action = "SEND_REMINDER" -> Uses(25, 0, 1, 0, 0)
      [] action \in {"SEND_PAYMENT_LINK", "SEND_CHECKOUT_RECOVERY_LINK"} -> Uses(70, 0, 1, 0, 0)
      [] action = "RETENTION_ACTION" -> Uses(100, 3000, 1, 0, 0)
      [] action = "ESCALATE_TO_HUMAN" -> Uses(0, 0, 0, 0, 1)
      [] OTHER -> Uses(0, 0, 0, 0, 0)

-----------------------------------------------------------------------------
(* Priority runs.                                                           *)

Urgency(hours) ==
    IF hours <= 1 THEN 15000 ELSE IF hours <= 6 THEN 12500 ELSE IF hours <= 24 THEN 10000 ELSE 7500

Clamped(bps) == IF bps < 0 THEN 0 ELSE IF bps > 10000 THEN 10000 ELSE bps

PriorityScore(c) == MulDiv(MulDiv(c.nerv, Urgency(c.hours), 10000), Clamped(c.recoverability), 10000)

Ahead(c, d) ==
    \/ PriorityScore(c) > PriorityScore(d)
    \/ PriorityScore(c) = PriorityScore(d) /\ c.nerv > d.nerv
    \/ PriorityScore(c) = PriorityScore(d) /\ c.nerv = d.nerv /\ c.case < d.case

\* The sequence of the candidates in that order, as the only member of a set.
Rankings(candidates) ==
    {s \in [1 .. Cardinality(candidates) -> candidates] :
        \A i, j \in DOMAIN s : i < j => Ahead(s[i], s[j])}

Item(c, rank) ==
    [case |-> c.case, action |-> c.action, nerv |-> c.nerv, arrival |-> c.arrival, rank |-> rank]

\* The loader returns one row per open case; a merchant without any gets an
\* answer and no row.
PrioritizePortfolio ==
    /\ Len(priorityRuns) < MaxPriorityRuns
    /\ \E candidates \in SUBSET Portfolio \ {{}} :
         /\ \A c, d \in candidates : c.case = d.case => c = d
         /\ \E ranked \in Rankings(candidates) :
              priorityRuns' = Append(priorityRuns, [r \in DOMAIN ranked |-> Item(ranked[r], r)])
    /\ UNCHANGED <<budgetRuns, allocation>>

-----------------------------------------------------------------------------
(* Allocation runs.                                                         *)

\* Value for money: NERV per unit of cost, a free action counting as one.
Price(item) == LET cost == Resources(item.action)["spend"] IN IF cost < 1 THEN 1 ELSE cost

WorthMore(a, b) ==
    LET left == a.nerv * Price(b)
        right == b.nerv * Price(a)
    IN left > right \/ (left = right /\ a.rank < b.rank)

ArrivedFirst(a, b) ==
    a.arrival < b.arrival \/ (a.arrival = b.arrival /\ a.case < b.case)

\* Mutant of Precedes: both algorithms keep the order of the priority run.
Precedes_Rank(algorithm, a, b) == a.rank < b.rank

Precedes(algorithm, a, b) ==
    IF algorithm = "budget-greedy-v1" THEN WorthMore(a, b) ELSE ArrivedFirst(a, b)

\* The sequence of a priority run's items in that order, as the only member
\* of a set.
Orders(items, algorithm) ==
    {s \in [DOMAIN items -> Range(items)] :
        \A i, j \in DOMAIN s : i < j => Precedes(algorithm, s[i], s[j])}

StartAllocation ==
    /\ allocation = NoAllocation
    /\ Cardinality(budgetRuns) < MaxBudgetRuns
    /\ \E run \in DOMAIN priorityRuns, limits \in LimitChoices, algorithm \in Algorithms :
       \E ordered \in Orders(priorityRuns[run], algorithm) :
         allocation' = [pc |-> "walking", algorithm |-> algorithm, priorityRun |-> run, limits |-> limits,
                        ordered |-> ordered, next |-> 1, included |-> {}, totals |-> [k \in Kinds |-> 0]]
    /\ UNCHANGED <<priorityRuns, budgetRuns>>

\* Mutant of Fits: the item may take the total one past a limit.
Fits_OffByOne(totals, uses, limits) == \A k \in Kinds : totals[k] + uses[k] <= limits[k] + 1

\* Within every limit (the code names the first one that is not kept).
Fits(totals, uses, limits) == \A k \in Kinds : totals[k] + uses[k] <= limits[k]

\* Mutant of Include: nothing fits any more once an item did not.
Include_StopAtFirst(a, item) ==
    Fits(a.totals, Resources(item.action), a.limits) /\ a.included = 1 .. a.next - 1

Include(a, item) == Fits(a.totals, Resources(item.action), a.limits)

AllocateNext ==
    LET a == allocation
        item == a.ordered[a.next]
        uses == Resources(item.action)
    IN /\ a.pc = "walking"
       /\ a.next \in DOMAIN a.ordered
       /\ allocation' = [a EXCEPT
            !.next = @ + 1,
            !.included = IF Include(a, item) THEN @ \cup {a.next} ELSE @,
            !.totals = IF Include(a, item) THEN [k \in Kinds |-> @[k] + uses[k]] ELSE @]
       /\ UNCHANGED <<priorityRuns, budgetRuns>>

SaveBudgetRun ==
    /\ allocation.pc = "walking"
    /\ allocation.next \notin DOMAIN allocation.ordered
    /\ budgetRuns' = budgetRuns \cup
         {[algorithm |-> allocation.algorithm, priorityRun |-> allocation.priorityRun,
           limits |-> allocation.limits, ordered |-> allocation.ordered,
           included |-> allocation.included, totals |-> allocation.totals]}
    /\ allocation' = NoAllocation
    /\ UNCHANGED priorityRuns

\* The transaction that saves the run fails, and nothing of it remains.
FailAllocation ==
    /\ allocation.pc = "walking"
    /\ allocation.next \notin DOMAIN allocation.ordered
    /\ allocation' = NoAllocation
    /\ UNCHANGED <<priorityRuns, budgetRuns>>

BudgetInit ==
    /\ priorityRuns = <<>>
    /\ budgetRuns = {}
    /\ allocation = NoAllocation

BudgetNext == PrioritizePortfolio \/ StartAllocation \/ AllocateNext \/ SaveBudgetRun \/ FailAllocation

BudgetSpec == BudgetInit /\ [][BudgetNext]_budgetVars
=============================================================================
