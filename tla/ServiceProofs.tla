----------------------------- MODULE ServiceProofs -----------------------------
(***************************************************************************)
(* Proofs that the services keep what ServiceProperties promises, for any  *)
(* portfolio, limits, handlers, checkouts, webhooks, desks and responses.  *)
(*                                                                         *)
(* Each service has an inductive invariant about the rows and about what   *)
(* its requests hold between two transactions; it is proved of the         *)
(* service's own specification, which ServicesSpec implements.             *)
(***************************************************************************)
EXTENDS ServiceProperties, FiniteSetTheorems, WellFoundedInduction, TLAPS

-----------------------------------------------------------------------------
(* Numbers.  What holds of some natural number holds of a least one, which  *)
(* serves as the induction principle of the proofs below.                   *)

\* A set of numbers that has a member has a least one.
LEMMA LeastElement ==
    ASSUME NEW T \in SUBSET Nat, T # {}
    PROVE  \E n \in T : \A m \in T : n <= m
<1>1. PICK n \in T : \A m \in T : ~ (<<m, n>> \in OpToRel(<, Nat))
  BY NatLessThanWellFounded, WFMin, Zenon
<1>2. \A m \in T : ~ (m < n)
  BY <1>1, Zenon DEF OpToRel
<1> QED BY <1>2

\* A bounded set of numbers has a greatest one: its least bound.
LEMMA BoundedHasGreatest ==
    ASSUME NEW T \in SUBSET Nat, T # {}, NEW b \in Nat, \A t \in T : t < b
    PROVE  \E n \in T : \A t \in T : t <= n
<1> DEFINE Bounds == {u \in Nat : \A t \in T : t <= u}
<1>1. PICK n \in Bounds : \A u \in Bounds : n <= u
  <2>1. b \in Bounds
    OBVIOUS
  <2> QED BY <2>1, LeastElement
<1>2. CASE n \in T
  BY <1>2
<1>3. CASE n \notin T
  <2>1. \A t \in T : t < n
    BY <1>3
  <2>2. PICK t \in T : TRUE
    OBVIOUS
  <2>3. n - 1 \in Nat /\ \A s \in T : s <= n - 1
    BY <1>1, <2>1, <2>2
  <2> QED BY <1>1, <2>3
<1> QED BY <1>2, <1>3

-----------------------------------------------------------------------------
(* The composition.                                                         *)

\* Each service behaves in the composition as it does alone.
THEOREM ServicesAreIndependent ==
    ServicesSpec => DetectionSpec /\ ResponsesSpec /\ RegistrySpec /\ ProfilesSpec /\ BudgetSpec
<1>1. ServicesInit => DetectionInit /\ ResponsesInit /\ RegistryInit /\ ProfilesInit /\ BudgetInit
  BY DEF ServicesInit
<1>2. [ServicesNext]_servicesVars
        => /\ [DetectionNext]_detectionVars /\ [ResponsesNext]_responseVars
           /\ [RegistryNext]_registryVars /\ [ProfilesNext]_profileVars /\ [BudgetNext]_budgetVars
  BY DEF ServicesNext, Detect, Respond, GovernModels, ConfigureMerchants, PlanPortfolio, servicesVars
<1> QED
  BY <1>1, <1>2, PTL DEF ServicesSpec, DetectionSpec, ResponsesSpec, RegistrySpec, ProfilesSpec, BudgetSpec

-----------------------------------------------------------------------------
(* Budget allocation.                                                       *)

Items == [case : {c.case : c \in Portfolio}, action : {c.action : c \in Portfolio},
          nerv : Int, arrival : Int, rank : Nat]

\* What an item costs is a natural number of each kind.
LEMMA ResourcesAreNaturals == ASSUME NEW action PROVE Resources(action) \in [Kinds -> Nat]
  BY DEF Resources, Uses, Kinds

\* Prices are positive, so comparing values for money is well-founded.
LEMMA PricePositive ==
  ASSUME NEW item PROVE Price(item) \in {1, 25, 35, 70, 100}
  BY DEF Price, Resources, Uses, Kinds

\* What does not fit still does not fit when the totals have grown.
LEMMA FitsAntitone ==
  ASSUME NEW t \in [Kinds -> Nat], NEW u \in [Kinds -> Nat], NEW x \in [Kinds -> Nat],
         NEW limits \in [Kinds -> Nat],
         ~Fits(t, x, limits)
  PROVE  ~Fits([k \in Kinds |-> t[k] + u[k]], x, limits)
<1>1. PICK k \in Kinds : ~(t[k] + x[k] <= limits[k])
  BY DEF Fits
<1>2. ~((t[k] + u[k]) + x[k] <= limits[k])
  <2>1. t[k] \in Nat /\ u[k] \in Nat /\ x[k] \in Nat /\ limits[k] \in Nat
    OBVIOUS
  <2> QED BY <1>1, <2>1
<1> QED BY <1>2 DEF Fits

\* Of two items that need the same action, the one an algorithm takes first
\* is not the worse one.
LEMMA OrderRespectsWorth ==
  ASSUME NEW algorithm \in Algorithms, NEW a \in Items, NEW b \in Items,
         a.action = b.action, Precedes(algorithm, b, a)
  PROVE  ~Better(algorithm, a, b)
<1>1. CASE algorithm = "budget-greedy-v1"
  <2>1. Price(a) = Price(b) /\ Price(a) \in {1, 25, 35, 70, 100}
    BY PricePositive DEF Price
  <2>2. b.nerv * Price(a) >= a.nerv * Price(a)
    BY <1>1, <2>1 DEF Precedes, WorthMore, Items
  <2>3. b.nerv >= a.nerv
    BY <2>1, <2>2 DEF Items
  <2> QED BY <1>1, <2>3 DEF Better, Items
<1>2. CASE algorithm # "budget-greedy-v1"
  BY <1>2 DEF Precedes, ArrivedFirst, Better, Items
<1> QED BY <1>1, <1>2

\* A walk over the ordered items, at its end or before it.
Walked(ordered, algorithm, limits, totals, included, reached) ==
    /\ ordered \in Seq(Items) /\ algorithm \in Algorithms
    /\ limits \in [Kinds -> Nat] /\ totals \in [Kinds -> Nat]
    /\ \A i, j \in DOMAIN ordered : i < j => Precedes(algorithm, ordered[i], ordered[j])
    /\ included \subseteq reached /\ reached \subseteq DOMAIN ordered
    /\ \A i \in reached \ included : ~Fits(totals, Resources(ordered[i].action), limits)
    /\ \A i, j \in reached :
         i < j /\ ordered[i].action = ordered[j].action /\ j \in included => i \in included

Walks == [pc : {"walking"}, algorithm : Algorithms, priorityRun : Nat, limits : LimitChoices,
          ordered : Seq(Items), next : Nat \ {0}, included : SUBSET Nat, totals : [Kinds -> Nat]]

Reached(a) == {i \in DOMAIN a.ordered : i < a.next}

WalkInv(a) == Walked(a.ordered, a.algorithm, a.limits, a.totals, a.included, Reached(a))

BudgetInv ==
    /\ priorityRuns \in Seq(Seq(Items))
    /\ \A run \in budgetRuns :
         Walked(run.ordered, run.algorithm, run.limits, run.totals, run.included, DOMAIN run.ordered)
    /\ allocation # NoAllocation => allocation \in Walks /\ WalkInv(allocation)

\* A priority run is a sequence of items.
LEMMA PrioritizeInv == BudgetInv /\ PrioritizePortfolio => BudgetInv'
<1> SUFFICES ASSUME BudgetInv, PrioritizePortfolio PROVE priorityRuns' \in Seq(Seq(Items))
  BY DEF BudgetInv, PrioritizePortfolio, WalkInv, Reached
<1>0. PICK candidates \in SUBSET Portfolio : \E ranked \in Rankings(candidates) :
        priorityRuns' = Append(priorityRuns, [r \in DOMAIN ranked |-> Item(ranked[r], r)])
  BY DEF PrioritizePortfolio
<1>1. PICK ranked \in Rankings(candidates) :
        priorityRuns' = Append(priorityRuns, [r \in DOMAIN ranked |-> Item(ranked[r], r)])
  BY <1>0
<1>2. Cardinality(candidates) \in Nat
  BY <1>1, PortfolioAssumption, FS_Subset, FS_CardinalityType
<1>3. ranked \in [1 .. Cardinality(candidates) -> candidates]
  BY DEF Rankings
<1>4. ASSUME NEW r \in DOMAIN ranked PROVE Item(ranked[r], r) \in Items
  <2>1. ranked[r] \in Portfolio /\ r \in Nat
    BY <1>2, <1>3
  <2> QED BY <2>1, PortfolioAssumption DEF Item, Items
<1>5. [r \in DOMAIN ranked |-> Item(ranked[r], r)] \in Seq(Items)
  BY <1>2, <1>3, <1>4
<1> QED BY <1>1, <1>5 DEF BudgetInv

\* A walk begins with the order of its algorithm and nothing reached.
LEMMA StartInv == BudgetInv /\ StartAllocation => BudgetInv'
<1> SUFFICES ASSUME BudgetInv, StartAllocation PROVE allocation' \in Walks /\ WalkInv(allocation)'
  BY DEF BudgetInv, StartAllocation
<1>1. PICK run \in DOMAIN priorityRuns, limits \in LimitChoices, algorithm \in Algorithms :
      \E ordered \in Orders(priorityRuns[run], algorithm) :
        allocation' = [pc |-> "walking", algorithm |-> algorithm, priorityRun |-> run, limits |-> limits,
                       ordered |-> ordered, next |-> 1, included |-> {}, totals |-> [k \in Kinds |-> 0]]
  BY DEF StartAllocation
<1>2. PICK ordered \in Orders(priorityRuns[run], algorithm) :
        allocation' = [pc |-> "walking", algorithm |-> algorithm, priorityRun |-> run, limits |-> limits,
                       ordered |-> ordered, next |-> 1, included |-> {}, totals |-> [k \in Kinds |-> 0]]
  BY <1>1
<1>3. priorityRuns[run] \in Seq(Items) /\ run \in Nat
  BY DEF BudgetInv
<1>4. ordered \in [DOMAIN priorityRuns[run] -> Range(priorityRuns[run])]
  BY DEF Orders
<1>5. Range(priorityRuns[run]) \subseteq Items
  BY <1>3 DEF Range
<1>6. ordered \in Seq(Items)
  BY <1>3, <1>4, <1>5
<1>7. \A i, j \in DOMAIN ordered : i < j => Precedes(algorithm, ordered[i], ordered[j])
  BY DEF Orders
<1>8. allocation' \in Walks
  BY <1>2, <1>3, <1>6 DEF Walks
<1>9. Reached(allocation)' = {}
  BY <1>2, <1>6 DEF Reached
<1> QED BY <1>2, <1>6, <1>7, <1>8, <1>9, LimitsAssumption DEF WalkInv, Walked

\* A step of a walk: the item is included exactly when it fits, and what did
\* not fit before does not fit afterwards.
LEMMA AllocateInv == BudgetInv /\ AllocateNext => BudgetInv'
<1> SUFFICES ASSUME BudgetInv, AllocateNext PROVE allocation' \in Walks /\ WalkInv(allocation)'
  BY DEF BudgetInv, AllocateNext
<1> DEFINE a == allocation
           n == a.next
           uses == Resources(a.ordered[n].action)
<1>1. a \in Walks /\ WalkInv(a) /\ n \in DOMAIN a.ordered
  BY DEF BudgetInv, AllocateNext, NoAllocation
<1>2. /\ uses \in [Kinds -> Nat] /\ a.totals \in [Kinds -> Nat] /\ a.limits \in [Kinds -> Nat]
      /\ a.ordered \in Seq(Items) /\ a.algorithm \in Algorithms /\ n \in Nat
  BY <1>1, ResourcesAreNaturals, LimitsAssumption DEF Walks
<1>3. Include(a, a.ordered[n]) <=> Fits(a.totals, uses, a.limits)
  BY DEF Include
<1>4. allocation' = [a EXCEPT
        !.next = n + 1,
        !.included = IF Include(a, a.ordered[n]) THEN a.included \cup {n} ELSE a.included,
        !.totals = IF Include(a, a.ordered[n]) THEN [k \in Kinds |-> a.totals[k] + uses[k]] ELSE a.totals]
  BY <1>1 DEF AllocateNext, Walks
<1>5. /\ allocation'.ordered = a.ordered /\ allocation'.algorithm = a.algorithm
      /\ allocation'.limits = a.limits /\ allocation'.next = n + 1
  BY <1>1, <1>4 DEF Walks
<1>6. Reached(allocation)' = Reached(a) \cup {n}
  BY <1>1, <1>2, <1>5 DEF Reached
<1>7. /\ a.included \subseteq Reached(a) /\ n \notin Reached(a)
      /\ \A i \in Reached(a) : i \in DOMAIN a.ordered /\ i < n
  BY <1>1, <1>2 DEF WalkInv, Walked, Reached
<1>8. CASE Include(a, a.ordered[n])
  <2> DEFINE totals == [k \in Kinds |-> a.totals[k] + uses[k]]
  <2>1. allocation'.included = a.included \cup {n} /\ allocation'.totals = totals
    BY <1>1, <1>4, <1>8 DEF Walks
  <2>2. totals \in [Kinds -> Nat]
    BY <1>2
  <2>3. allocation' \in Walks
    <3>1. allocation' = [a EXCEPT !.next = n + 1, !.included = a.included \cup {n}, !.totals = totals]
      BY <1>4, <1>8
    <3>2. n + 1 \in Nat \ {0} /\ a.included \cup {n} \in SUBSET Nat
      BY <1>1, <1>2 DEF Walks
    <3> QED BY <1>1, <2>2, <3>1, <3>2 DEF Walks
  <2>4. ASSUME NEW i \in Reached(a) \ a.included
        PROVE ~Fits(totals, Resources(a.ordered[i].action), a.limits)
    <3>1. ~Fits(a.totals, Resources(a.ordered[i].action), a.limits)
      BY <1>1 DEF WalkInv, Walked
    <3> QED BY <1>2, <3>1, ResourcesAreNaturals, FitsAntitone
  <2>5. ASSUME NEW i \in Reached(a) \ a.included PROVE a.ordered[i].action # a.ordered[n].action
    BY <1>1, <1>3, <1>8 DEF WalkInv, Walked
  <2>6. ASSUME NEW i \in Reached(a) \cup {n}, NEW j \in Reached(a) \cup {n}, i < j,
               a.ordered[i].action = a.ordered[j].action, j \in a.included \cup {n}
        PROVE i \in a.included \cup {n}
    <3>1. CASE j = n
      BY <1>2, <2>5, <2>6, <3>1
    <3>2. CASE j # n
      BY <1>1, <1>2, <1>7, <2>6, <3>2 DEF WalkInv, Walked
    <3> QED BY <3>1, <3>2
  <2>7. \A i, j \in DOMAIN a.ordered : i < j => Precedes(a.algorithm, a.ordered[i], a.ordered[j])
    BY <1>1 DEF WalkInv, Walked
  <2>8. a.included \cup {n} \subseteq Reached(a) \cup {n} /\ Reached(a) \cup {n} \subseteq DOMAIN a.ordered
    BY <1>1, <1>7
  <2>9. \A i \in (Reached(a) \cup {n}) \ (a.included \cup {n}) :
           ~Fits(totals, Resources(a.ordered[i].action), a.limits)
    BY <2>4
  <2> HIDE DEF a, n, uses, totals
  <2>10. Walked(a.ordered, a.algorithm, a.limits, totals, a.included \cup {n}, Reached(a) \cup {n})
    BY <1>2, <2>2, <2>6, <2>7, <2>8, <2>9 DEF Walked
  <2> QED BY <1>5, <1>6, <2>1, <2>3, <2>10 DEF WalkInv
<1>9. CASE ~Include(a, a.ordered[n])
  <2>1. allocation'.included = a.included /\ allocation'.totals = a.totals
    BY <1>1, <1>4, <1>9 DEF Walks
  <2>2. allocation' \in Walks
    <3>1. allocation' = [a EXCEPT !.next = n + 1, !.included = a.included, !.totals = a.totals]
      BY <1>4, <1>9
    <3>2. n + 1 \in Nat \ {0}
      BY <1>2
    <3> QED BY <1>1, <3>1, <3>2 DEF Walks
  <2>3. ASSUME NEW i \in (Reached(a) \cup {n}) \ a.included
        PROVE ~Fits(a.totals, Resources(a.ordered[i].action), a.limits)
    BY <1>1, <1>3, <1>9 DEF WalkInv, Walked
  <2>4. ASSUME NEW i \in Reached(a) \cup {n}, NEW j \in Reached(a) \cup {n}, i < j,
               a.ordered[i].action = a.ordered[j].action, j \in a.included
        PROVE i \in a.included
    BY <1>1, <1>2, <1>7, <2>4 DEF WalkInv, Walked
  <2> QED BY <1>1, <1>2, <1>5, <1>6, <1>7, <2>1, <2>2, <2>3, <2>4 DEF WalkInv, Walked
<1> QED BY <1>8, <1>9

\* A saved run has reached all its items.
LEMMA SaveInv == BudgetInv /\ SaveBudgetRun => BudgetInv'
<1> SUFFICES ASSUME BudgetInv, SaveBudgetRun PROVE BudgetInv'
  OBVIOUS
<1> DEFINE a == allocation
           new == [algorithm |-> a.algorithm, priorityRun |-> a.priorityRun, limits |-> a.limits,
                   ordered |-> a.ordered, included |-> a.included, totals |-> a.totals]
<1>1. a \in Walks /\ WalkInv(a) /\ a.next \notin DOMAIN a.ordered
  BY DEF BudgetInv, SaveBudgetRun, NoAllocation
<1>2. Reached(a) = DOMAIN a.ordered
  BY <1>1 DEF Walks, Reached
<1>3. Walked(new.ordered, new.algorithm, new.limits, new.totals, new.included, DOMAIN new.ordered)
  BY <1>1, <1>2 DEF WalkInv
<1>4. budgetRuns' = budgetRuns \cup {new} /\ allocation' = NoAllocation /\ priorityRuns' = priorityRuns
  BY DEF SaveBudgetRun
<1> QED BY <1>3, <1>4 DEF BudgetInv

\* Every step of a budget request keeps the walk.
LEMMA BudgetStep == BudgetInv /\ [BudgetNext]_budgetVars => BudgetInv'
<1>1. BudgetInv /\ FailAllocation => BudgetInv'
  BY DEF BudgetInv, FailAllocation
<1>2. BudgetInv /\ UNCHANGED budgetVars => BudgetInv'
  BY DEF BudgetInv, budgetVars, WalkInv, Reached
<1> QED BY <1>1, <1>2, PrioritizeInv, StartInv, AllocateInv, SaveInv DEF BudgetNext

\* The walk is kept in every state.
LEMMA BudgetInvariant == BudgetSpec => []BudgetInv
<1>1. BudgetInit => BudgetInv
  BY DEF BudgetInit, BudgetInv
<1> QED BY <1>1, BudgetStep, PTL DEF BudgetSpec

\* No limit has room left for an excluded item, for any portfolio, limits and
\* order of the items (budget.go's walk).
THEOREM BudgetsAreUsedUp == ServicesSpec => []NothingFitsLeft
<1>1. BudgetInv => NothingFitsLeft
  BY DEF BudgetInv, Walked, NothingFitsLeft, UsesOf
<1> QED BY <1>1, BudgetInvariant, ServicesAreIndependent, PTL

\* The algorithm's own order decides between two cases that need the same
\* action (budget.go's comparison functions and walk).
THEOREM BudgetsAreFair == ServicesSpec => []FairAmongEquals
<1>1. BudgetInv => FairAmongEquals
  <2> SUFFICES ASSUME BudgetInv, NEW run \in budgetRuns,
                      NEW i \in DOMAIN run.ordered, NEW j \in DOMAIN run.ordered,
                      run.ordered[i].action = run.ordered[j].action,
                      Better(run.algorithm, run.ordered[i], run.ordered[j]), j \in run.included
               PROVE i \in run.included
    BY DEF FairAmongEquals
  <2>1. Walked(run.ordered, run.algorithm, run.limits, run.totals, run.included, DOMAIN run.ordered)
    BY DEF BudgetInv
  <2>2. run.ordered[i] \in Items /\ run.ordered[j] \in Items /\ i \in Nat /\ j \in Nat
    BY <2>1 DEF Walked
  <2>3. CASE i < j
    BY <2>1, <2>3 DEF Walked
  <2>4. CASE i = j
    BY <2>4
  <2>5. CASE j < i
    <3>1. Precedes(run.algorithm, run.ordered[j], run.ordered[i]) /\ run.algorithm \in Algorithms
      BY <2>1, <2>5 DEF Walked
    <3> QED BY <2>2, <3>1, OrderRespectsWorth
  <2> QED BY <2>2, <2>3, <2>4, <2>5
<1> QED BY <1>1, BudgetInvariant, ServicesAreIndependent, PTL

\* A ledger of the charges of the first items of a walk.
Ledger(a, k, reached, f) ==
    /\ f \in [0 .. reached -> Nat] /\ f[0] = 0
    /\ \A i \in 1 .. reached : f[i] = f[i - 1] + Charge(a, i, k)

\* What is in the totals is what the items reached so far were charged, and
\* it is within the limits.
Charged(a, reached) ==
    /\ a.limits \in LimitChoices
    /\ \A k \in Kinds :
         /\ a.totals[k] <= a.limits[k]
         /\ \E f : Ledger(a, k, reached, f) /\ f[reached] = a.totals[k]

ChargesInv ==
    /\ \A run \in budgetRuns : Charged(run, Len(run.ordered))
    /\ allocation # NoAllocation =>
         allocation.next - 1 \in 0 .. Len(allocation.ordered) /\ Charged(allocation, allocation.next - 1)

\* Ledgers agree with the sum a recursive function defines.
LEMMA LedgerIsSum ==
    ASSUME NEW run, NEW k, NEW f, Len(run.ordered) \in Nat, Ledger(run, k, Len(run.ordered), f)
    PROVE  Spent(run, k) = f[Len(run.ordered)]
<1> DEFINE n == Len(run.ordered)
           IsSum(s) == s = [i \in 0 .. n |-> IF i = 0 THEN 0 ELSE s[i - 1] + Charge(run, i, k)]
           sum == CHOOSE s : IsSum(s)
<1>1. IsSum(f)
  <2>1. f = [i \in 0 .. n |-> f[i]]
    BY DEF Ledger
  <2>2. \A i \in 0 .. n : f[i] = IF i = 0 THEN 0 ELSE f[i - 1] + Charge(run, i, k)
    BY DEF Ledger
  <2> QED BY <2>1, <2>2
<1>2. IsSum(sum)
  <2> HIDE DEF IsSum
  <2> QED BY <1>1
<1>3. Spent(run, k) = sum[n]
  BY DEF Spent
<1> HIDE DEF sum
<1>4. \A i \in 0 .. n : sum[i] = IF i = 0 THEN 0 ELSE sum[i - 1] + Charge(run, i, k)
  BY <1>2
<1>5. \A i \in 0 .. n : f[i] = IF i = 0 THEN 0 ELSE f[i - 1] + Charge(run, i, k)
  BY DEF Ledger
<1> HIDE DEF IsSum
<1>6. ASSUME NEW i \in 0 .. n, sum[i] # f[i] PROVE FALSE
  <2> DEFINE T == {j \in 0 .. n : sum[j] # f[j]}
  <2>1. PICK j \in T : \A l \in T : j <= l
    <3>1. T \in SUBSET Nat /\ T # {}
      BY <1>6
    <3> HIDE DEF T
    <3> QED BY <3>1, LeastElement
  <2>2. j \in 0 .. n /\ j # 0
    BY <1>4, <1>5
  <2>3. j - 1 \in 0 .. n /\ ~(j <= j - 1)
    BY <2>2
  <2>4. sum[j - 1] = f[j - 1]
    BY <2>1, <2>3
  <2> QED BY <1>4, <1>5, <2>2, <2>4
<1>7. n \in 0 .. n
  OBVIOUS
<1> QED BY <1>3, <1>6, <1>7

\* A step of a walk enters its item in the ledgers, and an item that fits keeps the limits.
LEMMA AllocateCharges == BudgetInv /\ ChargesInv /\ AllocateNext => ChargesInv'
<1> SUFFICES ASSUME BudgetInv, ChargesInv, AllocateNext
             PROVE  /\ allocation'.next - 1 \in 0 .. Len(allocation'.ordered)
                    /\ Charged(allocation', allocation'.next - 1)
  BY DEF ChargesInv, AllocateNext, Charged, Ledger, Charge, UsesOf
<1> DEFINE a == allocation
           n == a.next
           item == a.ordered[n]
           uses == Resources(item.action)
           b == allocation'
<1>1. a \in Walks /\ n \in DOMAIN a.ordered /\ Charged(a, n - 1)
  BY DEF BudgetInv, ChargesInv, AllocateNext, NoAllocation
<1>2. /\ uses \in [Kinds -> Nat] /\ a.totals \in [Kinds -> Nat] /\ a.limits \in [Kinds -> Nat]
      /\ a.ordered \in Seq(Items) /\ n \in Nat \ {0} /\ n <= Len(a.ordered)
  BY <1>1, ResourcesAreNaturals, LimitsAssumption DEF Walks
<1>3. b = [a EXCEPT
        !.next = n + 1,
        !.included = IF Include(a, item) THEN a.included \cup {n} ELSE a.included,
        !.totals = IF Include(a, item) THEN [k \in Kinds |-> a.totals[k] + uses[k]] ELSE a.totals]
  BY <1>1 DEF AllocateNext, Walks
<1>4. /\ b.ordered = a.ordered /\ b.limits = a.limits /\ b.next = n + 1
      /\ b.included = IF Include(a, item) THEN a.included \cup {n} ELSE a.included
      /\ b.totals = IF Include(a, item) THEN [k \in Kinds |-> a.totals[k] + uses[k]] ELSE a.totals
  BY <1>1, <1>3 DEF Walks
<1>5. n \notin a.included
  BY <1>1, <1>2 DEF BudgetInv, WalkInv, Walked, Reached, NoAllocation, Walks
<1>6. ASSUME NEW k \in Kinds
      PROVE  /\ b.totals[k] <= b.limits[k]
             /\ \E f : Ledger(b, k, n, f) /\ f[n] = b.totals[k]
  <2>1. /\ b.totals[k] = a.totals[k] + Charge(b, n, k)
        /\ Charge(b, n, k) \in Nat
        /\ \A i \in 1 .. (n - 1) : Charge(b, i, k) = Charge(a, i, k)
    BY <1>2, <1>4, <1>5 DEF Charge, UsesOf
  <2>2. b.totals[k] <= b.limits[k]
    <3>1. CASE Include(a, item)
      BY <1>4, <3>1 DEF Include, Fits
    <3>2. CASE ~Include(a, item)
      BY <1>1, <1>4, <3>2 DEF Charged
    <3> QED BY <3>1, <3>2
  <2>3. PICK f : Ledger(a, k, n - 1, f) /\ f[n - 1] = a.totals[k]
    BY <1>1 DEF Charged
  <2> DEFINE g == [i \in 0 .. n |-> IF i = n THEN b.totals[k] ELSE f[i]]
  <2>4. b.totals[k] \in Nat /\ f \in [0 .. (n - 1) -> Nat] /\ f[0] = 0
    BY <1>2, <2>1, <2>3 DEF Ledger
  <2>5. g \in [0 .. n -> Nat] /\ g[0] = 0 /\ g[n] = b.totals[k]
    BY <1>2, <2>4
  <2>6. ASSUME NEW i \in 1 .. n PROVE g[i] = g[i - 1] + Charge(b, i, k)
    <3>1. CASE i = n
      BY <1>2, <2>1, <2>3, <3>1
    <3>2. CASE i # n
      <4>1. i \in 1 .. (n - 1) /\ i - 1 \in 0 .. (n - 1)
        BY <1>2, <3>2
      <4>2. f[i] = f[i - 1] + Charge(b, i, k)
        BY <2>1, <2>3, <4>1 DEF Ledger
      <4> QED BY <1>2, <3>2, <4>1, <4>2
    <3> QED BY <3>1, <3>2
  <2>7. Ledger(b, k, n, g)
    <3> HIDE DEF g
    <3> QED BY <2>5, <2>6 DEF Ledger
  <2> QED BY <2>2, <2>5, <2>7
<1>7. b.limits \in LimitChoices /\ (n + 1) - 1 = n
  BY <1>1, <1>2, <1>4 DEF Charged
<1>8. Charged(b, n)
  BY <1>6, <1>7 DEF Charged
<1> QED BY <1>2, <1>4, <1>7, <1>8

\* Every step keeps the ledgers of the walk and of the saved runs.
LEMMA ChargesStep == BudgetInv /\ ChargesInv /\ [BudgetNext]_budgetVars => ChargesInv'
<1> SUFFICES ASSUME BudgetInv, ChargesInv, [BudgetNext]_budgetVars PROVE ChargesInv'
  OBVIOUS
<1>1. CASE PrioritizePortfolio \/ UNCHANGED budgetVars
  <2>1. UNCHANGED <<allocation, budgetRuns>>
    BY <1>1 DEF PrioritizePortfolio, budgetVars
  <2>2. ASSUME NEW b, NEW n PROVE Charged(b, n)' <=> Charged(b, n)
    BY DEF Charged, Ledger, Charge, UsesOf
  <2> QED BY <2>1, <2>2 DEF ChargesInv
<1>2. CASE StartAllocation
  <2>1. UNCHANGED budgetRuns /\ allocation' \in Walks
    <3>1. BudgetInv'
      BY <1>2, StartInv
    <3>2. UNCHANGED budgetRuns /\ allocation'.pc = "walking"
      BY <1>2 DEF StartAllocation
    <3>3. allocation' # NoAllocation
      BY <3>2 DEF NoAllocation
    <3> QED BY <3>1, <3>2, <3>3 DEF BudgetInv
  <2>2. /\ allocation'.next = 1 /\ allocation'.limits \in LimitChoices
        /\ allocation'.totals = [k \in Kinds |-> 0]
    BY <1>2 DEF StartAllocation
  <2>3. ASSUME NEW k \in Kinds
        PROVE  /\ allocation'.totals[k] <= allocation'.limits[k]
               /\ \E f : Ledger(allocation', k, 0, f) /\ f[0] = allocation'.totals[k]
    <3>1. allocation'.totals[k] = 0 /\ allocation'.limits[k] \in Nat
      BY <2>2, LimitsAssumption
    <3>2. Ledger(allocation', k, 0, [i \in 0 .. 0 |-> 0])
      BY DEF Ledger
    <3>3. [i \in 0 .. 0 |-> 0][0] = 0
      OBVIOUS
    <3> QED BY <3>1, <3>2, <3>3
  <2>4. Charged(allocation', 0)
    BY <2>2, <2>3 DEF Charged
  <2>5. allocation'.next - 1 = 0 /\ 0 \in 0 .. Len(allocation'.ordered)
    BY <2>1, <2>2 DEF Walks
  <2> QED BY <2>1, <2>2, <2>4, <2>5 DEF ChargesInv
<1>3. CASE AllocateNext
  BY <1>3, AllocateCharges
<1>4. CASE SaveBudgetRun
  <2> DEFINE a == allocation
             new == [algorithm |-> a.algorithm, priorityRun |-> a.priorityRun, limits |-> a.limits,
                     ordered |-> a.ordered, included |-> a.included, totals |-> a.totals]
  <2>1. a \in Walks /\ a.next \notin DOMAIN a.ordered /\ a.next - 1 \in 0 .. Len(a.ordered)
    BY <1>4 DEF BudgetInv, ChargesInv, SaveBudgetRun, NoAllocation
  <2>2. a.next - 1 = Len(a.ordered) /\ Charged(a, Len(a.ordered))
    <3>1. a.next - 1 = Len(a.ordered)
      BY <2>1 DEF Walks
    <3> QED BY <1>4, <3>1 DEF ChargesInv, SaveBudgetRun, NoAllocation
  <2>3. Charged(new, Len(new.ordered))
    BY <2>2 DEF Charged, Ledger, Charge, UsesOf
  <2>4. budgetRuns' = budgetRuns \cup {new} /\ allocation' = NoAllocation
    BY <1>4 DEF SaveBudgetRun
  <2> HIDE DEF new
  <2> QED BY <2>3, <2>4 DEF ChargesInv
<1>5. CASE FailAllocation
  BY <1>5 DEF FailAllocation, ChargesInv, Charged, Ledger, Charge, UsesOf
<1> QED BY <1>1, <1>2, <1>3, <1>4, <1>5 DEF BudgetNext

\* The ledgers are right in every state.
LEMMA ChargesInvariant == BudgetSpec => []ChargesInv
<1>1. BudgetInit => ChargesInv
  BY DEF BudgetInit, ChargesInv
<1> QED BY <1>1, ChargesStep, BudgetInvariant, PTL DEF BudgetSpec

\* What a run spends, and records, is within every limit it was given, for
\* any portfolio and limits (budget.go's walk).
THEOREM BudgetsAreKept == ServicesSpec => []BudgetKept
<1>1. BudgetInv /\ ChargesInv => BudgetKept
  <2> SUFFICES ASSUME BudgetInv, ChargesInv, NEW run \in budgetRuns, NEW k \in Kinds
               PROVE run.totals[k] = Spent(run, k) /\ Spent(run, k) <= run.limits[k]
    BY DEF BudgetKept
  <2>1. Len(run.ordered) \in Nat
    BY DEF BudgetInv, Walked
  <2>2. Charged(run, Len(run.ordered))
    BY DEF ChargesInv
  <2>3. PICK f : Ledger(run, k, Len(run.ordered), f) /\ f[Len(run.ordered)] = run.totals[k]
    BY <2>2 DEF Charged
  <2>4. Spent(run, k) = run.totals[k]
    BY <2>1, <2>3, LedgerIsSum
  <2> QED BY <2>2, <2>4 DEF Charged
<1> QED BY <1>1, BudgetInvariant, ChargesInvariant, ServicesAreIndependent, PTL

-----------------------------------------------------------------------------
(* Detection.                                                               *)

Loads == [pc : {"loaded"}, checkout : Checkouts, kind : {"STARTED", "SELECTED", "FAILED", "ABANDONED"},
          at : Nat, session : Sessions]

Looks == [pc : {"looking", "missing", "found", "failed"}, risk : Risks \cup {NoRisk},
          event : RiskEvents \cup {NoRisk}]

DetectionTypes ==
    /\ cases \in [Shops \X Sources -> Nat \cup {NoCase}]
    /\ sessions \in [Checkouts -> Sessions \cup {NoSession}]
    /\ riskEvent \in [RiskEvents -> {"absent", "RECEIVED", "PROCESSED", "FAILED"}]
    /\ report \in [Handlers -> {Free} \cup Loads \cup Looks]
    /\ now \in Nat

\* A risk about a checkout is about the merchant of its session; a webhook's
\* risk is what the webhook said.
RiskKnown(r) ==
    /\ r.risk \in Risks
    /\ r.risk.source \in Checkouts =>
         sessions[r.risk.source] # NoSession /\ sessions[r.risk.source].shop = r.risk.shop
    /\ r.event # NoRisk => RiskOf(r.event) = r.risk /\ r.risk # Unusable

\* What a handler holds between two transactions is still so: a session that
\* was loaded keeps its merchant, a case that was found stays.
ReportTrue(r) ==
    /\ r.pc = "loaded" /\ r.kind # "STARTED" =>
         sessions[r.checkout] # NoSession /\ sessions[r.checkout].shop = r.session.shop
    /\ r.pc \in {"looking", "missing", "found"} => RiskKnown(r)
    /\ r.pc = "found" => cases[<<r.risk.shop, r.risk.source>>] # NoCase

DetectionInv ==
    /\ DetectionTypes
    /\ \A h \in Handlers : ReportTrue(report[h])
    /\ OneCasePerCheckout /\ ProcessedHasCase

\* What any step may do to the rows and to what the handlers hold.
Monotone ==
    /\ \A k \in Shops \X Sources : cases[k] # NoCase => cases'[k] = cases[k]
    /\ \A c \in Checkouts :
         sessions[c] # NoSession => sessions'[c] # NoSession /\ sessions'[c].shop = sessions[c].shop

\* Reports that a step leaves alone stay true when rows only grow.
LEMMA ReportStaysTrue ==
  ASSUME NEW h \in Handlers, DetectionTypes, ReportTrue(report[h]), report'[h] = report[h], Monotone
  PROVE  ReportTrue(report[h])'
<1>1. report[h] = Free \/ report[h] \in Loads \/ report[h] \in Looks
  BY DEF DetectionTypes
<1>2. CASE report[h] = Free
  BY <1>2 DEF Free, ReportTrue
<1>3. CASE report[h] \in Loads
  BY <1>3 DEF Loads, ReportTrue, Monotone
<1>4. CASE report[h] \in Looks
  <2>1. CASE report[h].pc = "failed"
    BY <1>4, <2>1 DEF ReportTrue, Looks
  <2>2. CASE report[h].pc # "failed"
    <3>1. RiskKnown(report[h])
      BY <1>4, <2>2 DEF ReportTrue, Looks
    <3>2. <<report[h].risk.shop, report[h].risk.source>> \in Shops \X Sources
      BY <3>1 DEF RiskKnown, Risks
    <3>3. RiskKnown(report[h])'
      BY <3>1 DEF RiskKnown, Monotone
    <3> QED BY <1>4, <3>2, <3>3 DEF ReportTrue, Monotone, Looks
  <2> QED BY <2>1, <2>2
<1> QED BY <1>1, <1>2, <1>3, <1>4

\* A step that changes no row and gives one handler a true report.
LEMMA OneReport ==
  ASSUME NEW h \in Handlers, NEW r \in {Free} \cup Loads \cup Looks, DetectionInv,
         Set(h, r), UNCHANGED <<cases, sessions>>, ReportTrue(r),
         riskEvent' \in [RiskEvents -> {"absent", "RECEIVED", "PROCESSED", "FAILED"}],
         ProcessedHasCase', now' = now
  PROVE  DetectionInv'
<1>1. DetectionTypes'
  BY DEF DetectionInv, DetectionTypes, Set
<1>2. ASSUME NEW g \in Handlers PROVE ReportTrue(report[g])'
  <2>1. CASE g = h
    <3>1. report'[h] = r
      BY DEF Set, DetectionInv, DetectionTypes
    <3> QED BY <2>1, <3>1 DEF ReportTrue, RiskKnown
  <2>2. CASE g # h
    <3>1. report'[g] = report[g]
      BY <2>2 DEF Set, DetectionInv, DetectionTypes
    <3>2. Monotone
      BY DEF Monotone
    <3> QED BY <3>1, <3>2, ReportStaysTrue DEF DetectionInv
  <2> QED BY <2>1, <2>2
<1>3. OneCasePerCheckout'
  BY DEF DetectionInv, OneCasePerCheckout
<1> QED BY <1>1, <1>2, <1>3 DEF DetectionInv

\* A start brings its own session.
LEMMA StartCheckoutInv ==
  ASSUME DetectionInv, NEW h \in Handlers, NEW c \in Checkouts, NEW shop \in Shops, NEW extra \in {0, 1},
         StartCheckout(h, c, shop, now + Window + extra)
  PROVE  DetectionInv'
<1> DEFINE r == [pc |-> "loaded", checkout |-> c, kind |-> "STARTED", at |-> now,
                 session |-> [shop |-> shop, until |-> now + Window + extra]]
<1>1. r \in Loads
  <2>1. now \in Nat /\ now + Window + extra \in Nat
    BY DetectionAssumption DEF DetectionInv, DetectionTypes
  <2> QED BY <2>1 DEF Loads, Sessions
<1>2. ReportTrue(r)
  BY DEF ReportTrue
<1>3. Set(h, r) /\ UNCHANGED <<cases, sessions, riskEvent, now>>
  BY DEF StartCheckout
<1>4. ProcessedHasCase'
  BY <1>3 DEF DetectionInv, ProcessedHasCase
<1> QED
  <2> HIDE DEF r
  <2> QED BY <1>1, <1>2, <1>3, <1>4, OneReport DEF DetectionInv, DetectionTypes

\* Any other event loads the session of its checkout.
LEMMA ContinueCheckoutInv ==
  ASSUME DetectionInv, NEW h \in Handlers, NEW c \in Checkouts,
         NEW kind \in {"SELECTED", "FAILED", "ABANDONED"}, NEW at \in 0 .. now,
         ContinueCheckout(h, c, kind, at)
  PROVE  DetectionInv'
<1> DEFINE r == [pc |-> "loaded", checkout |-> c, kind |-> kind, at |-> at, session |-> sessions[c]]
<1>1. sessions[c] \in Sessions /\ sessions[c] # NoSession
  BY DEF ContinueCheckout, DetectionInv, DetectionTypes
<1>2. r \in Loads
  BY <1>1 DEF Loads, DetectionInv, DetectionTypes
<1>3. ReportTrue(r)
  BY <1>1 DEF ReportTrue
<1>4. Set(h, r) /\ UNCHANGED <<cases, sessions, riskEvent, now>>
  BY DEF ContinueCheckout
<1>5. ProcessedHasCase'
  BY <1>4 DEF DetectionInv, ProcessedHasCase
<1> QED
  <2> HIDE DEF r
  <2> QED BY <1>2, <1>3, <1>4, <1>5, OneReport DEF DetectionInv, DetectionTypes

\* The session is written without touching the merchant of one that exists,
\* and the risk is about that merchant.
LEMMA SaveCheckoutInv ==
  ASSUME DetectionInv, NEW h \in Handlers, SaveCheckout(h)
  PROVE  DetectionInv' /\ Monotone
<1> DEFINE r == report[h]
           c == r.checkout
           risk == [shop |-> r.session.shop, source |-> c, deadline |-> r.session.until]
           held == IF r.kind \in {"FAILED", "ABANDONED"} /\ r.at < r.session.until
                   THEN Looking("looking", risk, NoRisk) ELSE Free
<1>1. r \in Loads /\ c \in Checkouts /\ r.session \in Sessions
  BY DEF SaveCheckout, DetectionInv, DetectionTypes, Free, Looks, Loads
<1>2. /\ sessions' = [sessions EXCEPT ![c] = Upserted(c, r.session)]
      /\ report' = [report EXCEPT ![h] = held]
      /\ UNCHANGED <<cases, riskEvent, now>>
  BY DEF SaveCheckout, Set
<1>3. /\ Upserted(c, r.session) \in Sessions
      /\ sessions[c] # NoSession => Upserted(c, r.session).shop = sessions[c].shop
      /\ sessions[c] = NoSession => Upserted(c, r.session) = r.session
  BY <1>1 DEF Upserted, DetectionInv, DetectionTypes, Sessions
<1>4. Upserted(c, r.session) # NoSession
  BY <1>3, DetectionAssumption
<1>5. Monotone
  BY <1>1, <1>2, <1>3, <1>4 DEF Monotone, DetectionInv, DetectionTypes
<1>6. risk \in Risks
  BY <1>1 DEF Risks, Sources, Sessions
<1>7. held \in {Free} \cup Looks
  BY <1>6 DEF Looks, Looking
<1>8. DetectionTypes'
  BY <1>1, <1>2, <1>3, <1>7 DEF DetectionInv, DetectionTypes
<1>9. ASSUME NEW g \in Handlers PROVE ReportTrue(report[g])'
  <2>1. CASE g = h
    <3>1. report'[h] = held
      BY <1>2 DEF DetectionInv, DetectionTypes
    <3>2. CASE r.kind \in {"FAILED", "ABANDONED"} /\ r.at < r.session.until
      <4>1. sessions[c] # NoSession /\ sessions[c].shop = r.session.shop
        BY <1>1, <3>2 DEF DetectionInv, ReportTrue, Loads
      <4>2. sessions'[c] # NoSession /\ sessions'[c].shop = risk.shop
        BY <1>1, <1>5, <4>1 DEF Monotone
      <4>3. report'[h] = Looking("looking", risk, NoRisk)
        BY <3>1, <3>2
      <4> QED BY <1>6, <2>1, <4>2, <4>3 DEF ReportTrue, RiskKnown, Looking
    <3>3. CASE ~(r.kind \in {"FAILED", "ABANDONED"} /\ r.at < r.session.until)
      <4>1. report'[h] = Free
        BY <3>1, <3>3
      <4> QED BY <2>1, <4>1 DEF ReportTrue, Free
    <3> QED BY <3>2, <3>3
  <2>2. CASE g # h
    <3>1. report'[g] = report[g]
      BY <1>2, <2>2 DEF DetectionInv, DetectionTypes
    <3> QED BY <1>5, <3>1, ReportStaysTrue DEF DetectionInv
  <2> QED BY <2>1, <2>2
<1>10. OneCasePerCheckout'
  <2> SUFFICES ASSUME NEW d \in Checkouts, NEW shop \in Shops, cases'[<<shop, d>>] # NoCase
               PROVE sessions'[d] # NoSession /\ sessions'[d].shop = shop
    BY DEF OneCasePerCheckout
  <2>1. sessions[d] # NoSession /\ sessions[d].shop = shop
    BY <1>2 DEF DetectionInv, OneCasePerCheckout
  <2> QED BY <1>5, <2>1 DEF Monotone
<1>11. ProcessedHasCase'
  BY <1>2 DEF DetectionInv, ProcessedHasCase
<1> QED BY <1>5, <1>8, <1>9, <1>10, <1>11 DEF DetectionInv

\* A subscription is no checkout, and has no session.
LEMMA ReportSubscriptionInv ==
  ASSUME DetectionInv, NEW h \in Handlers, NEW shop \in Shops, NEW s \in Subscriptions, NEW at \in 0 .. now,
         ReportSubscription(h, shop, s, at)
  PROVE  DetectionInv'
<1> DEFINE risk == [shop |-> shop, source |-> s, deadline |-> at + Window]
           r == Looking("looking", risk, NoRisk)
<1>1. risk \in Risks
  BY DetectionAssumption DEF Risks, Sources, DetectionInv, DetectionTypes
<1>2. r \in Looks
  BY <1>1 DEF Looks, Looking
<1>3. ReportTrue(r)
  <2>1. risk.source \notin Checkouts
    BY DetectionAssumption
  <2> QED BY <1>1, <2>1 DEF ReportTrue, RiskKnown, Looking
<1>4. Set(h, r) /\ UNCHANGED <<cases, sessions, riskEvent, now>>
  BY DEF ReportSubscription
<1>5. ProcessedHasCase'
  BY <1>4 DEF DetectionInv, ProcessedHasCase
<1> QED
  <2> HIDE DEF r
  <2> QED BY <1>2, <1>3, <1>4, <1>5, OneReport DEF DetectionInv, DetectionTypes

\* A webhook's risk is what the webhook said.
LEMMA ReserveRiskInv ==
  ASSUME DetectionInv, NEW h \in Handlers, NEW e \in RiskEvents, ReserveRisk(h, e)
  PROVE  DetectionInv'
<1> DEFINE r == IF RiskOf(e) = Unusable THEN Looking("failed", NoRisk, e) ELSE Looking("looking", RiskOf(e), e)
<1>1. r \in Looks
  BY DetectionAssumption DEF Looks, Looking
<1>2. ReportTrue(r)
  <2>1. CASE RiskOf(e) = Unusable
    BY <2>1 DEF ReportTrue, Looking
  <2>2. CASE RiskOf(e) # Unusable
    <3>1. RiskOf(e) \in Risks /\ RiskOf(e).source \notin Checkouts
      BY <2>2, DetectionAssumption
    <3>2. r = [pc |-> "looking", risk |-> RiskOf(e), event |-> e]
      BY <2>2 DEF Looking
    <3> QED BY <2>2, <3>1, <3>2 DEF ReportTrue, RiskKnown
  <2> QED BY <2>1, <2>2
<1>3. Set(h, r) /\ riskEvent' = [riskEvent EXCEPT ![e] = "RECEIVED"] /\ UNCHANGED <<cases, sessions, now>>
  BY DEF ReserveRisk
<1>4. ProcessedHasCase'
  BY <1>3 DEF DetectionInv, DetectionTypes, ProcessedHasCase
<1>5. riskEvent' \in [RiskEvents -> {"absent", "RECEIVED", "PROCESSED", "FAILED"}]
  BY <1>3 DEF DetectionInv, DetectionTypes
<1> QED
  <2> HIDE DEF r
  <2> QED BY <1>1, <1>2, <1>3, <1>4, <1>5, OneReport

\* A case is found only where there is one.
LEMMA LookUpCaseInv ==
  ASSUME DetectionInv, NEW h \in Handlers, LookUpCase(h)
  PROVE  DetectionInv'
<1> DEFINE pc == IF cases[Key(h)] # NoCase THEN "found" ELSE "missing"
           r == [report[h] EXCEPT !.pc = pc]
<1>1. report[h] \in Looks /\ report[h].pc = "looking"
  BY DEF LookUpCase, DetectionInv, DetectionTypes, Free, Loads
<1>2. r \in Looks /\ r.pc = pc /\ r.risk = report[h].risk /\ r.event = report[h].event
  BY <1>1 DEF Looks
<1>3. RiskKnown(report[h])
  BY <1>1 DEF DetectionInv, ReportTrue
<1>4. ReportTrue(r)
  BY <1>2, <1>3 DEF ReportTrue, RiskKnown, Key
<1>5. Set(h, r) /\ UNCHANGED <<cases, sessions, riskEvent, now>>
  BY DEF LookUpCase
<1>6. ProcessedHasCase'
  BY <1>5 DEF DetectionInv, ProcessedHasCase
<1> QED
  <2> HIDE DEF r
  <2> QED BY <1>2, <1>4, <1>5, <1>6, OneReport DEF DetectionInv, DetectionTypes

\* The unique key lets a row be inserted only where there is none.
LEMMA CreateCaseInv ==
  ASSUME DetectionInv, NEW h \in Handlers, CreateCase(h)
  PROVE  DetectionInv' /\ Monotone
<1> DEFINE r == report[h]
           pc == IF Creatable(h) THEN "found" ELSE "failed"
           held == [r EXCEPT !.pc = pc]
<1>1. r \in Looks /\ r.pc = "missing"
  BY DEF CreateCase, DetectionInv, DetectionTypes, Free, Loads
<1>2. held \in Looks /\ held.pc = pc /\ held.risk = r.risk /\ held.event = r.event
  BY <1>1 DEF Looks
<1>3. RiskKnown(r) /\ r.risk \in Risks
  BY <1>1 DEF DetectionInv, ReportTrue, RiskKnown
<1>4. Key(h) = <<r.risk.shop, r.risk.source>> /\ Key(h) \in Shops \X Sources /\ r.risk.deadline \in Nat
  BY <1>3 DEF Key, Risks
<1>5. report' = [report EXCEPT ![h] = held] /\ UNCHANGED <<sessions, riskEvent, now>>
  BY DEF CreateCase, Set
<1>6. cases' = IF Creatable(h) THEN [cases EXCEPT ![Key(h)] = r.risk.deadline] ELSE cases
  BY DEF CreateCase
<1>7. Monotone
  BY <1>4, <1>5, <1>6 DEF Monotone, Creatable, DetectionInv, DetectionTypes
<1>8. DetectionTypes'
  BY <1>2, <1>4, <1>5, <1>6 DEF DetectionInv, DetectionTypes
<1>9. Creatable(h) => cases'[Key(h)] # NoCase
  BY <1>4, <1>6, DetectionAssumption DEF DetectionInv, DetectionTypes
<1>10. ASSUME NEW g \in Handlers PROVE ReportTrue(report[g])'
  <2>1. CASE g = h
    <3>1. report'[h] = held
      BY <1>5 DEF DetectionInv, DetectionTypes
    <3>2. RiskKnown(report[h])'
      BY <1>2, <1>3, <1>5, <3>1 DEF RiskKnown
    <3>3. report'[h].pc = "found" => cases'[<<report'[h].risk.shop, report'[h].risk.source>>] # NoCase
      BY <1>2, <1>4, <1>9, <3>1
    <3>4. report'[h].pc # "loaded"
      BY <1>2, <3>1
    <3> QED BY <2>1, <3>1, <3>2, <3>3, <3>4 DEF ReportTrue
  <2>2. CASE g # h
    <3>1. report'[g] = report[g]
      BY <1>5, <2>2 DEF DetectionInv, DetectionTypes
    <3> QED BY <1>7, <3>1, ReportStaysTrue DEF DetectionInv
  <2> QED BY <2>1, <2>2
<1>11. OneCasePerCheckout'
  <2> SUFFICES ASSUME NEW c \in Checkouts, NEW shop \in Shops, cases'[<<shop, c>>] # NoCase
               PROVE sessions[c] # NoSession /\ sessions[c].shop = shop
    BY <1>5 DEF OneCasePerCheckout
  <2>1. CASE cases[<<shop, c>>] # NoCase
    BY <2>1 DEF DetectionInv, OneCasePerCheckout
  <2>2. CASE cases[<<shop, c>>] = NoCase
    <3>1. Key(h) = <<shop, c>>
      BY <1>4, <1>6, <2>2 DEF DetectionInv, DetectionTypes, Sources
    <3> QED BY <1>3, <1>4, <3>1 DEF RiskKnown
  <2> QED BY <2>1, <2>2
<1>12. ProcessedHasCase'
  <2> SUFFICES ASSUME NEW e \in RiskEvents, riskEvent[e] = "PROCESSED"
               PROVE RiskOf(e) # Unusable /\ cases'[<<RiskOf(e).shop, RiskOf(e).source>>] # NoCase
    BY <1>5 DEF ProcessedHasCase
  <2>1. RiskOf(e) # Unusable /\ cases[<<RiskOf(e).shop, RiskOf(e).source>>] # NoCase
    BY DEF DetectionInv, ProcessedHasCase
  <2>2. <<RiskOf(e).shop, RiskOf(e).source>> \in Shops \X Sources
    BY <2>1, DetectionAssumption DEF Risks
  <2> QED BY <1>7, <2>1, <2>2 DEF Monotone
<1> QED BY <1>7, <1>8, <1>10, <1>11, <1>12 DEF DetectionInv

\* A webhook is marked PROCESSED by a handler that found its case.
LEMMA AnswerReportInv ==
  ASSUME DetectionInv, NEW h \in Handlers, AnswerReport(h)
  PROVE  DetectionInv'
<1> DEFINE r == report[h]
<1>1. r \in Looks /\ r.pc \in {"found", "failed"}
  BY DEF AnswerReport, DetectionInv, DetectionTypes, Free, Loads
<1>2. /\ riskEvent' = IF r.event = NoRisk THEN riskEvent ELSE [riskEvent EXCEPT ![r.event] = Mark(r.pc)]
      /\ Set(h, Free) /\ UNCHANGED <<cases, sessions, now>>
  BY DEF AnswerReport
<1>3. riskEvent' \in [RiskEvents -> {"absent", "RECEIVED", "PROCESSED", "FAILED"}]
  BY <1>1, <1>2 DEF DetectionInv, DetectionTypes, Mark, Looks
<1>4. ASSUME NEW e \in RiskEvents, riskEvent'[e] = "PROCESSED"
      PROVE RiskOf(e) # Unusable /\ cases[<<RiskOf(e).shop, RiskOf(e).source>>] # NoCase
  <2>1. CASE riskEvent[e] = "PROCESSED"
    BY <2>1 DEF DetectionInv, ProcessedHasCase
  <2>2. CASE riskEvent[e] # "PROCESSED"
    <3>1. r.event = e /\ e # NoRisk /\ r.pc = "found"
      BY <1>1, <1>2, <1>4, <2>2, DetectionAssumption DEF DetectionInv, DetectionTypes, Mark
    <3>2. ReportTrue(r)
      BY DEF DetectionInv
    <3> QED BY <3>1, <3>2 DEF ReportTrue, RiskKnown
  <2> QED BY <2>1, <2>2
<1>5. ProcessedHasCase'
  BY <1>2, <1>4 DEF ProcessedHasCase
<1>6. ReportTrue(Free)
  BY DEF ReportTrue, Free
<1> QED BY <1>2, <1>3, <1>5, <1>6, OneReport DEF DetectionInv, DetectionTypes

\* A handler that is lost holds nothing.
LEMMA LoseReportInv ==
  ASSUME DetectionInv, NEW h \in Handlers, LoseReport(h)
  PROVE  DetectionInv'
<1>1. Set(h, Free) /\ UNCHANGED <<cases, sessions, riskEvent, now>>
  BY DEF LoseReport
<1>2. ReportTrue(Free)
  BY DEF ReportTrue, Free
<1>3. ProcessedHasCase'
  BY <1>1 DEF DetectionInv, ProcessedHasCase
<1> QED BY <1>1, <1>2, <1>3, OneReport DEF DetectionInv, DetectionTypes

\* Every step of a handler keeps the invariant and takes nothing back.
LEMMA DetectionStep == DetectionInv /\ [DetectionNext]_detectionVars => DetectionInv' /\ Monotone
<1> SUFFICES ASSUME DetectionInv, [DetectionNext]_detectionVars PROVE DetectionInv' /\ Monotone
  OBVIOUS
<1>1. ASSUME UNCHANGED <<cases, sessions>> PROVE Monotone
  BY <1>1 DEF Monotone
<1>2. ASSUME NEW h \in Handlers, NEW c \in Checkouts, NEW shop \in Shops, NEW extra \in {0, 1},
             StartCheckout(h, c, shop, now + Window + extra)
      PROVE DetectionInv' /\ Monotone
  BY <1>1, <1>2, StartCheckoutInv DEF StartCheckout
<1>3. ASSUME NEW h \in Handlers, NEW c \in Checkouts, NEW kind \in {"SELECTED", "FAILED", "ABANDONED"},
             NEW at \in 0 .. now, ContinueCheckout(h, c, kind, at)
      PROVE DetectionInv' /\ Monotone
  BY <1>1, <1>3, ContinueCheckoutInv DEF ContinueCheckout
<1>4. ASSUME NEW h \in Handlers, NEW shop \in Shops, NEW s \in Subscriptions, NEW at \in 0 .. now,
             ReportSubscription(h, shop, s, at)
      PROVE DetectionInv' /\ Monotone
  BY <1>1, <1>4, ReportSubscriptionInv DEF ReportSubscription
<1>5. ASSUME NEW h \in Handlers, NEW e \in RiskEvents, ReserveRisk(h, e)
      PROVE DetectionInv' /\ Monotone
  BY <1>1, <1>5, ReserveRiskInv DEF ReserveRisk
<1>6. ASSUME NEW h \in Handlers, LookUpCase(h) PROVE DetectionInv' /\ Monotone
  BY <1>1, <1>6, LookUpCaseInv DEF LookUpCase
<1>7. ASSUME NEW h \in Handlers, AnswerReport(h) PROVE DetectionInv' /\ Monotone
  BY <1>1, <1>7, AnswerReportInv DEF AnswerReport
<1>8. ASSUME NEW h \in Handlers, LoseReport(h) PROVE DetectionInv' /\ Monotone
  BY <1>1, <1>8, LoseReportInv DEF LoseReport
<1>9. CASE PassTime
  <2>1. now' \in Nat /\ UNCHANGED <<cases, sessions, riskEvent, report>>
    BY <1>9 DEF PassTime, DetectionInv, DetectionTypes
  <2>2. \A h \in Handlers : ReportTrue(report[h])'
    BY <2>1 DEF DetectionInv, ReportTrue, RiskKnown
  <2>3. (DetectionTypes /\ OneCasePerCheckout /\ ProcessedHasCase)'
    BY <2>1 DEF DetectionInv, DetectionTypes, OneCasePerCheckout, ProcessedHasCase
  <2> QED BY <1>1, <2>1, <2>2, <2>3 DEF DetectionInv
<1>10. CASE UNCHANGED detectionVars
  <2>1. UNCHANGED <<cases, sessions, riskEvent, report, now>>
    BY <1>10 DEF detectionVars
  <2>2. \A h \in Handlers : ReportTrue(report[h])'
    BY <2>1 DEF DetectionInv, ReportTrue, RiskKnown
  <2>3. (DetectionTypes /\ OneCasePerCheckout /\ ProcessedHasCase)'
    BY <2>1 DEF DetectionInv, DetectionTypes, OneCasePerCheckout, ProcessedHasCase
  <2> QED BY <1>1, <2>1, <2>2, <2>3 DEF DetectionInv
<1>11. ASSUME NEW h \in Handlers, SaveCheckout(h) \/ CreateCase(h) PROVE DetectionInv' /\ Monotone
  BY <1>11, SaveCheckoutInv, CreateCaseInv
<1>12. ASSUME NEW h \in Handlers,
             \/ SaveCheckout(h) \/ LookUpCase(h) \/ CreateCase(h) \/ AnswerReport(h) \/ LoseReport(h)
             \/ \E e \in RiskEvents : ReserveRisk(h, e)
             \/ \E shop \in Shops, s \in Subscriptions, at \in 0 .. now : ReportSubscription(h, shop, s, at)
       PROVE DetectionInv' /\ Monotone
  BY <1>4, <1>5, <1>6, <1>7, <1>8, <1>11, <1>12
<1>13. ASSUME NEW h \in Handlers, NEW c \in Checkouts,
             \/ \E shop \in Shops, extra \in {0, 1} : StartCheckout(h, c, shop, now + Window + extra)
             \/ \E kind \in {"SELECTED", "FAILED", "ABANDONED"}, at \in 0 .. now :
                   ContinueCheckout(h, c, kind, at)
       PROVE DetectionInv' /\ Monotone
  BY <1>2, <1>3, <1>13
<1> QED
  BY <1>9, <1>10, <1>12, <1>13 DEF DetectionNext

\* The invariant of detection holds in every state.
LEMMA DetectionInvariant == DetectionSpec => []DetectionInv
<1>1. DetectionInit => DetectionInv
  <2> SUFFICES ASSUME DetectionInit PROVE DetectionInv
    OBVIOUS
  <2>1. DetectionTypes
    BY DEF DetectionInit, DetectionTypes
  <2>2. \A h \in Handlers : ReportTrue(report[h])
    BY DEF DetectionInit, ReportTrue, Free
  <2>3. OneCasePerCheckout
    BY DEF DetectionInit, OneCasePerCheckout, Sources
  <2>4. ProcessedHasCase
    BY DEF DetectionInit, ProcessedHasCase
  <2> QED BY <2>1, <2>2, <2>3, <2>4 DEF DetectionInv
<1> QED BY <1>1, DetectionStep, PTL DEF DetectionSpec

\* A checkout has one case, of its first merchant, for any number of handlers,
\* checkouts and webhooks and whatever they interleave (CreateCase,
\* UpsertCheckout).
THEOREM CheckoutsHaveOneCase == ServicesSpec => []OneCasePerCheckout
<1>1. DetectionInv => OneCasePerCheckout
  BY DEF DetectionInv
<1> QED BY <1>1, DetectionInvariant, ServicesAreIndependent, PTL

\* A webhook marked PROCESSED has its case (Ingest, finish).
THEOREM ProcessedWebhooksHaveCases == ServicesSpec => []ProcessedHasCase
<1>1. DetectionInv => ProcessedHasCase
  BY DEF DetectionInv
<1> QED BY <1>1, DetectionInvariant, ServicesAreIndependent, PTL

\* No report replaces a case (CreateCase and the unique key).
THEOREM CasesAreKept == ServicesSpec => CaseKept
<1> DEFINE Kept == \A k \in Shops \X Sources : cases[k] # NoCase => cases'[k] = cases[k]
<1>1. DetectionInv /\ [DetectionNext]_detectionVars => [Kept]_detectionVars
  BY DetectionStep DEF Monotone
<1>2. DetectionSpec => [][Kept]_detectionVars
  <2> HIDE DEF Kept
  <2> QED BY <1>1, DetectionInvariant, PTL DEF DetectionSpec
<1> QED BY <1>2, ServicesAreIndependent DEF CaseKept

\* A handler that is about to write the session of a checkout.
Writes(h, c) == report[h].pc = "loaded" /\ report[h].checkout = c

\* One handler at a time holds the session of a checkout that was never mixed,
\* and what an event other than a start holds is what the last start said.
SessionsInv ==
    /\ lastStart \in [Checkouts -> Nat \cup {NoSession}]
    /\ \A c \in Checkouts \ mixed :
         /\ sessions[c] # NoSession => sessions[c].until = lastStart[c]
         /\ \A g, h \in Handlers : Writes(g, c) /\ Writes(h, c) => g = h
         /\ \A h \in Handlers :
              Writes(h, c) /\ report[h].kind # "STARTED" => report[h].session.until = lastStart[c]

\* A handler takes up an event of a checkout.
LEMMA SessionTaken ==
  ASSUME DetectionInv, SessionsInv, NEW h \in Handlers, NEW c \in Checkouts, NEW r \in Loads,
         r.checkout = c, report[h] = Free, Set(h, r), Hold(c), UNCHANGED <<sessions, lastStart>>,
         r.kind # "STARTED" => sessions[c] # NoSession /\ r.session = sessions[c]
  PROVE  SessionsInv'
<1>1. /\ report'[h] = r /\ r.pc = "loaded"
      /\ \A g \in Handlers \ {h} : report'[g] = report[g]
  BY DEF Set, DetectionInv, DetectionTypes, Loads
<1>2. mixed \subseteq mixed' /\ (c \notin mixed' => \A g \in Handlers : ~Writes(g, c))
  BY DEF Hold, Writes
<1>3. ASSUME NEW d \in Checkouts \ mixed'
      PROVE  /\ sessions'[d] # NoSession => sessions'[d].until = lastStart'[d]
             /\ \A f, g \in Handlers : Writes(f, d)' /\ Writes(g, d)' => f = g
             /\ \A g \in Handlers :
                  Writes(g, d)' /\ report'[g].kind # "STARTED" => report'[g].session.until = lastStart'[d]
  <2>1. d \in Checkouts \ mixed
    BY <1>2
  <2>2. \A g \in Handlers \ {h} : Writes(g, d)' <=> Writes(g, d)
    BY <1>1 DEF Writes
  <2>3. Writes(h, d)' <=> d = c
    BY <1>1 DEF Writes
  <2>4. \A f, g \in Handlers : Writes(f, d)' /\ Writes(g, d)' => f = g
    BY <1>2, <2>1, <2>2, <2>3 DEF SessionsInv
  <2>5. ASSUME NEW g \in Handlers, Writes(g, d)', report'[g].kind # "STARTED"
        PROVE report'[g].session.until = lastStart'[d]
    <3>1. CASE g = h
      BY <1>1, <2>1, <2>3, <2>5, <3>1 DEF SessionsInv
    <3>2. CASE g # h
      BY <1>1, <2>1, <2>2, <2>5, <3>2 DEF SessionsInv
    <3> QED BY <3>1, <3>2
  <2> QED BY <2>1, <2>4, <2>5 DEF SessionsInv
<1> QED BY <1>3 DEF SessionsInv

\* A step that writes no session and gives no handler one to write.
LEMMA SessionsLeftAlone ==
  ASSUME SessionsInv, UNCHANGED <<sessions, lastStart, mixed>>,
         \A g \in Handlers : report'[g].pc = "loaded" => report'[g] = report[g]
  PROVE  SessionsInv'
<1>1. \A g \in Handlers, c \in Checkouts : Writes(g, c)' => Writes(g, c) /\ report'[g] = report[g]
  BY DEF Writes
<1> QED BY <1>1 DEF SessionsInv

\* Every step of a handler keeps the sessions.
LEMMA SessionsStep == DetectionInv /\ SessionsInv /\ [DetectionNext]_detectionVars => SessionsInv'
<1> SUFFICES ASSUME DetectionInv, SessionsInv, [DetectionNext]_detectionVars PROVE SessionsInv'
  OBVIOUS
<1>0. report \in [Handlers -> {Free} \cup Loads \cup Looks] /\ now \in Nat
  BY DEF DetectionInv, DetectionTypes
<1>1. ASSUME NEW h \in Handlers, NEW r, Set(h, r), r.pc # "loaded", UNCHANGED <<sessions, startVars>>
      PROVE SessionsInv'
  <2>1. \A g \in Handlers : report'[g].pc = "loaded" => report'[g] = report[g]
    BY <1>0, <1>1 DEF Set
  <2> QED BY <1>1, <2>1, SessionsLeftAlone DEF startVars
<1>2. ASSUME NEW h \in Handlers, NEW c \in Checkouts, NEW shop \in Shops, NEW extra \in {0, 1},
             StartCheckout(h, c, shop, now + Window + extra)
      PROVE SessionsInv'
  <2> DEFINE r == [pc |-> "loaded", checkout |-> c, kind |-> "STARTED", at |-> now,
                   session |-> [shop |-> shop, until |-> now + Window + extra]]
  <2>1. r \in Loads /\ r.checkout = c /\ r.kind = "STARTED"
    <3>1. now + Window + extra \in Nat
      BY <1>0, DetectionAssumption
    <3> QED BY <1>0, <3>1 DEF Loads, Sessions
  <2>2. report[h] = Free /\ Set(h, r) /\ Hold(c) /\ UNCHANGED <<sessions, lastStart>>
    BY <1>2 DEF StartCheckout, TakeUp
  <2> HIDE DEF r
  <2> QED BY <2>1, <2>2, SessionTaken
<1>3. ASSUME NEW h \in Handlers, NEW c \in Checkouts, NEW kind \in {"SELECTED", "FAILED", "ABANDONED"},
             NEW at \in 0 .. now, ContinueCheckout(h, c, kind, at)
      PROVE SessionsInv'
  <2> DEFINE r == [pc |-> "loaded", checkout |-> c, kind |-> kind, at |-> at, session |-> sessions[c]]
  <2>1. sessions[c] # NoSession /\ sessions[c] \in Sessions
    BY <1>3 DEF ContinueCheckout, DetectionInv, DetectionTypes
  <2>2. r \in Loads /\ r.checkout = c /\ r.session = sessions[c]
    BY <1>0, <2>1 DEF Loads
  <2>3. report[h] = Free /\ Set(h, r) /\ Hold(c) /\ UNCHANGED <<sessions, lastStart>>
    BY <1>3 DEF ContinueCheckout, TakeUp
  <2> HIDE DEF r
  <2> QED BY <2>1, <2>2, <2>3, SessionTaken
<1>4. ASSUME NEW h \in Handlers, SaveCheckout(h) PROVE SessionsInv'
  <2> DEFINE r == report[h]
             c == r.checkout
             held == IF r.kind \in {"FAILED", "ABANDONED"} /\ r.at < r.session.until
                     THEN Looking("looking", [shop |-> r.session.shop, source |-> c, deadline |-> r.session.until], NoRisk)
                     ELSE Free
  <2>1. r \in Loads /\ c \in Checkouts /\ r.session \in Sessions /\ r.pc = "loaded"
    BY <1>0, <1>4 DEF SaveCheckout, Free, Looks, Loads
  <2>2. /\ sessions' = [sessions EXCEPT ![c] = Upserted(c, r.session)]
        /\ report' = [report EXCEPT ![h] = held]
        /\ lastStart' = IF r.kind = "STARTED" THEN [lastStart EXCEPT ![c] = r.session.until] ELSE lastStart
        /\ mixed' = mixed
    BY <1>4 DEF SaveCheckout, Set
  <2>3. Upserted(c, r.session).until = r.session.until
    BY <2>1 DEF Upserted, DetectionInv, DetectionTypes, Sessions
  <2>4. held.pc # "loaded"
    BY DEF Looking, Free
  <2>5. \A g \in Handlers : report'[g].pc = "loaded" => g # h /\ report'[g] = report[g]
    BY <1>0, <2>2, <2>4
  <2>6. \A g \in Handlers, d \in Checkouts :
          Writes(g, d)' => g # h /\ Writes(g, d) /\ report'[g] = report[g]
    BY <2>5 DEF Writes
  <2>7. lastStart' \in [Checkouts -> Nat \cup {NoSession}]
    BY <2>1, <2>2 DEF SessionsInv, Sessions
  <2>8. ASSUME NEW d \in Checkouts \ mixed
        PROVE  /\ sessions'[d] # NoSession => sessions'[d].until = lastStart'[d]
               /\ \A g \in Handlers :
                    Writes(g, d)' /\ report'[g].kind # "STARTED" => report'[g].session.until = lastStart'[d]
    <3>1. CASE d = c
      <4>1. Writes(h, d) /\ \A g \in Handlers : ~Writes(g, d)'
        BY <2>1, <2>6, <3>1 DEF Writes, SessionsInv
      <4>2. sessions'[d] = Upserted(c, r.session)
        BY <2>2, <3>1 DEF DetectionInv, DetectionTypes
      <4>3. CASE r.kind = "STARTED"
        BY <2>1, <2>2, <2>3, <3>1, <4>1, <4>2, <4>3 DEF SessionsInv
      <4>4. CASE r.kind # "STARTED"
        BY <2>1, <2>2, <2>3, <3>1, <4>1, <4>2, <4>4 DEF SessionsInv
      <4> QED BY <4>3, <4>4
    <3>2. CASE d # c
      <4>1. sessions'[d] = sessions[d] /\ lastStart'[d] = lastStart[d]
        BY <2>2, <3>2 DEF DetectionInv, DetectionTypes, SessionsInv
      <4> QED BY <2>6, <4>1 DEF SessionsInv
    <3> QED BY <3>1, <3>2
  <2> QED BY <2>2, <2>6, <2>7, <2>8 DEF SessionsInv
<1>5. ASSUME NEW h \in Handlers, NEW shop \in Shops, NEW s \in Subscriptions, NEW at \in 0 .. now,
             ReportSubscription(h, shop, s, at)
      PROVE SessionsInv'
  BY <1>1, <1>5 DEF ReportSubscription, Looking
<1>6. ASSUME NEW h \in Handlers, NEW e \in RiskEvents, ReserveRisk(h, e) PROVE SessionsInv'
  <2> DEFINE r == IF RiskOf(e) = Unusable THEN Looking("failed", NoRisk, e)
                  ELSE Looking("looking", RiskOf(e), e)
  <2>1. Set(h, r) /\ UNCHANGED <<sessions, startVars>>
    BY <1>6 DEF ReserveRisk
  <2>2. r.pc # "loaded"
    BY DEF Looking
  <2> HIDE DEF r
  <2> QED BY <1>1, <2>1, <2>2
<1>7. ASSUME NEW h \in Handlers, LookUpCase(h) \/ CreateCase(h) PROVE SessionsInv'
  <2>1. PICK pc \in {"found", "missing", "failed"} : Set(h, [report[h] EXCEPT !.pc = pc])
    BY <1>7 DEF LookUpCase, CreateCase
  <2>2. report[h] \in Looks
    BY <1>0, <1>7 DEF LookUpCase, CreateCase, Free, Loads
  <2>3. [report[h] EXCEPT !.pc = pc].pc # "loaded"
    BY <2>1, <2>2 DEF Looks
  <2>4. UNCHANGED <<sessions, startVars>>
    BY <1>7 DEF LookUpCase, CreateCase
  <2> QED BY <1>1, <2>1, <2>3, <2>4
<1>8. ASSUME NEW h \in Handlers, AnswerReport(h) \/ LoseReport(h) PROVE SessionsInv'
  BY <1>1, <1>8 DEF AnswerReport, LoseReport, Free
<1>9. CASE PassTime \/ UNCHANGED detectionVars
  BY <1>9, SessionsLeftAlone DEF PassTime, detectionVars, startVars
<1>10. ASSUME NEW h \in Handlers,
             \/ SaveCheckout(h) \/ LookUpCase(h) \/ CreateCase(h) \/ AnswerReport(h) \/ LoseReport(h)
             \/ \E e \in RiskEvents : ReserveRisk(h, e)
             \/ \E shop \in Shops, s \in Subscriptions, at \in 0 .. now : ReportSubscription(h, shop, s, at)
       PROVE SessionsInv'
  BY <1>4, <1>5, <1>6, <1>7, <1>8, <1>10
<1>11. ASSUME NEW h \in Handlers, NEW c \in Checkouts,
             \/ \E shop \in Shops, extra \in {0, 1} : StartCheckout(h, c, shop, now + Window + extra)
             \/ \E kind \in {"SELECTED", "FAILED", "ABANDONED"}, at \in 0 .. now :
                   ContinueCheckout(h, c, kind, at)
       PROVE SessionsInv'
  BY <1>2, <1>3, <1>11
<1> QED BY <1>9, <1>10, <1>11 DEF DetectionNext

\* The sessions are right in every state.
LEMMA SessionsInvariant == DetectionSpec => []SessionsInv
<1>1. DetectionInit => SessionsInv
  BY DEF DetectionInit, SessionsInv, Writes, Free
<1> QED BY <1>1, SessionsStep, DetectionInvariant, PTL DEF DetectionSpec

\* A checkout whose session no two handlers held at once is valid until what
\* the last start said, for any handlers and checkouts (Normalize,
\* UpsertCheckout).
THEOREM SessionsAreKept == ServicesSpec => []SessionKept
<1>1. SessionsInv => SessionKept
  BY DEF SessionsInv, SessionKept
<1> QED BY <1>1, SessionsInvariant, ServicesAreIndependent, PTL

-----------------------------------------------------------------------------
(* Customers' responses.                                                    *)

DeskRequests == [pc : {"promising", "done"}, reply : Replies]

ResponsesTypes ==
    /\ desk \in [Desks -> {FreeDesk} \cup DeskRequests]
    /\ promiseOf \in [Replies -> {"NONE", "ACTIVE", "SETTLED"}]
    /\ endedBy \in [Replies -> SUBSET Int]
    /\ waits \in 0 .. MaxWaits /\ saved \subseteq Replies /\ heard \subseteq saved

\* A desk works on a reply that is saved, and on a promise only for a promise.
DesksTrue ==
    \A d \in Desks :
        /\ desk[d] # FreeDesk => desk[d].reply \in saved
        /\ desk[d].pc = "promising" => ReplyType(desk[d].reply) = "PROMISE_TO_PAY"

\* A promise of the promise API is not active beside one of a reply.
OtherAlone == otherActive => \A r \in Replies : promiseOf[r] # "ACTIVE"

EndedOnce ==
    \A r \in Replies : endedBy[r] # {} =>
        /\ \E k \in Int : endedBy[r] = {k}
        /\ r \in saved /\ ReplyType(r) \notin {"ACKNOWLEDGEMENT", "PROMISE_TO_PAY"}

ResponsesInv == ResponsesTypes /\ DesksTrue /\ OtherAlone /\ EndedOnce /\ PromiseReplyKept

\* Every step of a desk keeps the invariant.
LEMMA ResponsesStep == ResponsesInv /\ [ResponsesNext]_responseVars => ResponsesInv'
<1> SUFFICES ASSUME ResponsesInv, [ResponsesNext]_responseVars PROVE ResponsesInv'
  OBVIOUS
<1> USE DEF ResponsesInv, ResponsesTypes, DesksTrue, FreeDesk, DeskRequests
<1>1. ASSUME NEW d \in Desks, NEW r \in Replies, SaveResponse(d, r) PROVE ResponsesInv'
  <2> USE <1>1 DEF SaveResponse, Serve, Known
  <2>1. endedBy' \in [Replies -> SUBSET Int]
    OBVIOUS
  <2>2. ResponsesTypes' /\ DesksTrue'
    BY <2>1
  <2>3. OtherAlone'
    BY DEF OtherAlone
  <2>4. EndedOnce'
    BY DEF EndedOnce, EndsWait
  <2>5. PromiseReplyKept'
    <3>1. \A q \in saved' : ReplyType(q) = "PROMISE_TO_PAY" =>
            \/ promiseOf'[q] # "NONE" \/ q \in dropped'
            \/ \E e \in Desks : desk'[e].pc = "promising" /\ desk'[e].reply = q
      BY DEF PromiseReplyKept
    <3> QED BY <3>1 DEF PromiseReplyKept
  <2> QED BY <2>2, <2>3, <2>4, <2>5
<1>2. ASSUME NEW d \in Desks, NEW r \in Replies, RepeatResponse(d, r) PROVE ResponsesInv'
  <2> USE <1>2 DEF RepeatResponse, Serve, Known
  <2>1. ResponsesTypes' /\ DesksTrue'
    OBVIOUS
  <2>2. OtherAlone' /\ EndedOnce'
    BY DEF OtherAlone, EndedOnce
  <2>3. PromiseReplyKept'
    BY DEF PromiseReplyKept
  <2> QED BY <2>1, <2>2, <2>3
<1>3. ASSUME NEW d \in Desks, CreateFromResponse(d) PROVE ResponsesInv'
  <2> USE <1>3 DEF CreateFromResponse
  <2>1. desk[d].reply \in Replies /\ desk[d].reply \in saved /\ ReplyType(desk[d].reply) = "PROMISE_TO_PAY"
    OBVIOUS
  <2>2. ResponsesTypes' /\ DesksTrue'
    BY <2>1
  <2>3. OtherAlone' /\ EndedOnce'
    BY DEF OtherAlone, EndedOnce, ActivePromise
  <2>4. PromiseReplyKept'
    <3>1. \A q \in saved' : ReplyType(q) = "PROMISE_TO_PAY" =>
            \/ promiseOf'[q] # "NONE" \/ q \in dropped'
            \/ \E e \in Desks : desk'[e].pc = "promising" /\ desk'[e].reply = q
      BY <2>1 DEF PromiseReplyKept
    <3>2. \A q \in Replies : promiseOf'[q] # "NONE" => q \in saved' /\ ReplyType(q) = "PROMISE_TO_PAY"
      BY <2>1 DEF PromiseReplyKept
    <3>3. \A q, s \in Replies : promiseOf'[q] = "ACTIVE" /\ promiseOf'[s] = "ACTIVE" => q = s
      BY <2>1 DEF PromiseReplyKept, ActivePromise
    <3> QED BY <3>1, <3>2, <3>3 DEF PromiseReplyKept
  <2> QED BY <2>2, <2>3, <2>4
<1>4. ASSUME NEW d \in Desks, RefusePromise(d) \/ LoseDesk(d) PROVE ResponsesInv'
  <2> USE <1>4 DEF RefusePromise, LoseDesk
  <2>1. ResponsesTypes' /\ DesksTrue'
    OBVIOUS
  <2>2. OtherAlone' /\ EndedOnce'
    BY DEF OtherAlone, EndedOnce
  <2>3. PromiseReplyKept'
    BY DEF PromiseReplyKept
  <2> QED BY <2>1, <2>2, <2>3
<1>5. ASSUME NEW d \in Desks, AnswerResponse(d) PROVE ResponsesInv'
  <2> USE <1>5 DEF AnswerResponse
  <2>1. ResponsesTypes' /\ DesksTrue'
    OBVIOUS
  <2>2. OtherAlone' /\ EndedOnce'
    BY DEF OtherAlone, EndedOnce
  <2>3. PromiseReplyKept'
    BY DEF PromiseReplyKept
  <2> QED BY <2>1, <2>2, <2>3
<1>6. CASE BeginWait \/ ObserveWait
  <2>1. waits' \in 0 .. MaxWaits
    BY <1>6, RepliesAssumption DEF BeginWait, ObserveWait
  <2> QED BY <1>6, <2>1 DEF BeginWait, ObserveWait, OtherAlone, EndedOnce, PromiseReplyKept
<1>7. CASE PromiseByAPI
  BY <1>7 DEF PromiseByAPI, ActivePromise, OtherAlone, EndedOnce, PromiseReplyKept
<1>8. CASE SettlePromise
  <2> USE <1>8 DEF SettlePromise
  <2>1. ResponsesTypes' /\ DesksTrue'
    OBVIOUS
  <2>2. OtherAlone' /\ EndedOnce'
    BY DEF OtherAlone, EndedOnce
  <2>3. PromiseReplyKept'
    BY DEF PromiseReplyKept
  <2> QED BY <2>1, <2>2, <2>3
<1>9. CASE UNCHANGED responseVars
  BY <1>9 DEF responseVars, OtherAlone, EndedOnce, PromiseReplyKept
<1> QED
  BY <1>1, <1>2, <1>3, <1>4, <1>5, <1>6, <1>7, <1>8, <1>9 DEF ResponsesNext

\* The invariant of the responses holds in every state.
LEMMA ResponsesInvariant == ResponsesSpec => []ResponsesInv
<1>1. ResponsesInit => ResponsesInv
  BY RepliesAssumption
     DEF ResponsesInit, ResponsesInv, ResponsesTypes, DesksTrue, OtherAlone, EndedOnce,
         PromiseReplyKept, FreeDesk
<1> QED BY <1>1, ResponsesStep, PTL DEF ResponsesSpec

\* A promise reply has its promise unless it was refused or its request was
\* lost, for any replies and requests in any order (Ingest, CreatePromise).
THEOREM PromiseRepliesAreKept == ServicesSpec => []PromiseReplyKept
<1>1. ResponsesInv => PromiseReplyKept
  BY DEF ResponsesInv
<1> QED BY <1>1, ResponsesInvariant, ServicesAreIndependent, PTL

\* However often a response is delivered, it ends one wait at most
\* (SaveCustomerResponse's correlation id).
THEOREM ResponsesActOnce == ServicesSpec => []ResponseActsOnce
<1>1. ResponsesInv => ResponseActsOnce
  BY FS_Singleton DEF ResponsesInv, EndedOnce, ResponseActsOnce
<1> QED BY <1>1, ResponsesInvariant, ServicesAreIndependent, PTL

-----------------------------------------------------------------------------
(* Model registry.                                                          *)

Events == [entry : Models, status : Statuses, stamp : Nat, done : Nat]

Requests ==
    {NoTransition}
      \cup [pc : {"received"}, entry : Models, to : Statuses, stamp : Nat]
      \cup [pc : {"read", "locked"}, entry : Models, to : Statuses, stamp : Nat, from : Statuses]
      \cup [pc : {"decided"}, entry : Models, to : Statuses, stamp : Nat, retires : SUBSET Models]

RegistryTypes ==
    /\ statusEvents \in SUBSET Events
    /\ transition \in [Callers -> Requests]
    /\ ticks \in Nat

\* An event is written after its request was received, and an entry has one
\* event of a request.
EventsTrue ==
    /\ \A v \in statusEvents :
         /\ v.stamp <= v.done /\ v.done < ticks
         /\ v.status # "CANDIDATE" => v.stamp < v.done
    /\ \A v, w \in statusEvents : v.entry = w.entry /\ v.stamp = w.stamp => v = w

\* Nothing was written of the entry since the time given.
Settled(m, stamp) == \A v \in EventsOf(m) : v.done <= stamp

\* An ACTIVE event that was written before the time given is not the last
\* word on its entry.
Succeeded(m, stamp) ==
    \A v \in EventsOf(m) : v.status = "ACTIVE" /\ v.done <= stamp =>
        \E w \in EventsOf(m) : w.stamp > v.stamp

Rivals(m) == {n \in Models \ {m} : TypeOf[n] = TypeOf[m]}

\* What a request read still holds of an entry nobody has written since the
\* request was received.
RequestTrue(r) ==
    r.pc # "none" =>
        /\ r.stamp < ticks /\ Registered(r.entry)
        /\ \A v \in statusEvents : v.stamp # r.stamp
        /\ r.pc = "read" /\ Settled(r.entry, r.stamp) => r.from = Status(r.entry)
        /\ r.pc \in {"locked", "decided"} /\ Settled(r.entry, r.stamp) => Allowed(Status(r.entry), r.to)
        /\ r.pc = "decided" =>
             /\ r.entry \notin r.retires
             /\ \A n \in r.retires :
                  Registered(n) /\ (Settled(n, r.stamp) => Status(n) = "ACTIVE")
             /\ r.to = "ACTIVE" => \A n \in Rivals(r.entry) \ r.retires : Succeeded(n, r.stamp)

\* Two requests are never received at once.
StampsDiffer ==
    \A c, d \in Callers : ~Idle(c) /\ ~Idle(d) /\ transition[c].stamp = transition[d].stamp => c = d

\* Whoever is activated has retired the rivals that were active before.
RivalsRetired ==
    \A w \in statusEvents : w.status = "ACTIVE" => \A n \in Rivals(w.entry) : Succeeded(n, w.stamp)

RegistryInv ==
    /\ RegistryTypes /\ EventsTrue /\ StampsDiffer
    /\ \A c \in Callers : RequestTrue(transition[c])
    /\ RivalsRetired /\ SequentialHistory

\* Status as a function of the entry's events.
LastWord(E) == (CHOOSE v \in E : \A w \in E : w.stamp <= v.stamp).status

\* The latest event of a registered entry.
LEMMA LatestEvent ==
    ASSUME RegistryTypes, EventsTrue, NEW m \in Models, Registered(m)
    PROVE  /\ Latest(m) \in EventsOf(m) /\ \A w \in EventsOf(m) : w.stamp <= Latest(m).stamp
           /\ Status(m) = Latest(m).status /\ Status(m) \in Statuses
<1> DEFINE T == {v.stamp : v \in EventsOf(m)}
<1>1. EventsOf(m) \subseteq Events /\ EventsOf(m) # {}
  BY DEF EventsOf, RegistryTypes, Registered
<1>2. T \in SUBSET Nat /\ T # {}
  BY <1>1 DEF Events
<1>3. \A t \in T : t < ticks
  BY <1>1 DEF EventsTrue, EventsOf, Events, RegistryTypes
<1>4. PICK n \in T : \A t \in T : t <= n
  <2> HIDE DEF T
  <2> QED BY <1>2, <1>3, BoundedHasGreatest DEF RegistryTypes
<1>5. \E v \in EventsOf(m) : \A w \in EventsOf(m) : w.stamp <= v.stamp
  BY <1>4
<1>6. Latest(m) \in EventsOf(m) /\ \A w \in EventsOf(m) : w.stamp <= Latest(m).stamp
  BY <1>5 DEF Latest
<1>7. Status(m) = Latest(m).status
  BY DEF Status, Latest
<1> QED BY <1>1, <1>6, <1>7 DEF Events

\* A request another caller has in flight stays true when events are written.
LEMMA RequestStaysTrue ==
    ASSUME RegistryTypes, NEW r \in Requests, RequestTrue(r),
           statusEvents \subseteq statusEvents', ticks' \in Nat, ticks <= ticks',
           \A v \in statusEvents' \ statusEvents : v.done = ticks /\ (r.pc # "none" => v.stamp # r.stamp)
    PROVE  RequestTrue(r)'
<1> SUFFICES ASSUME r.pc # "none" PROVE RequestTrue(r)'
  BY DEF RequestTrue
<1>1. /\ r.entry \in Models /\ r.to \in Statuses /\ r.stamp \in Nat /\ r.stamp < ticks
      /\ r.pc = "decided" => r.retires \subseteq Models
  BY DEF Requests, NoTransition, RequestTrue
<1>2. ASSUME NEW m \in Models
      PROVE  /\ EventsOf(m) \subseteq EventsOf(m)'
             /\ \A v \in EventsOf(m)' \ EventsOf(m) : v.done = ticks
             /\ Registered(m) => Registered(m)'
  BY DEF EventsOf, Registered
<1>3. ASSUME NEW m \in Models, Settled(m, r.stamp)'
      PROVE  Settled(m, r.stamp) /\ Status(m)' = Status(m)
  <2>1. EventsOf(m)' = EventsOf(m)
    <3>1. \A v \in EventsOf(m)' : v.done <= r.stamp
      BY <1>3 DEF Settled
    <3>2. \A v \in EventsOf(m)' : ~(v.done = ticks)
      BY <1>1, <3>1 DEF RegistryTypes
    <3> QED BY <1>2, <3>2
  <2>2. Status(m)' = LastWord(EventsOf(m)') /\ Status(m) = LastWord(EventsOf(m))
    BY DEF Status, LastWord
  <2>3. Status(m)' = Status(m)
    BY <2>1, <2>2
  <2> QED BY <1>3, <2>1, <2>3 DEF Settled
<1>4. ASSUME NEW m \in Models, Succeeded(m, r.stamp) PROVE Succeeded(m, r.stamp)'
  <2>1. \A v \in EventsOf(m)' : v.done <= r.stamp => v \in EventsOf(m)
    BY <1>1, <1>2 DEF RegistryTypes
  <2> QED BY <1>2, <1>4, <2>1 DEF Succeeded
<1>5. /\ r.stamp < ticks' /\ Registered(r.entry)'
      /\ \A v \in statusEvents' : v.stamp # r.stamp
  BY <1>1, <1>2 DEF RequestTrue, RegistryTypes
<1>6. r.pc = "read" /\ Settled(r.entry, r.stamp)' => r.from = Status(r.entry)'
  BY <1>1, <1>3 DEF RequestTrue
<1>7. r.pc \in {"locked", "decided"} /\ Settled(r.entry, r.stamp)' => Allowed(Status(r.entry)', r.to)
  BY <1>1, <1>3 DEF RequestTrue
<1>8. ASSUME r.pc = "decided"
      PROVE  /\ r.entry \notin r.retires
             /\ \A n \in r.retires :
                  Registered(n)' /\ (Settled(n, r.stamp)' => Status(n)' = "ACTIVE")
             /\ r.to = "ACTIVE" => \A n \in Rivals(r.entry) \ r.retires : Succeeded(n, r.stamp)'
  BY <1>1, <1>2, <1>3, <1>4, <1>8 DEF RequestTrue, Rivals
<1> QED BY <1>5, <1>6, <1>7, <1>8 DEF RequestTrue

\* A step that writes no event and gives one caller a true request.
LEMMA OneRequest ==
    ASSUME RegistryInv, NEW c \in Callers, NEW r \in Requests,
           transition' = [transition EXCEPT ![c] = r], statusEvents' = statusEvents,
           ticks' \in Nat, ticks <= ticks', RequestTrue(r)',
           r.pc # "none" => \A d \in Callers \ {c} : ~Idle(d) => transition[d].stamp # r.stamp
    PROVE  RegistryInv'
<1>1. /\ transition' \in [Callers -> Requests] /\ transition'[c] = r
      /\ \A d \in Callers \ {c} : transition'[d] = transition[d]
  BY DEF RegistryInv, RegistryTypes
<1>2. RegistryTypes' /\ EventsTrue'
  BY <1>1 DEF RegistryInv, RegistryTypes, EventsTrue, Events
<1>3. StampsDiffer'
  BY <1>1 DEF RegistryInv, StampsDiffer, Idle
<1>4. ASSUME NEW d \in Callers \ {c} PROVE RequestTrue(transition[d])'
  <2>1. RequestTrue(transition[d]) /\ transition[d] \in Requests
    BY DEF RegistryInv, RegistryTypes
  <2>2. \A q : transition[d] = q => RequestTrue(q)
    BY <2>1
  <2>3. ASSUME NEW q \in Requests, transition[d] = q PROVE RequestTrue(q)'
    BY <2>2, <2>3, RequestStaysTrue DEF RegistryInv
  <2> QED BY <1>1, <2>1, <2>3
<1>5. (RivalsRetired /\ SequentialHistory)'
  BY DEF RegistryInv, RivalsRetired, Succeeded, SequentialHistory, EventsOf, Overlap
<1>6. RequestTrue(transition[c])'
  BY <1>1
<1> QED BY <1>2, <1>3, <1>4, <1>5, <1>6 DEF RegistryInv

\* A request with its type, by how far it is.
LEMMA RequestFields ==
    ASSUME RegistryInv, NEW c \in Callers, ~Idle(c)
    PROVE  /\ transition[c] \in Requests /\ transition[c].entry \in Models
           /\ transition[c].to \in Statuses /\ transition[c].stamp \in Nat
           /\ transition[c].pc = "received" => transition[c] \in [pc : {"received"}, entry : Models, to : Statuses, stamp : Nat]
           /\ transition[c].pc \in {"read", "locked"} =>
                transition[c] \in [pc : {"read", "locked"}, entry : Models, to : Statuses, stamp : Nat, from : Statuses]
           /\ transition[c].pc = "decided" =>
                transition[c] \in [pc : {"decided"}, entry : Models, to : Statuses, stamp : Nat, retires : SUBSET Models]
  BY DEF RegistryInv, RegistryTypes, Requests, NoTransition, Idle

\* A request is received at a time no event and no other request has.
LEMMA ReceiveInv ==
    ASSUME RegistryInv, NEW c \in Callers, NEW m \in Models, NEW to \in Statuses,
           ReceiveTransition(c, m, to)
    PROVE  RegistryInv'
<1> DEFINE r == [pc |-> "received", entry |-> m, to |-> to, stamp |-> ticks]
<1>1. ticks \in Nat /\ ticks' = ticks + 1 /\ statusEvents' = statusEvents /\ Registered(m)
  BY DEF RegistryInv, RegistryTypes, ReceiveTransition
<1>2. r \in Requests /\ r.pc = "received" /\ r.entry = m /\ r.stamp = ticks
  BY <1>1 DEF Requests
<1>3. transition' = [transition EXCEPT ![c] = r]
  BY DEF ReceiveTransition
<1>4. \A v \in statusEvents : v.stamp # ticks
  BY <1>1 DEF RegistryInv, RegistryTypes, EventsTrue, Events
<1>5. \A d \in Callers : ~Idle(d) => transition[d].stamp # ticks
  BY <1>1, RequestFields DEF RegistryInv, RequestTrue, Idle
<1>6. ticks < ticks' /\ ticks' \in Nat /\ ticks <= ticks'
  BY <1>1
<1>7. \A q \in Requests : q = r => RequestTrue(q)'
  <2> SUFFICES ASSUME NEW q \in Requests, q.pc = "received", q.entry = m, q.stamp = ticks PROVE RequestTrue(q)'
    BY <1>2
  <2>1. Registered(m)'
    BY <1>1 DEF Registered, EventsOf
  <2> QED BY <1>1, <1>4, <1>6, <2>1 DEF RequestTrue
<1> HIDE DEF r
<1>8. ASSUME NEW q \in Requests, q = r PROVE RegistryInv'
  <2>1. RequestTrue(q)' /\ q.stamp = ticks /\ transition' = [transition EXCEPT ![c] = q]
    BY <1>2, <1>3, <1>7, <1>8
  <2>2. q.pc # "none" => \A d \in Callers \ {c} : ~Idle(d) => transition[d].stamp # q.stamp
    BY <1>5, <2>1
  <2> QED BY <1>1, <1>6, <2>1, <2>2, OneRequest
<1> QED BY <1>2, <1>8

\* A request moves on, reading or not, and keeps its stamp.
LEMMA MoveOn ==
    ASSUME RegistryInv, NEW c \in Callers, ~Idle(c), NEW r \in Requests,
           transition' = [transition EXCEPT ![c] = r], UNCHANGED <<statusEvents, ticks>>,
           RequestTrue(r), r.pc # "none" => r.stamp = transition[c].stamp
    PROVE  RegistryInv'
<1>1. RequestTrue(r)'
  BY DEF RequestTrue, Registered, EventsOf, Settled, Succeeded, Status, Rivals
<1>2. r.pc # "none" => \A d \in Callers \ {c} : ~Idle(d) => transition[d].stamp # r.stamp
  BY DEF RegistryInv, StampsDiffer
<1>3. ticks' \in Nat /\ ticks <= ticks'
  BY DEF RegistryInv, RegistryTypes
<1> QED BY <1>1, <1>2, <1>3, OneRequest

\* A request reads the entry's status.
LEMMA ReadInv ==
    ASSUME RegistryInv, NEW c \in Callers, ReadStatus(c)
    PROVE  RegistryInv'
<1> DEFINE t == transition[c]
           r == [pc |-> "read", entry |-> t.entry, to |-> t.to, stamp |-> t.stamp, from |-> Status(t.entry)]
<1>1. ~Idle(c) /\ t.pc = "received"
  BY DEF ReadStatus, Idle
<1>2. t.entry \in Models /\ t.to \in Statuses /\ t.stamp \in Nat /\ RequestTrue(t)
  BY <1>1, RequestFields DEF RegistryInv
<1>3. t.stamp < ticks /\ Registered(t.entry) /\ \A v \in statusEvents : v.stamp # t.stamp
  BY <1>1, <1>2 DEF RequestTrue
<1>4. Status(t.entry) \in Statuses
  BY <1>2, <1>3, LatestEvent DEF RegistryInv
<1>5. r \in Requests /\ r.pc = "read" /\ r.entry = t.entry /\ r.stamp = t.stamp /\ r.from = Status(t.entry)
  BY <1>2, <1>4 DEF Requests
<1>6. transition' = [transition EXCEPT ![c] = r] /\ UNCHANGED <<statusEvents, ticks>>
  BY DEF ReadStatus
<1> HIDE DEF r
<1>7. RequestTrue(r)
  BY <1>3, <1>5 DEF RequestTrue
<1> QED BY <1>1, <1>5, <1>6, <1>7, MoveOn

\* A request that ends holds nothing.
LEMMA RollbackInv ==
    ASSUME RegistryInv, NEW c \in Callers, RollbackTransition(c)
    PROVE  RegistryInv'
<1>1. NoTransition \in Requests /\ NoTransition.pc = "none" /\ RequestTrue(NoTransition)
  BY DEF Requests, NoTransition, RequestTrue
<1> QED BY <1>1, MoveOn DEF RollbackTransition

\* The lock leaves what the request read as it was, and that decides.
LEMMA LockInv ==
    ASSUME RegistryInv, NEW c \in Callers, LockEntry(c)
    PROVE  RegistryInv'
<1> DEFINE t == transition[c]
<1>1. ~Idle(c) /\ t.pc = "read"
  BY DEF LockEntry, Idle
<1>2. /\ t \in [pc : {"read", "locked"}, entry : Models, to : Statuses, stamp : Nat, from : Statuses]
      /\ RequestTrue(t)
  BY <1>1, RequestFields DEF RegistryInv
<1>3. /\ t.stamp < ticks /\ Registered(t.entry) /\ \A v \in statusEvents : v.stamp # t.stamp
      /\ Settled(t.entry, t.stamp) => t.from = Status(t.entry)
  BY <1>1, <1>2 DEF RequestTrue
<1>4. UNCHANGED <<statusEvents, ticks>>
  BY DEF LockEntry
<1>5. CASE ~Allowed(t.from, t.to)
  <2>1. transition' = [transition EXCEPT ![c] = NoTransition]
    BY <1>5 DEF LockEntry
  <2>2. NoTransition \in Requests /\ NoTransition.pc = "none" /\ RequestTrue(NoTransition)
    BY DEF Requests, NoTransition, RequestTrue
  <2> QED BY <1>1, <1>4, <2>1, <2>2, MoveOn
<1>6. CASE Allowed(t.from, t.to) /\ t.to = "ACTIVE"
  <2> DEFINE r == [t EXCEPT !.pc = "locked"]
  <2>1. transition' = [transition EXCEPT ![c] = r]
    BY <1>6 DEF LockEntry
  <2>2. /\ r \in Requests /\ r.pc = "locked"
        /\ r.entry = t.entry /\ r.to = t.to /\ r.stamp = t.stamp
    BY <1>2 DEF Requests
  <2> HIDE DEF r
  <2>3. RequestTrue(r)
    BY <1>3, <1>6, <2>2 DEF RequestTrue
  <2> QED BY <1>1, <1>4, <2>1, <2>2, <2>3, MoveOn
<1>7. CASE Allowed(t.from, t.to) /\ t.to # "ACTIVE"
  <2> DEFINE r == Deciding(t, {})
  <2>1. transition' = [transition EXCEPT ![c] = r]
    BY <1>7 DEF LockEntry
  <2>2. /\ r \in Requests /\ r.pc = "decided" /\ r.retires = {}
        /\ r.entry = t.entry /\ r.to = t.to /\ r.stamp = t.stamp
    BY <1>2 DEF Requests, Deciding
  <2> HIDE DEF r
  <2>3. RequestTrue(r)
    BY <1>3, <1>7, <2>2 DEF RequestTrue
  <2> QED BY <1>1, <1>4, <2>1, <2>2, <2>3, MoveOn
<1> QED BY <1>5, <1>6, <1>7

\* A rival that is not scanned is not active: whatever activated it has been
\* followed by another event.
LEMMA ScanInv ==
    ASSUME RegistryInv, NEW c \in Callers, ScanActive(c)
    PROVE  RegistryInv'
<1> DEFINE t == transition[c]
           r == Deciding(t, OthersActive(t.entry))
<1>1. ~Idle(c) /\ t.pc = "locked"
  BY DEF ScanActive, Idle
<1>2. /\ t \in [pc : {"read", "locked"}, entry : Models, to : Statuses, stamp : Nat, from : Statuses]
      /\ RequestTrue(t)
  BY <1>1, RequestFields DEF RegistryInv
<1>3. /\ t.stamp < ticks /\ Registered(t.entry) /\ \A v \in statusEvents : v.stamp # t.stamp
      /\ Settled(t.entry, t.stamp) => Allowed(Status(t.entry), t.to)
  BY <1>1, <1>2 DEF RequestTrue
<1>4. /\ r \in Requests /\ r.pc = "decided" /\ r.retires = OthersActive(t.entry)
      /\ r.entry = t.entry /\ r.to = t.to /\ r.stamp = t.stamp
  BY <1>2 DEF Requests, Deciding, OthersActive
<1>5. transition' = [transition EXCEPT ![c] = r] /\ UNCHANGED <<statusEvents, ticks>>
  BY DEF ScanActive
<1>6. \A n \in OthersActive(t.entry) : n # t.entry /\ Registered(n) /\ Status(n) = "ACTIVE"
  BY DEF OthersActive
<1>7. ASSUME NEW n \in Rivals(t.entry) \ OthersActive(t.entry),
             NEW v \in EventsOf(n), v.status = "ACTIVE"
      PROVE \E w \in EventsOf(n) : w.stamp > v.stamp
  <2>1. n \in Models /\ Registered(n) /\ Status(n) # "ACTIVE"
    BY <1>7 DEF Rivals, OthersActive, Registered
  <2>2. /\ Latest(n) \in EventsOf(n) /\ v.stamp <= Latest(n).stamp
        /\ Latest(n).status # "ACTIVE"
    BY <2>1, LatestEvent DEF RegistryInv
  <2>3. Latest(n).stamp # v.stamp
    BY <1>7, <2>2 DEF RegistryInv, EventsTrue, EventsOf
  <2>4. Latest(n).stamp \in Nat /\ v.stamp \in Nat
    BY <2>2 DEF EventsOf, RegistryInv, RegistryTypes, Events
  <2> QED BY <2>2, <2>3, <2>4
<1> HIDE DEF r
<1>8. RequestTrue(r)
  BY <1>3, <1>4, <1>6, <1>7 DEF RequestTrue, Succeeded
<1> QED BY <1>1, <1>4, <1>5, <1>8, MoveOn

\* Events written now, of requests received before.
Written(E) ==
    /\ E \subseteq Events
    /\ statusEvents' = statusEvents \cup E /\ ticks' = ticks + 1
    /\ \A e \in E : e.done = ticks /\ e.stamp <= ticks /\ (e.status # "CANDIDATE" => e.stamp < ticks)
    /\ \A e \in E : \A v \in statusEvents : e.entry = v.entry => e.stamp # v.stamp
    /\ \A e, f \in E : e.entry = f.entry => e = f

\* What is written has its type and its own stamp.
LEMMA WrittenTypes ==
    ASSUME RegistryInv, NEW E, Written(E)
    PROVE  statusEvents' \in SUBSET Events /\ ticks' \in Nat /\ EventsTrue'
<1>1. statusEvents \subseteq Events /\ ticks \in Nat
  BY DEF RegistryInv, RegistryTypes
<1>2. statusEvents' \subseteq Events /\ ticks' = ticks + 1 /\ ticks' \in Nat
  BY <1>1 DEF Written
<1>3. ASSUME NEW v \in statusEvents'
      PROVE  v.stamp <= v.done /\ v.done < ticks' /\ (v.status # "CANDIDATE" => v.stamp < v.done)
  <2>1. v.stamp \in Nat /\ v.done \in Nat
    BY <1>2 DEF Events
  <2>2. CASE v \in statusEvents
    BY <1>1, <1>2, <2>1, <2>2 DEF RegistryInv, EventsTrue
  <2>3. CASE v \in E
    BY <1>1, <1>2, <2>1, <2>3 DEF Written
  <2> QED BY <2>2, <2>3 DEF Written
<1>4. ASSUME NEW v \in statusEvents', NEW w \in statusEvents', v.entry = w.entry, v.stamp = w.stamp
      PROVE  v = w
  BY <1>4 DEF Written, RegistryInv, EventsTrue
<1> QED BY <1>2, <1>3, <1>4 DEF EventsTrue

\* The history of an entry whose events do not overlap goes on from its
\* latest event.
LEMMA WrittenHistory ==
    ASSUME RegistryInv, NEW E, Written(E),
           \A e \in E : e.status # "CANDIDATE" /\ Settled(e.entry, e.stamp) =>
               Registered(e.entry) /\ <<Status(e.entry), e.status>> \in LifeCycle
    PROVE  SequentialHistory'
<1>1. statusEvents' \subseteq Events /\ statusEvents \subseteq Events /\ ticks \in Nat
  BY WrittenTypes DEF RegistryInv, RegistryTypes
<1> SUFFICES ASSUME NEW m \in Models,
                    \A v, w \in EventsOf(m)' : v # w => ~Overlap(v, w),
                    NEW v \in EventsOf(m)', v.status # "CANDIDATE"
             PROVE  \E u \in EventsOf(m)' :
                      /\ u.stamp < v.stamp /\ <<u.status, v.status>> \in LifeCycle
                      /\ \A w \in EventsOf(m)' : ~(u.stamp < w.stamp /\ w.stamp < v.stamp)
  BY DEF SequentialHistory, Overlap
<1>2. /\ EventsOf(m) \subseteq EventsOf(m)' /\ EventsOf(m)' \subseteq Events
      /\ \A w \in EventsOf(m)' : w \in EventsOf(m) \/ (w \in E /\ w.entry = m)
  BY <1>1 DEF EventsOf, Written
<1>3. \A w \in EventsOf(m)' : w.stamp \in Nat /\ w.done \in Nat
  BY <1>2 DEF Events
<1>4. CASE v \in EventsOf(m)
  <2>1. PICK u \in EventsOf(m) :
           /\ u.stamp < v.stamp /\ <<u.status, v.status>> \in LifeCycle
           /\ \A w \in EventsOf(m) : ~(u.stamp < w.stamp /\ w.stamp < v.stamp)
    BY <1>2, <1>4 DEF RegistryInv, SequentialHistory
  <2>2. v.stamp <= v.done /\ v.done < ticks
    BY <1>4 DEF RegistryInv, EventsTrue, EventsOf
  <2>3. ASSUME NEW w \in E, w \in EventsOf(m)' PROVE ~(w.stamp < v.stamp)
    <3>1. w.done = ticks
      BY DEF Written
    <3>2. w # v
      BY <2>2, <3>1, <1>1, <1>3, <2>3
    <3>3. ~Overlap(v, w)
      BY <2>3, <3>2
    <3>4. v.stamp \in Nat /\ v.done \in Nat /\ w.stamp \in Nat
      BY <1>3, <2>3
    <3> QED BY <1>1, <2>2, <3>1, <3>3, <3>4 DEF Overlap
  <2> QED BY <1>2, <2>1, <2>3
<1>5. CASE v \notin EventsOf(m)
  <2>1. v \in E /\ v.entry = m /\ v.done = ticks
    BY <1>2, <1>5 DEF Written
  <2>2. ASSUME NEW w \in EventsOf(m) PROVE w.done <= v.stamp
    <3>1. w # v /\ w.stamp <= w.done /\ w.done < ticks /\ w \in EventsOf(m)'
      BY <1>2, <1>5 DEF RegistryInv, EventsTrue, EventsOf
    <3>2. ~Overlap(v, w)
      BY <3>1
    <3>3. v.stamp \in Nat /\ w.done \in Nat /\ w.stamp \in Nat
      BY <1>3, <3>1
    <3> QED BY <1>1, <2>1, <3>1, <3>2, <3>3 DEF Overlap
  <2>3. Registered(m) /\ <<Status(m), v.status>> \in LifeCycle
    BY <2>1, <2>2 DEF Settled
  <2> DEFINE u == Latest(m)
  <2>4. u \in EventsOf(m) /\ (\A w \in EventsOf(m) : w.stamp <= u.stamp) /\ u.status = Status(m)
    BY <2>3, LatestEvent DEF RegistryInv
  <2> HIDE DEF u
  <2>5. u.stamp <= u.done /\ u.done <= v.stamp /\ u.stamp # v.stamp
    BY <2>1, <2>2, <2>4 DEF RegistryInv, EventsTrue, EventsOf, Written
  <2>6. u.stamp < v.stamp
    <3>1. u.stamp \in Nat /\ u.done \in Nat /\ v.stamp \in Nat
      BY <1>2, <1>3, <2>4
    <3> QED BY <2>5, <3>1
  <2>7. ASSUME NEW w \in EventsOf(m)' PROVE ~(u.stamp < w.stamp /\ w.stamp < v.stamp)
    <3>0. u.stamp \in Nat /\ w.stamp \in Nat /\ v.stamp \in Nat
      BY <1>2, <1>3, <2>4
    <3>1. CASE w \in EventsOf(m)
      <4>1. w.stamp <= u.stamp
        BY <2>4, <3>1
      <4> QED BY <3>0, <4>1
    <3>2. CASE w \notin EventsOf(m)
      <4>1. w = v
        BY <1>2, <2>1, <3>2 DEF Written
      <4> QED BY <3>0, <4>1
    <3> QED BY <3>1, <3>2
  <2> QED BY <1>2, <2>3, <2>4, <2>6, <2>7
<1> QED BY <1>4, <1>5

\* What an event has succeeded stays so, and so does what a request knows.
LEMMA WrittenRivals ==
    ASSUME RegistryInv, NEW E, Written(E),
           \A e \in E : e.status = "ACTIVE" => \A n \in Rivals(e.entry) :
               Succeeded(n, e.stamp) \/ \E f \in E : f.entry = n /\ f.stamp = e.stamp
    PROVE  RivalsRetired'
<1>1. statusEvents' \subseteq Events /\ statusEvents \subseteq Events /\ ticks \in Nat
  BY WrittenTypes DEF RegistryInv, RegistryTypes
<1> SUFFICES ASSUME NEW w \in statusEvents', w.status = "ACTIVE", NEW n \in Rivals(w.entry),
                    NEW v \in EventsOf(n)', v.status = "ACTIVE", v.done <= w.stamp
             PROVE  \E x \in EventsOf(n)' : x.stamp > v.stamp
  BY DEF RivalsRetired, Succeeded, Rivals
<1>2. v \in Events /\ v.stamp \in Nat /\ v.done \in Nat /\ w.stamp \in Nat
  BY <1>1 DEF EventsOf, Events
<1>3. w.stamp < ticks
  BY <1>1, <1>2 DEF Written, RegistryInv, EventsTrue, Events
<1>4. v \in EventsOf(n)
  BY <1>1, <1>2, <1>3 DEF EventsOf, Written
<1>5. EventsOf(n) \subseteq EventsOf(n)'
  BY DEF EventsOf, Written
<1>6. CASE Succeeded(n, w.stamp)
  BY <1>4, <1>5, <1>6 DEF Succeeded
<1>7. CASE w \in statusEvents
  BY <1>6, <1>7 DEF RegistryInv, RivalsRetired
<1>8. ASSUME NEW f \in E, f.entry = n, f.stamp = w.stamp PROVE \E x \in EventsOf(n)' : x.stamp > v.stamp
  <2>1. f \in EventsOf(n)'
    BY <1>8 DEF EventsOf, Written
  <2>2. v.stamp < v.done
    BY <1>4 DEF RegistryInv, EventsTrue, EventsOf
  <2>3. f.stamp > v.stamp
    BY <1>2, <1>8, <2>2
  <2> QED BY <2>1, <2>3
<1> QED BY <1>6, <1>7, <1>8 DEF Written

\* An entry begins with its first event.
LEMMA RegisterInv ==
    ASSUME RegistryInv, NEW m \in Models, RegisterModel(m)
    PROVE  RegistryInv'
<1> DEFINE e == [entry |-> m, status |-> "CANDIDATE", stamp |-> ticks, done |-> ticks]
<1>1. ticks \in Nat /\ statusEvents \subseteq Events /\ transition' = transition
  BY DEF RegistryInv, RegistryTypes, RegisterModel
<1>2. e \in Events /\ e.entry = m /\ e.status = "CANDIDATE" /\ e.stamp = ticks /\ e.done = ticks
  BY <1>1 DEF Events, Statuses
<1>3. statusEvents' = statusEvents \cup {e} /\ ticks' = ticks + 1
  BY DEF RegisterModel
<1>4. \A v \in statusEvents : v.entry # m
  BY DEF RegisterModel, Registered, EventsOf
<1> HIDE DEF e
<1>5. Written({e})
  BY <1>1, <1>2, <1>3, <1>4 DEF Written
<1>6. statusEvents' \in SUBSET Events /\ ticks' \in Nat /\ EventsTrue'
  BY <1>5, WrittenTypes
<1>7. SequentialHistory' /\ RivalsRetired'
  BY <1>2, <1>5, WrittenHistory, WrittenRivals
<1>8. ASSUME NEW d \in Callers PROVE RequestTrue(transition[d])'
  <2>1. RequestTrue(transition[d]) /\ transition[d] \in Requests
    BY DEF RegistryInv, RegistryTypes
  <2>2. ASSUME NEW q \in Requests, transition[d] = q PROVE RequestTrue(q)'
    <3>1. RequestTrue(q)
      BY <2>1, <2>2
    <3>2. q.pc # "none" => q.stamp \in Nat /\ q.stamp < ticks
      BY <3>1 DEF RequestTrue, Requests, NoTransition
    <3>3. \A v \in statusEvents' \ statusEvents : v.done = ticks /\ (q.pc # "none" => v.stamp # q.stamp)
      BY <1>1, <1>2, <1>3, <3>2
    <3>4. statusEvents \subseteq statusEvents' /\ ticks <= ticks'
      BY <1>1, <1>3
    <3> QED BY <1>6, <3>1, <3>3, <3>4, RequestStaysTrue DEF RegistryInv
  <2> QED BY <1>1, <2>1, <2>2
<1>9. RegistryTypes' /\ StampsDiffer'
  BY <1>1, <1>6 DEF RegistryInv, RegistryTypes, StampsDiffer, Idle
<1> QED BY <1>6, <1>7, <1>8, <1>9 DEF RegistryInv

\* A transition writes its own event and those of the models it retires.
LEMMA CommitInv ==
    ASSUME RegistryInv, NEW c \in Callers, CommitTransition(c)
    PROVE  RegistryInv'
<1> DEFINE r == transition[c]
           event(m, status) == [entry |-> m, status |-> status, stamp |-> r.stamp, done |-> ticks]
           E == {event(r.entry, r.to)} \cup {event(m, "RETIRED") : m \in r.retires}
<1>1. ~Idle(c) /\ r.pc = "decided"
  BY DEF CommitTransition, Idle
<1>2. /\ r \in [pc : {"decided"}, entry : Models, to : Statuses, stamp : Nat, retires : SUBSET Models]
      /\ RequestTrue(r)
  BY <1>1, RequestFields DEF RegistryInv
<1>3. /\ r.stamp < ticks /\ \A v \in statusEvents : v.stamp # r.stamp
      /\ Registered(r.entry) /\ r.entry \notin r.retires
      /\ Settled(r.entry, r.stamp) => Allowed(Status(r.entry), r.to)
      /\ \A n \in r.retires : Registered(n) /\ (Settled(n, r.stamp) => Status(n) = "ACTIVE")
      /\ r.to = "ACTIVE" => \A n \in Rivals(r.entry) \ r.retires : Succeeded(n, r.stamp)
  BY <1>1, <1>2 DEF RequestTrue
<1>4. /\ statusEvents' = statusEvents \cup E /\ ticks' = ticks + 1
      /\ transition' = [transition EXCEPT ![c] = NoTransition]
  BY DEF CommitTransition
<1>5. ticks \in Nat /\ statusEvents \subseteq Events
  BY DEF RegistryInv, RegistryTypes
<1>6. \A e \in E :
        /\ e \in Events /\ e.stamp = r.stamp /\ e.done = ticks
        /\ \/ e.entry = r.entry /\ e.status = r.to /\ e = event(r.entry, r.to)
           \/ e.entry \in r.retires /\ e.status = "RETIRED" /\ e = event(e.entry, "RETIRED")
  BY <1>2, <1>5 DEF Events, Statuses
<1>7. ASSUME NEW n \in r.retires PROVE \E f \in E : f.entry = n /\ f.stamp = r.stamp
  <2>1. event(n, "RETIRED") \in E /\ event(n, "RETIRED").entry = n /\ event(n, "RETIRED").stamp = r.stamp
    OBVIOUS
  <2> QED BY <2>1
<1>8. \A e, f \in E : e.entry = f.entry => e = f
  BY <1>3, <1>6
<1>9. \A e \in E : e.status = "ACTIVE" => e.entry = r.entry /\ r.to = "ACTIVE"
  BY <1>6
<1>10. \A e \in E : e.status # "CANDIDATE" /\ Settled(e.entry, e.stamp) =>
         Registered(e.entry) /\ <<Status(e.entry), e.status>> \in LifeCycle
  <2> SUFFICES ASSUME NEW e \in E, Settled(e.entry, e.stamp)
               PROVE Registered(e.entry) /\ <<Status(e.entry), e.status>> \in LifeCycle
    OBVIOUS
  <2>1. e.stamp = r.stamp
    BY <1>6
  <2>2. CASE e.entry = r.entry /\ e.status = r.to
    BY <1>3, <2>1, <2>2 DEF Allowed, LifeCycle
  <2>3. CASE e.entry \in r.retires /\ e.status = "RETIRED"
    BY <1>3, <2>1, <2>3 DEF LifeCycle
  <2> QED BY <1>6, <2>2, <2>3
<1> HIDE DEF E
<1>11. Written(E)
  <2>1. E \subseteq Events /\ \A e \in E : e.done = ticks /\ e.stamp = r.stamp
    BY <1>6
  <2>2. r.stamp <= ticks /\ r.stamp < ticks
    BY <1>2, <1>3, <1>5
  <2> HIDE DEF r
  <2> QED BY <1>3, <1>4, <1>8, <2>1, <2>2 DEF Written
<1>12. statusEvents' \in SUBSET Events /\ ticks' \in Nat /\ EventsTrue'
  BY <1>11, WrittenTypes
<1>13. SequentialHistory'
  BY <1>10, <1>11, WrittenHistory
<1>14. RivalsRetired'
  <2>1. \A e \in E : e.status = "ACTIVE" => \A n \in Rivals(e.entry) :
           Succeeded(n, e.stamp) \/ \E f \in E : f.entry = n /\ f.stamp = e.stamp
    BY <1>3, <1>6, <1>7, <1>9
  <2> QED BY <1>11, <2>1, WrittenRivals
<1>15. /\ transition'[c] = NoTransition
       /\ \A d \in Callers \ {c} : transition'[d] = transition[d]
  BY <1>4 DEF RegistryInv, RegistryTypes
<1>16. ASSUME NEW d \in Callers PROVE RequestTrue(transition[d])'
  <2>1. CASE d = c
    BY <1>15, <2>1 DEF RequestTrue, NoTransition
  <2>2. CASE d # c
    <3>1. RequestTrue(transition[d]) /\ transition[d] \in Requests
      BY DEF RegistryInv, RegistryTypes
    <3>2. ASSUME NEW q \in Requests, transition[d] = q PROVE RequestTrue(q)'
      <4>1. RequestTrue(q)
        BY <3>1, <3>2
      <4>2. q.pc # "none" => q.stamp # r.stamp
        BY <1>1, <2>2, <3>2 DEF RegistryInv, StampsDiffer, Idle
      <4>3. \A v \in statusEvents' \ statusEvents : v.done = ticks /\ (q.pc # "none" => v.stamp # q.stamp)
        BY <1>4, <1>6, <4>2
      <4>4. statusEvents \subseteq statusEvents' /\ ticks <= ticks'
        BY <1>4, <1>5
      <4> QED BY <1>12, <4>1, <4>3, <4>4, RequestStaysTrue DEF RegistryInv
    <3> QED BY <1>15, <2>2, <3>1, <3>2
  <2> QED BY <2>1, <2>2
<1>17. transition' \in [Callers -> Requests]
  BY <1>4 DEF RegistryInv, RegistryTypes, Requests
<1>18. StampsDiffer'
  BY <1>15 DEF RegistryInv, StampsDiffer, Idle, NoTransition
<1> QED BY <1>12, <1>13, <1>14, <1>16, <1>17, <1>18 DEF RegistryInv, RegistryTypes

\* Every step of a request keeps the registry.
LEMMA RegistryStep == RegistryInv /\ [RegistryNext]_registryVars => RegistryInv'
<1>1. ASSUME RegistryInv, UNCHANGED registryVars PROVE RegistryInv'
  <2> USE <1>1 DEF registryVars, RegistryInv
  <2>1. (RegistryTypes /\ EventsTrue /\ StampsDiffer)'
    BY DEF RegistryTypes, EventsTrue, StampsDiffer, Idle
  <2>2. (RivalsRetired /\ SequentialHistory)'
    BY DEF RivalsRetired, Succeeded, SequentialHistory, EventsOf, Overlap
  <2>3. ASSUME NEW c \in Callers PROVE RequestTrue(transition[c])'
    <3>1. RequestTrue(transition[c]) /\ transition[c] \in Requests
      BY DEF RegistryTypes
    <3>2. ticks' \in Nat /\ ticks <= ticks'
      BY DEF RegistryTypes
    <3>3. ASSUME NEW q \in Requests, transition[c] = q PROVE RequestTrue(q)'
      BY <3>1, <3>2, <3>3, RequestStaysTrue
    <3> QED BY <3>1, <3>3
  <2> QED BY <2>1, <2>2, <2>3
<1>2. ASSUME RegistryInv, NEW c \in Callers, NEW m \in Models, NEW to \in Statuses \ {"CANDIDATE"},
             ReceiveTransition(c, m, to)
      PROVE RegistryInv'
  BY <1>2, ReceiveInv
<1> QED
  BY <1>1, <1>2, RegisterInv, ReadInv, LockInv, ScanInv, CommitInv, RollbackInv DEF RegistryNext

\* The invariant of the registry holds in every state.
LEMMA RegistryInvariant == RegistrySpec => []RegistryInv
<1>1. RegistryInit => RegistryInv
  BY DEF RegistryInit, RegistryInv, RegistryTypes, Requests, NoTransition, EventsTrue, StampsDiffer, Idle,
         RequestTrue, RivalsRetired, SequentialHistory, EventsOf
<1> QED BY <1>1, RegistryStep, PTL DEF RegistrySpec

\* Two active models of a type were activated by requests that overlapped.
LEMMA ActiveOverlap == RegistryInv => OneActive
<1> SUFFICES ASSUME RegistryInv, NEW m \in Models, NEW n \in Models,
                    Registered(m), Registered(n), Status(m) = "ACTIVE", Status(n) = "ACTIVE",
                    m # n, TypeOf[m] = TypeOf[n]
             PROVE  Overlap(Latest(m), Latest(n))
  BY DEF OneActive
<1> DEFINE v == Latest(m)
           w == Latest(n)
<1>1. /\ v \in EventsOf(m) /\ (\A x \in EventsOf(m) : x.stamp <= v.stamp) /\ v.status = "ACTIVE"
      /\ w \in EventsOf(n) /\ (\A x \in EventsOf(n) : x.stamp <= w.stamp) /\ w.status = "ACTIVE"
  BY LatestEvent DEF RegistryInv
<1> HIDE DEF v, w
<1>2. v \in statusEvents /\ v.entry = m /\ w \in statusEvents /\ w.entry = n
  BY <1>1 DEF EventsOf
<1>3. v.stamp \in Nat /\ v.done \in Nat /\ w.stamp \in Nat /\ w.done \in Nat
  BY <1>2 DEF RegistryInv, RegistryTypes, Events
<1>4. v.stamp < v.done /\ w.stamp < w.done
  BY <1>1, <1>2 DEF RegistryInv, EventsTrue
<1>5. ~(v.done <= w.stamp)
  <2> SUFFICES ASSUME v.done <= w.stamp PROVE FALSE
    OBVIOUS
  <2>1. PICK x \in EventsOf(m) : x.stamp > v.stamp
    BY <1>1, <1>2 DEF RegistryInv, RivalsRetired, Rivals, Succeeded
  <2>2. x.stamp <= v.stamp /\ x.stamp \in Nat
    BY <1>1, <2>1 DEF EventsOf, RegistryInv, RegistryTypes, Events
  <2> QED BY <1>3, <2>1, <2>2
<1>6. ~(w.done <= v.stamp)
  <2> SUFFICES ASSUME w.done <= v.stamp PROVE FALSE
    OBVIOUS
  <2>1. PICK x \in EventsOf(n) : x.stamp > w.stamp
    BY <1>1, <1>2 DEF RegistryInv, RivalsRetired, Rivals, Succeeded
  <2>2. x.stamp <= w.stamp /\ x.stamp \in Nat
    BY <1>1, <2>1 DEF EventsOf, RegistryInv, RegistryTypes, Events
  <2> QED BY <1>3, <2>1, <2>2
<1>7. Overlap(v, w)
  BY <1>3, <1>5, <1>6 DEF Overlap
<1> QED BY <1>7 DEF v, w

\* Two models of a type are active only when the requests that activated them
\* overlapped, for any models, requests and clients (store/model_registry.go's
\* scan and its RETIRED events).
THEOREM OneModelActive == ServicesSpec => []OneActive
<1> QED BY RegistryInvariant, ActiveOverlap, ServicesAreIndependent, PTL

\* The status of a model moves along its life cycle unless requests for it
\* overlapped (store/model_registry.go reads the status before it locks).
THEOREM HistoriesAreSequential == ServicesSpec => []SequentialHistory
<1>1. RegistryInv => SequentialHistory
  BY DEF RegistryInv
<1> QED BY <1>1, RegistryInvariant, ServicesAreIndependent, PTL

-----------------------------------------------------------------------------
(* Merchant profiles.                                                       *)

Profiles == [version : Nat \ {0}, author : Editors]

Drafts ==
    {NoDraft} \cup [pc : {"received", "locked"}, merchant : Merchants]
              \cup [pc : {"numbered"}, merchant : Merchants, version : Nat \ {0}]

ProfilesTypes ==
    /\ profiles \in [Merchants -> SUBSET Profiles]
    /\ \A m \in Merchants : IsFiniteSet(profiles[m])
    /\ draft \in [Editors -> Drafts]

\* A request between its lock and its commit.
Holds(c) == draft[c].pc \in {"locked", "numbered"}

OneHolder ==
    \A c, d \in Editors : Holds(c) /\ Holds(d) /\ draft[c].merchant = draft[d].merchant => c = d

\* The number a request holds is still the next one.
NumberIsNext ==
    \A c \in Editors : draft[c].pc = "numbered" =>
        draft[c].version = Cardinality(profiles[draft[c].merchant]) + 1

ProfilesInv == ProfilesTypes /\ OneHolder /\ NumberIsNext /\ ProfilesNumbered

\* The number after the highest of 1 .. n.
LEMMA NextIsNext ==
    ASSUME NEW m \in Merchants, NEW n \in Nat, Versions(m) = 1 .. n
    PROVE  NextVersion(m) = n + 1
<1> DEFINE top == CHOOSE k \in Versions(m) \cup {0} : \A j \in Versions(m) : j <= k
<1>1. \E k \in Versions(m) \cup {0} : \A j \in Versions(m) : j <= k
  <2>1. n \in Versions(m) \cup {0} /\ \A j \in Versions(m) : j <= n
    OBVIOUS
  <2> QED BY <2>1
<1>2. top \in Versions(m) \cup {0} /\ \A j \in Versions(m) : j <= top
  BY <1>1
<1>3. top = n
  <2> HIDE DEF top
  <2> QED BY <1>2
<1> QED BY <1>3 DEF NextVersion

\* A step that leaves the profiles alone and gives one request a new draft.
LEMMA OneDraft ==
    ASSUME ProfilesInv, NEW c \in Editors, NEW d \in Drafts,
           draft' = [draft EXCEPT ![c] = d], UNCHANGED <<profiles, refused>>,
           d.pc \in {"locked", "numbered"} =>
               /\ d.merchant \in Merchants
               /\ \A e \in Editors \ {c} : ~(Holds(e) /\ draft[e].merchant = d.merchant),
           d.pc = "numbered" => d.version = Cardinality(profiles[d.merchant]) + 1
    PROVE  ProfilesInv'
<1>1. /\ draft' \in [Editors -> Drafts] /\ draft'[c] = d
      /\ \A e \in Editors \ {c} : draft'[e] = draft[e]
  BY DEF ProfilesInv, ProfilesTypes
<1>2. OneHolder'
  BY <1>1 DEF ProfilesInv, OneHolder, Holds
<1>3. NumberIsNext'
  BY <1>1 DEF ProfilesInv, NumberIsNext
<1> QED BY <1>1, <1>2, <1>3 DEF ProfilesInv, ProfilesTypes, ProfilesNumbered, Versions

\* Every step of a request keeps the numbering.
LEMMA ProfilesStep == ProfilesInv /\ [ProfilesNext]_profileVars => ProfilesInv'
<1> SUFFICES ASSUME ProfilesInv, [ProfilesNext]_profileVars PROVE ProfilesInv'
  OBVIOUS
<1>0. ASSUME NEW c \in Editors
      PROVE  /\ draft[c].pc = "received" \/ draft[c].pc = "locked" =>
                    draft[c] \in [pc : {"received", "locked"}, merchant : Merchants]
             /\ draft[c].pc = "numbered" =>
                    draft[c] \in [pc : {"numbered"}, merchant : Merchants, version : Nat \ {0}]
  BY DEF ProfilesInv, ProfilesTypes, Drafts, NoDraft
<1>1. ASSUME NEW c \in Editors, NEW m \in Merchants, ReceiveProfile(c, m) PROVE ProfilesInv'
  <2> DEFINE d == [pc |-> "received", merchant |-> m]
  <2>1. d \in Drafts /\ d.pc = "received"
    BY DEF Drafts
  <2>2. draft' = [draft EXCEPT ![c] = d] /\ UNCHANGED <<profiles, refused>>
    BY <1>1 DEF ReceiveProfile
  <2> HIDE DEF d
  <2> QED BY <2>1, <2>2, OneDraft
<1>2. ASSUME NEW c \in Editors, LockMerchant(c) PROVE ProfilesInv'
  <2> DEFINE d == [draft[c] EXCEPT !.pc = "locked"]
  <2>1. draft[c] \in [pc : {"received", "locked"}, merchant : Merchants]
    BY <1>0, <1>2 DEF LockMerchant
  <2>2. d \in Drafts /\ d.pc = "locked" /\ d.merchant = draft[c].merchant /\ d.merchant \in Merchants
    BY <2>1 DEF Drafts
  <2>3. draft' = [draft EXCEPT ![c] = d] /\ UNCHANGED <<profiles, refused>>
    BY <1>2 DEF LockMerchant
  <2>4. \A e \in Editors \ {c} : ~(Holds(e) /\ draft[e].merchant = d.merchant)
    BY <1>2, <2>2 DEF LockMerchant, MerchantLocked, Holds
  <2> HIDE DEF d
  <2> QED BY <2>2, <2>3, <2>4, OneDraft
<1>3. ASSUME NEW c \in Editors, NumberProfile(c) PROVE ProfilesInv'
  <2> DEFINE m == draft[c].merchant
             d == [pc |-> "numbered", merchant |-> m, version |-> NextVersion(m)]
  <2>1. m \in Merchants
    BY <1>0, <1>3 DEF NumberProfile
  <2>2. Cardinality(profiles[m]) \in Nat /\ Versions(m) = 1 .. Cardinality(profiles[m])
    BY <2>1, FS_CardinalityType DEF ProfilesInv, ProfilesTypes, ProfilesNumbered
  <2>3. NextVersion(m) = Cardinality(profiles[m]) + 1
    BY <2>1, <2>2, NextIsNext
  <2>4. /\ d \in Drafts /\ d.pc = "numbered" /\ d.merchant = m
        /\ d.version = Cardinality(profiles[m]) + 1
    BY <2>1, <2>2, <2>3 DEF Drafts
  <2>5. draft' = [draft EXCEPT ![c] = d] /\ UNCHANGED <<profiles, refused>>
    BY <1>3 DEF NumberProfile
  <2>6. \A e \in Editors \ {c} : ~(Holds(e) /\ draft[e].merchant = m)
    BY <1>3, <2>1 DEF ProfilesInv, OneHolder, Holds, NumberProfile
  <2> HIDE DEF d
  <2> QED BY <2>1, <2>4, <2>5, <2>6, OneDraft
<1>4. ASSUME NEW c \in Editors, CommitProfile(c) PROVE ProfilesInv'
  <2> DEFINE m == draft[c].merchant
             v == draft[c].version
             p == [version |-> v, author |-> c]
             n == Cardinality(profiles[m])
  <2>1. m \in Merchants /\ v \in Nat \ {0} /\ draft[c].pc = "numbered"
    BY <1>0, <1>4 DEF CommitProfile
  <2>2. n \in Nat /\ IsFiniteSet(profiles[m]) /\ Versions(m) = 1 .. n /\ v = n + 1
    BY <2>1, FS_CardinalityType DEF ProfilesInv, ProfilesTypes, ProfilesNumbered, NumberIsNext
  <2>3. v \notin Versions(m)
    BY <2>2
  <2>4. profiles' = [profiles EXCEPT ![m] = @ \cup {p}] /\ draft' = [draft EXCEPT ![c] = NoDraft] /\ refused' = refused
    BY <1>4, <2>3 DEF CommitProfile
  <2>5. p \notin profiles[m] /\ p \in Profiles
    BY <2>1, <2>3 DEF Versions, Profiles
  <2>6. /\ profiles'[m] = profiles[m] \cup {p}
        /\ \A k \in Merchants \ {m} : profiles'[k] = profiles[k]
        /\ draft'[c] = NoDraft /\ \A e \in Editors \ {c} : draft'[e] = draft[e]
    BY <2>1, <2>4 DEF ProfilesInv, ProfilesTypes
  <2>7. IsFiniteSet(profiles'[m]) /\ Cardinality(profiles'[m]) = n + 1
    <3> HIDE DEF p
    <3>1. IsFiniteSet(profiles[m] \cup {p}) /\ Cardinality(profiles[m] \cup {p}) = n + 1
      BY <2>2, <2>5, FS_AddElement
    <3> QED BY <2>6, <3>1
  <2>8. ProfilesTypes'
    <3>1. NoDraft \in Drafts
      BY DEF Drafts
    <3>2. profiles' \in [Merchants -> SUBSET Profiles] /\ draft' \in [Editors -> Drafts]
      BY <2>1, <2>4, <2>5, <3>1 DEF ProfilesInv, ProfilesTypes
    <3>3. \A k \in Merchants : IsFiniteSet(profiles'[k])
      BY <2>6, <2>7 DEF ProfilesInv, ProfilesTypes
    <3> QED BY <3>2, <3>3 DEF ProfilesTypes
  <2>9. OneHolder'
    BY <2>6 DEF ProfilesInv, OneHolder, Holds, NoDraft
  <2>10. \A e \in Editors \ {c} : draft[e].pc = "numbered" => draft[e].merchant # m
    BY <2>1 DEF ProfilesInv, OneHolder, Holds
  <2>11. NumberIsNext'
    <3> SUFFICES ASSUME NEW e \in Editors, draft'[e].pc = "numbered"
                 PROVE draft'[e].version = Cardinality(profiles'[draft'[e].merchant]) + 1
      BY DEF NumberIsNext
    <3>1. e # c
      BY <2>6 DEF NoDraft
    <3>2. draft'[e] = draft[e] /\ draft[e].merchant # m /\ draft[e].merchant \in Merchants
      BY <1>0, <2>6, <2>10, <3>1
    <3> QED BY <2>6, <3>2 DEF ProfilesInv, NumberIsNext
  <2>12. {q.version : q \in profiles'[m]} = 1 .. (n + 1)
    <3>1. p.version = v
      OBVIOUS
    <3>2. {q.version : q \in profiles[m] \cup {p}} = {q.version : q \in profiles[m]} \cup {v}
      <4> HIDE DEF p
      <4> QED BY <3>1
    <3> QED BY <2>2, <2>6, <3>2 DEF Versions
  <2>13. ASSUME NEW k \in Merchants
         PROVE  {q.version : q \in profiles'[k]} = 1 .. Cardinality(profiles'[k])
    <3>1. CASE k = m
      BY <2>7, <2>12, <3>1
    <3>2. CASE k # m
      BY <2>6, <3>2 DEF ProfilesInv, ProfilesNumbered, Versions
    <3> QED BY <3>1, <3>2
  <2>14. ProfilesNumbered'
    BY <2>4, <2>13 DEF ProfilesInv, ProfilesNumbered, Versions
  <2> QED BY <2>8, <2>9, <2>11, <2>14 DEF ProfilesInv
<1>5. ASSUME NEW c \in Editors, RollbackProfile(c) PROVE ProfilesInv'
  <2>1. NoDraft \in Drafts /\ NoDraft.pc = "none"
    BY DEF Drafts, NoDraft
  <2>2. draft' = [draft EXCEPT ![c] = NoDraft] /\ UNCHANGED <<profiles, refused>>
    BY <1>5 DEF RollbackProfile
  <2> QED BY <2>1, <2>2, OneDraft
<1>6. CASE UNCHANGED profileVars
  BY <1>6 DEF profileVars, ProfilesInv, ProfilesTypes, OneHolder, Holds, NumberIsNext, ProfilesNumbered, Versions
<1> QED BY <1>1, <1>2, <1>3, <1>4, <1>5, <1>6 DEF ProfilesNext

\* The invariant of the profiles holds in every state.
LEMMA ProfilesInvariant == ProfilesSpec => []ProfilesInv
<1>1. ProfilesInit => ProfilesInv
  <2> SUFFICES ASSUME ProfilesInit PROVE ProfilesInv
    OBVIOUS
  <2>1. ProfilesTypes
    BY FS_EmptySet DEF ProfilesInit, ProfilesTypes, Drafts
  <2>2. OneHolder /\ NumberIsNext
    BY DEF ProfilesInit, OneHolder, Holds, NumberIsNext, NoDraft
  <2>3. \A m \in Merchants : Versions(m) = {} /\ Cardinality(profiles[m]) = 0
    BY FS_EmptySet DEF ProfilesInit, Versions
  <2>4. ProfilesNumbered
    <3>1. 1 .. 0 = {}
      OBVIOUS
    <3> QED BY <2>3, <3>1 DEF ProfilesInit, ProfilesNumbered
  <2> QED BY <2>1, <2>2, <2>4 DEF ProfilesInv
<1> QED BY <1>1, ProfilesStep, PTL DEF ProfilesSpec

\* A merchant's profiles are numbered without a gap and no request loses its
\* number, for any merchants and requests (store/merchant_profiles.go locks the
\* merchant before it numbers).
THEOREM ProfilesAreNumbered == ServicesSpec => []ProfilesNumbered
<1>1. ProfilesInv => ProfilesNumbered
  BY DEF ProfilesInv
<1> QED BY <1>1, ProfilesInvariant, ServicesAreIndependent, PTL

-----------------------------------------------------------------------------
(* Types.                                                                   *)

\* The rows of every service have their type, whatever its requests do (the
\* columns the services' statements write).
THEOREM ServicesTyped == ServicesSpec => []TypeOK
<1>1. DetectionInv => DetectionTypeOK
  BY DEF DetectionInv, DetectionTypes, DetectionTypeOK
<1>2. ResponsesInv => ResponsesTypeOK
  BY DEF ResponsesInv, ResponsesTypes, ResponsesTypeOK
<1>3. RegistryInv => RegistryTypeOK
  <2> SUFFICES ASSUME RegistryInv PROVE RegistryTypeOK
    OBVIOUS
  <2>1. statusEvents \subseteq [entry : Models, status : Statuses, stamp : Nat, done : Nat]
    BY DEF RegistryInv, RegistryTypes, Events
  <2>2. \A v, w \in statusEvents : v.entry = w.entry /\ v.stamp = w.stamp => v = w
    BY DEF RegistryInv, EventsTrue
  <2>3. ASSUME NEW c \in Callers, ~Idle(c)
        PROVE  /\ transition[c].entry \in Models /\ transition[c].to \in Statuses
               /\ transition[c].stamp < ticks
    BY <2>3, RequestFields DEF RegistryInv, RequestTrue, Idle
  <2> QED BY <2>1, <2>2, <2>3 DEF RegistryTypeOK
<1>4. ProfilesInv => ProfilesTypeOK
  BY DEF ProfilesInv, ProfilesTypes, Profiles, ProfilesNumbered, ProfilesTypeOK
<1>5. BudgetInv /\ ChargesInv => BudgetTypeOK
  BY DEF BudgetInv, Walked, ChargesInv, Charged, BudgetTypeOK
<1> QED
  BY <1>1, <1>2, <1>3, <1>4, <1>5, DetectionInvariant, ResponsesInvariant, RegistryInvariant,
     ProfilesInvariant, BudgetInvariant, ChargesInvariant, ServicesAreIndependent, PTL DEF TypeOK
=============================================================================
