---------------------------- MODULE OutreachProofs ----------------------------
(***************************************************************************)
(* Proofs of what OutreachProperties says of the rules and the worker, for *)
(* any merchants, limits, facts and number of rows.                        *)
(*                                                                         *)
(* The limits are counted over the history of a case when a row is         *)
(* created and again when it is authorized, and hold for what is sent      *)
(* later.  What carries them over is the order of the rows (Ordered): a    *)
(* row is written only when those before it have ended, so that what was   *)
(* counted before a row does not change after it (Counted).                *)
(***************************************************************************)
EXTENDS OutreachProperties, FiniteSetTheorems, WellFoundedInduction, TLAPS

\* A set of numbers that has a member has a least one: what fails for some
\* number fails for a first one, which is the induction used below.
LEMMA LeastElement ==
    ASSUME NEW T \in SUBSET Nat, T # {}
    PROVE  \E n \in T : \A m \in T : n <= m
<1>1. PICK n \in T : \A m \in T : ~ (<<m, n>> \in OpToRel(<, Nat))
  BY NatLessThanWellFounded, WFMin, Zenon
<1>2. \A m \in T : ~ (m < n)
  BY <1>1, Zenon DEF OpToRel
<1> QED BY <1>2

\* A finite set of numbers has a greatest one (by its cardinality).
LEMMA FiniteHasGreatest ==
    ASSUME NEW S \in SUBSET Nat, S # {}, IsFiniteSet(S)
    PROVE  \E n \in S : \A m \in S : m <= n
<1> DEFINE Greatest(X) == \E n \in X : \A m \in X : m <= n
           Bad(n) == \E X \in SUBSET Nat : X # {} /\ IsFiniteSet(X) /\ Cardinality(X) = n /\ ~Greatest(X)
<1>1. ASSUME NEW n \in Nat, Bad(n)
      PROVE  n - 1 \in Nat /\ Bad(n - 1)
  <2>1. PICK X \in SUBSET Nat : X # {} /\ IsFiniteSet(X) /\ Cardinality(X) = n /\ ~Greatest(X)
    BY <1>1
  <2>2. PICK x \in X : TRUE
    BY <2>1
  <2> DEFINE Y == X \ {x}
  <2>3. IsFiniteSet(Y) /\ Cardinality(Y) = n - 1
    BY <2>1, <2>2, FS_RemoveElement
  <2>4. n - 1 \in Nat
    BY <2>3, FS_CardinalityType
  <2>5. Y # {}
    BY <2>1, <2>2
  <2>6. ~Greatest(Y)
    <3>1. SUFFICES ASSUME NEW y \in Y, \A m \in Y : m <= y
                   PROVE  FALSE
      OBVIOUS
    <3>2. \A m \in X : m <= x \/ m <= y
      BY <3>1, <2>2
    <3>3. x \in Nat /\ y \in Nat
      OBVIOUS
    <3>4. Greatest(X)
      <4>1. CASE x <= y
        BY <4>1, <3>1, <3>3, <2>2
      <4>2. CASE y <= x
        <5>1. \A m \in X : m <= x
          BY <4>2, <3>1, <3>3
        <5> QED BY <5>1, <2>2
      <4> QED BY <4>1, <4>2, <3>3
    <3> QED BY <3>4, <2>1
  <2> QED BY <2>3, <2>4, <2>5, <2>6
<1> HIDE DEF Bad
<1> DEFINE T == {n \in Nat : Bad(n)}
<1>2. T = {}
  <2>1. SUFFICES ASSUME T # {} PROVE FALSE
    OBVIOUS
  <2>2. PICK n \in T : \A m \in T : n <= m
    BY <2>1, LeastElement
  <2> QED BY <2>2, <1>1
<1>3. Cardinality(S) \in Nat
  BY FS_CardinalityType
<1> QED BY <1>2, <1>3 DEF Bad

\* The largest of finitely many limits.
LEMMA MaxOfLimits ==
    ASSUME NEW S \in SUBSET Nat, S # {}, IsFiniteSet(S)
    PROVE  Max(S) \in Nat /\ \A n \in S : n <= Max(S)
<1>1. PICK n \in S : \A m \in S : n >= m
  BY FiniteHasGreatest
<1>2. Max(S) \in S /\ \A m \in S : Max(S) >= m
  BY <1>1 DEF Max
<1> QED BY <1>2

\* A column of the merchant's rows has finitely many values.
LEMMA ColumnFinite ==
    ASSUME NEW f \in [Merchants -> Nat]
    PROVE  IsFiniteSet({f[m] : m \in Merchants})
<1> DEFINE S == {f[m] : m \in Merchants}
<1>1. f \in Surjection(Merchants, S)
  BY DEF Surjection
<1> QED BY <1>1, MerchantsAssumption, FS_Surjection

\* The limits of any version of the merchant's policy are numbers, and none
\* is above the largest.
LEMMA Limits ==
    ASSUME NEW m \in Merchants
    PROVE  /\ {Max(DailyLimits), Max(WeeklyLimits), Max(RetryLimits)} \subseteq Nat
           /\ m.maxPerDay <= Max(DailyLimits) /\ m.maxPerDay \in Nat
           /\ m.maxPerWeek <= Max(WeeklyLimits) /\ m.maxPerWeek \in Nat
           /\ m.maxRetries <= Max(RetryLimits) /\ m.maxRetries \in Nat
<1>1. \A k \in Merchants : k.maxPerDay \in Nat /\ k.maxPerWeek \in Nat /\ k.maxRetries \in Nat
  BY MerchantsAssumption
<1>2. Max(DailyLimits) \in Nat /\ m.maxPerDay <= Max(DailyLimits)
  <2> DEFINE f == [k \in Merchants |-> k.maxPerDay]
  <2>1. f \in [Merchants -> Nat] /\ DailyLimits = {f[k] : k \in Merchants}
    BY <1>1 DEF DailyLimits
  <2>2. IsFiniteSet(DailyLimits)
    BY <2>1, ColumnFinite
  <2>3. DailyLimits \in SUBSET Nat /\ m.maxPerDay \in DailyLimits
    BY <1>1 DEF DailyLimits
  <2> QED BY <2>2, <2>3, MaxOfLimits
<1>3. Max(WeeklyLimits) \in Nat /\ m.maxPerWeek <= Max(WeeklyLimits)
  <2> DEFINE f == [k \in Merchants |-> k.maxPerWeek]
  <2>1. f \in [Merchants -> Nat] /\ WeeklyLimits = {f[k] : k \in Merchants}
    BY <1>1 DEF WeeklyLimits
  <2>2. IsFiniteSet(WeeklyLimits)
    BY <2>1, ColumnFinite
  <2>3. WeeklyLimits \in SUBSET Nat /\ m.maxPerWeek \in WeeklyLimits
    BY <1>1 DEF WeeklyLimits
  <2> QED BY <2>2, <2>3, MaxOfLimits
<1>4. Max(RetryLimits) \in Nat /\ m.maxRetries <= Max(RetryLimits)
  <2> DEFINE f == [k \in Merchants |-> k.maxRetries]
  <2>1. f \in [Merchants -> Nat] /\ RetryLimits = {f[k] : k \in Merchants}
    BY <1>1 DEF RetryLimits
  <2>2. IsFiniteSet(RetryLimits)
    BY <2>1, ColumnFinite
  <2>3. RetryLimits \in SUBSET Nat /\ m.maxRetries \in RetryLimits
    BY <1>1 DEF RetryLimits
  <2> QED BY <2>2, <2>3, MaxOfLimits
<1> QED BY <1>1, <1>2, <1>3, <1>4

-----------------------------------------------------------------------------
(* The rules.                                                               *)

\* Go's integer division yields an integer.
LEMMA QuoType ==
    ASSUME NEW a \in Int, NEW b \in Nat \ {0}
    PROVE  Quo(a, b) \in Int
BY DEF Quo

\* So do amounts scaled by a rate.
LEMMA MulDivType == \A a, b \in Int : \A d \in Nat \ {0} : MulDiv(a, b, d) \in Int
<1>1. SUFFICES ASSUME NEW a \in Int, NEW b \in Int, NEW d \in Nat \ {0}
               PROVE  MulDiv(a, b, d) \in Int
  OBVIOUS
<1>2. a * b \in Int
  OBVIOUS
<1> QED BY <1>2, QuoType DEF MulDiv

\* The confidence of a diagnosis is a number.
LEMMA DiagnoseType == \A category : Diagnose(category).confidence \in Nat
BY DEF Diagnose

\* The penalties of a candidate are integers.
LEMMA PenaltyTypes ==
    ASSUME NEW ctx, ctx.amount \in Int, ctx.natural \in Int, ctx.fatigue \in Int
    PROVE  \A b : FatiguePenalty(ctx, b) \in Int /\ RiskPenalty(ctx, b) \in Int
<1>1. \A b : FatiguePenalty(ctx, b) \in Int
  <2> DEFINE rate == (ctx.fatigue * 80 + 50) \div 100
           base == 10000
  <2>1. rate \in Int /\ base \in Nat \ {0}
    OBVIOUS
  <2>3. \A b : FatiguePenalty(ctx, b) \in {0, MulDiv(ctx.amount, rate, base)}
    BY DEF FatiguePenalty
  <2> HIDE DEF rate, base
  <2>4. MulDiv(ctx.amount, rate, base) \in Int
    BY <2>1, MulDivType
  <2> QED BY <2>3, <2>4
<1>2. \A b : RiskPenalty(ctx, b) \in Int
  <2> DEFINE c == Diagnose(ctx.category).confidence
  <2>1. c \in Int
    BY DiagnoseType
  <2> HIDE DEF c
  <2> DEFINE rate == ((100 - c) * 50 + 50) \div 100
           base == 10000
  <2>2. rate \in Int /\ base \in Nat \ {0}
    BY <2>1
  <2>3. \A b : RiskPenalty(ctx, b) \in {0, MulDiv(ctx.amount, rate, base)}
    BY DEF RiskPenalty, c
  <2> HIDE DEF rate, base
  <2>4. MulDiv(ctx.amount, rate, base) \in Int
    BY <2>2, MulDivType
  <2> QED BY <2>3, <2>4
<1> QED BY <1>1, <1>2

\* A candidate has a value, and waiting is worth nothing.
LEMMA CandidateValue ==
    ASSUME NEW ctx, ctx.amount \in Int, ctx.natural \in Int, ctx.fatigue \in Int,
           NEW a, NEW p \in Int
    PROVE  /\ Candidate(ctx, a, p).action = a
           /\ Candidate(ctx, a, p).nerv \in Int
           /\ Candidate(ctx, "WAIT", ctx.natural).nerv = 0
<1> DEFINE gross(q) == MulDiv(ctx.amount, q - ctx.natural, Scale)
           cost(b) == ChannelCost(b) + OperationalCost(b)
<1>1. \A b : cost(b) \in Int
  BY DEF ChannelCost, OperationalCost
<1>2. \A b : FatiguePenalty(ctx, b) \in Int
  BY PenaltyTypes
<1>3. \A b : RiskPenalty(ctx, b) \in Int
  BY PenaltyTypes
<1>4. gross(p) \in Int
  <2>1. p - ctx.natural \in Int /\ Scale \in Nat \ {0}
    BY ClockAssumption
  <2> QED BY <2>1, MulDivType
<1>5. gross(ctx.natural) = 0
  <2>1. ctx.amount * (ctx.natural - ctx.natural) = 0
    OBVIOUS
  <2>2. Quo(0, Scale) = 0
    BY ClockAssumption DEF Quo
  <2> QED BY <2>1, <2>2 DEF MulDiv
<1>6. Candidate(ctx, a, p).action = a /\ Candidate(ctx, a, p).nerv \in Int
  <2> HIDE DEF gross, cost
  <2>1. gross(p) - cost(a) - FatiguePenalty(ctx, a) - RiskPenalty(ctx, a) \in Int
    BY <1>1, <1>2, <1>3, <1>4
  <2>2. /\ Candidate(ctx, a, p).action = a
        /\ Candidate(ctx, a, p).nerv = gross(p) - cost(a) - FatiguePenalty(ctx, a) - RiskPenalty(ctx, a)
    BY DEF Candidate, gross, cost
  <2> QED BY <2>1, <2>2
<1>7. Candidate(ctx, "WAIT", ctx.natural).nerv = 0
  <2>1. cost("WAIT") = 0
    BY DEF ChannelCost, OperationalCost, ContactActions, RetryActions
  <2>2. FatiguePenalty(ctx, "WAIT") = 0
    BY DEF FatiguePenalty, ContactActions
  <2>3. RiskPenalty(ctx, "WAIT") = 0
    BY DEF RiskPenalty
  <2>4. Candidate(ctx, "WAIT", ctx.natural).nerv
          = gross(ctx.natural) - cost("WAIT") - FatiguePenalty(ctx, "WAIT") - RiskPenalty(ctx, "WAIT")
    BY DEF Candidate
  <2> HIDE DEF gross, cost
  <2> QED BY <2>1, <2>2, <2>3, <2>4, <1>5
<1> QED BY <1>6, <1>7

\* What the decision context takes from the case, the customer and the
\* merchant.
LEMMA ContextFields ==
    /\ Context.leak = facts.leak /\ Context.amount = facts.amount
    /\ Context.natural = facts.natural /\ Context.fatigue = facts.fatigue
    /\ Context.deadline = facts.deadline /\ Context.recovered = (caseState = "RECOVERED")
    /\ Context.optedOut = (optedOutAt # NoTime) /\ Context.promised = (promisedAt # NoTime)
    /\ Context.recent = History /\ Context.at = now /\ Context.merchant = merchant
    /\ Context.mandate = facts.mandate /\ Context.category = facts.category
    /\ Context.available = merchant.available
BY DEF Context

\* What is selected was eligible, or is WAIT.
LEMMA SelectedKinds ==
    ASSUME facts \in Facts, NEW e \in Evaluations
    PROVE  /\ e.candidate.action \in Scoreable \cup {"WAIT"}
           /\ e.candidate.action # "WAIT" => e.candidate.action \in EligibleActions(Context)
           /\ e.candidate.nerv \in Int
           /\ e.candidate.action = "WAIT" => e.candidate.nerv = 0
           /\ e.gate = Gate(e.candidate, merchant.threshold)
           /\ e.policy = PolicyDecision(Context, e.candidate, e.gate, now)
           /\ e.denials = DenyReasons(Context, e.candidate, e.gate, now)
<1> DEFINE ctx == Context
           Eligible == EligibleActions(ctx) \cap Scoreable
<1>0. PICK predicted \in [Eligible -> Levels] :
        \E c \in Selected(ctx, predicted) :
           /\ e.candidate = c /\ e.gate = Gate(c, merchant.threshold)
           /\ e.policy = PolicyDecision(ctx, c, e.gate, now)
           /\ e.denials = DenyReasons(ctx, c, e.gate, now)
  BY DEF Evaluations
<1>1. PICK c \in Selected(ctx, predicted) :
         /\ e.candidate = c /\ e.gate = Gate(c, merchant.threshold)
         /\ e.policy = PolicyDecision(ctx, c, e.gate, now)
         /\ e.denials = DenyReasons(ctx, c, e.gate, now)
  BY <1>0
<1>2. ctx.amount \in Int /\ ctx.natural \in Int /\ ctx.fatigue \in Int
  BY ContextFields, FactsAssumption
<1>3. c \in Ranked(ctx, predicted)
  BY DEF Selected
<1>4. "WAIT" \notin Scoreable
  BY DEF Scoreable, RetryActions, ContactActions
<1> HIDE DEF ctx
<1>5. CASE c = Candidate(ctx, "WAIT", ctx.natural)
  <2>1. c.action = "WAIT" /\ c.nerv = 0
    BY <1>2, <1>5, CandidateValue
  <2> QED BY <2>1, <1>1 DEF ctx
<1>6. CASE \E a \in Eligible \ {"WAIT"} : c = Candidate(ctx, a, predicted[a])
  <2>1. PICK a \in Eligible \ {"WAIT"} : c = Candidate(ctx, a, predicted[a])
    BY <1>6
  <2>2. predicted[a] \in Int
    BY FactsAssumption
  <2>3. c.action = a /\ c.nerv \in Int
    BY <1>2, <2>1, <2>2, CandidateValue
  <2> QED BY <2>1, <2>3, <1>1 DEF ctx
<1> QED BY <1>3, <1>5, <1>6 DEF Ranked

\* What is selected fits the case's type of leak.
LEMMA CompatibleKinds ==
    ASSUME facts \in Facts, NEW e \in Evaluations
    PROVE  Compatible(facts.leak, e.candidate.action)
<1>1. CASE e.candidate.action = "WAIT"
  BY <1>1 DEF Compatible, SubscriptionOnly, RetryActions
<1>2. CASE e.candidate.action # "WAIT"
  <2>1. ~Excluded(Context, e.candidate.action) /\ e.candidate.action \in Scoreable
    BY <1>2, SelectedKinds DEF EligibleActions
  <2>2. e.candidate.action # "STOP"
    BY <2>1 DEF Scoreable, RetryActions, ContactActions
  <2>3. Fits(Context, e.candidate.action)
    BY <2>1, <2>2 DEF Excluded
  <2> QED BY <2>3, ContextFields DEF Fits
<1> QED BY <1>1, <1>2

\* What policy lets pass, the gate has let pass.
LEMMA NothingAtALoss ==
    ASSUME facts \in Facts, NEW e \in Evaluations, e.policy \in {"APPROVE", "ESCALATE"}
    PROVE  e.candidate.nerv >= 0
<1>1. DenyReasons(Context, e.candidate, e.gate, now) = {}
  BY SelectedKinds DEF PolicyDecision
<1>2. e.gate = "ALLOW"
  BY <1>1 DEF DenyReasons
<1>3. e.candidate.nerv \in Int /\ (e.candidate.action = "WAIT" => e.candidate.nerv = 0)
  BY SelectedKinds
<1>4. e.candidate.action = "WAIT" \/ ~(e.candidate.nerv < 0)
  BY <1>2, SelectedKinds DEF Gate
<1> QED BY <1>3, <1>4

\* The two places that know the merchant's rules agree for any facts, limits
\* and history: what eligibility lets pass and the optimizer selects, policy
\* denies for the reasons only policy knows, wants WAIT to be allowed only when
\* WAIT is what is selected, and meets quiet hours only where the merchant's
\* clock differs from the one eligibility reads (optimizer/optimizer.go against
\* policy/policy.go).
THEOREM SelectionDenials ==
    ASSUME facts \in Facts, NEW e \in Evaluations
    PROVE  /\ e.denials \subseteq {"ECONOMIC_GATE_BLOCKED", "KNOWN_PERMANENT_FAILURE", "RETRY_COOLDOWN",
                                   "MIN_CONTACT_INTERVAL", "QUIET_HOURS", "ACTION_NOT_ALLOWED"}
           /\ "ACTION_NOT_ALLOWED" \in e.denials => e.candidate.action = "WAIT"
           /\ "QUIET_HOURS" \in e.denials => merchant.offset # 0
<1> DEFINE a == e.candidate.action
           ctx == Context
<1>1. e.denials = DenyReasons(ctx, e.candidate, e.gate, now)
  BY SelectedKinds
<1>2. CASE a = "WAIT"
  BY <1>1, <1>2 DEF DenyReasons, RetryActions, ContactActions
<1>3. CASE a # "WAIT"
  <2>1. a \in Scoreable /\ ~Excluded(ctx, a)
    BY <1>3, SelectedKinds DEF EligibleActions
  <2>2. a \notin {"STOP", "ESCALATE_TO_HUMAN", "WAIT_FOR_PROMISE_TO_PAY"} /\ a \in RetryActions \cup ContactActions
    BY <2>1 DEF Scoreable, RetryActions, ContactActions
  <2>3. a \in ctx.merchant.actions /\ ~ctx.promised
    BY <1>3, <2>1, <2>2 DEF Excluded, Fits
  <2>4. ~RetryBarred(ctx, a) /\ ~ContactBarred(ctx, a)
    BY <2>1, <2>2 DEF Excluded
  <2>5. ctx.at = now /\ ctx.merchant = merchant
    BY ContextFields
  <2>6. a \in RetryActions => RetryDenials(ctx, now) \subseteq {"KNOWN_PERMANENT_FAILURE", "RETRY_COOLDOWN"}
    BY <2>4 DEF RetryBarred, RetryDenials
  <2>7. a \in ContactActions =>
          /\ ContactDenials(ctx, now) \subseteq {"MIN_CONTACT_INTERVAL", "QUIET_HOURS"}
          /\ "QUIET_HOURS" \in ContactDenials(ctx, now) => merchant.offset # 0
    <3>1. SUFFICES ASSUME a \in ContactActions
                   PROVE  /\ ContactDenials(ctx, now) \subseteq {"MIN_CONTACT_INTERVAL", "QUIET_HOURS"}
                          /\ "QUIET_HOURS" \in ContactDenials(ctx, now) => merchant.offset # 0
      OBVIOUS
    <3>2. /\ ~ctx.optedOut /\ ctx.merchant.channels # {} /\ ctx.available # {}
          /\ ~Quiet(ctx.merchant.quiet, 0, now)
          /\ ~(Cardinality(Within(ctx.recent, ContactActions, DayLength, now)) >= ctx.merchant.maxPerDay)
          /\ ~(Cardinality(Within(ctx.recent, ContactActions, WeekLength, now)) >= ctx.merchant.maxPerWeek)
      BY <2>4, <2>5, <3>1 DEF ContactBarred, Unreachable
    <3>3. ContactDenials(ctx, now) \subseteq {"MIN_CONTACT_INTERVAL", "QUIET_HOURS"}
      BY <3>2 DEF ContactDenials
    <3>4. "QUIET_HOURS" \in ContactDenials(ctx, now) => Quiet(ctx.merchant.quiet, ctx.merchant.offset, now)
      BY DEF ContactDenials
    <3> QED BY <3>2, <3>3, <3>4, <2>5
  <2> HIDE DEF a, ctx
  <2> QED BY <1>1, <2>3, <2>6, <2>7 DEF DenyReasons, a
<1> QED BY <1>2, <1>3

\* What policy does not look at, and eligibility does (optimizer's filter,
\* eligibility/eligibility.go against policy/policy.go): whether the leak has
\* such an action; whether a merchant who lists no action allows it; whether
\* an allowed channel is also an available one; and quiet hours read on the
\* UTC clock, where the merchant's clock says otherwise.
OnlyEligibilityKnows(ctx, action) ==
    \/ ~Compatible(ctx.leak, action)
    \/ ctx.merchant.actions = {}
    \/ /\ action \in ContactActions
       /\ \/ /\ ctx.merchant.channels # {} /\ ctx.available # {}
             /\ ctx.merchant.channels \cap ctx.available = {}
          \/ /\ Quiet(ctx.merchant.quiet, 0, ctx.at)
             /\ ~Quiet(ctx.merchant.quiet, ctx.merchant.offset, ctx.at)

\* Barred contacts are denied contacts, but for channels and the two clocks.
LEMMA BarredContactsDenied ==
    ASSUME NEW ctx, NEW action, ContactBarred(ctx, action), ~OnlyEligibilityKnows(ctx, action)
    PROVE  action \in ContactActions /\ ContactDenials(ctx, ctx.at) # {}
<1>1. action \in ContactActions
  BY DEF ContactBarred
<1>2. CASE Unreachable(ctx)
  <2>1. ctx.optedOut \/ ctx.merchant.channels = {} \/ ctx.available = {}
    BY <1>1, <1>2 DEF Unreachable, OnlyEligibilityKnows
  <2> QED BY <1>1, <2>1 DEF ContactDenials
<1>3. CASE Quiet(ctx.merchant.quiet, 0, ctx.at)
  <2>1. Quiet(ctx.merchant.quiet, ctx.merchant.offset, ctx.at)
    BY <1>1, <1>3 DEF OnlyEligibilityKnows
  <2>2. "QUIET_HOURS" \in ContactDenials(ctx, ctx.at)
    BY <2>1 DEF ContactDenials
  <2> QED BY <1>1, <2>2
<1>4. CASE Cardinality(Within(ctx.recent, ContactActions, DayLength, ctx.at)) >= ctx.merchant.maxPerDay
  <2>1. "MAX_CONTACTS_PER_DAY" \in ContactDenials(ctx, ctx.at)
    BY <1>4 DEF ContactDenials
  <2> QED BY <1>1, <2>1
<1>5. CASE Cardinality(Within(ctx.recent, ContactActions, WeekLength, ctx.at)) >= ctx.merchant.maxPerWeek
  <2>1. "MAX_CONTACTS_PER_WEEK" \in ContactDenials(ctx, ctx.at)
    BY <1>5 DEF ContactDenials
  <2> QED BY <1>1, <2>1
<1>6. CASE Cooling(ctx.recent, {action}, ctx.merchant.interval, ctx.at)
  <2>1. Cooling(ctx.recent, ContactActions, ctx.merchant.interval, ctx.at)
    BY <1>1, <1>6 DEF Cooling, Of
  <2>2. "MIN_CONTACT_INTERVAL" \in ContactDenials(ctx, ctx.at)
    BY <2>1 DEF ContactDenials
  <2> QED BY <1>1, <2>2
<1> QED BY <1>2, <1>3, <1>4, <1>5, <1>6 DEF ContactBarred

\* Barred retries are denied retries.
LEMMA BarredRetriesDenied ==
    ASSUME NEW ctx, NEW action, RetryBarred(ctx, action)
    PROVE  action \in RetryActions /\ RetryDenials(ctx, ctx.at) # {}
<1>1. action \in RetryActions
  BY DEF RetryBarred
<1>2. CASE Cardinality(Of(ctx.recent, RetryActions)) >= ctx.merchant.maxRetries
  <2>1. "MAX_RETRIES" \in RetryDenials(ctx, ctx.at)
    BY <1>2 DEF RetryDenials
  <2> QED BY <1>1, <2>1
<1>3. CASE ctx.mandate \in {"REVOKED", "FAILED"}
  <2>1. "MANDATE_INVALID" \in RetryDenials(ctx, ctx.at)
    BY <1>3 DEF RetryDenials
  <2> QED BY <1>1, <2>1
<1>4. CASE ctx.category = "PAYMENT_METHOD_INVALID"
  <2>1. "PAYMENT_METHOD_INVALID" \in RetryDenials(ctx, ctx.at)
    BY <1>4 DEF RetryDenials
  <2> QED BY <1>1, <2>1
<1>5. CASE Cooling(ctx.recent, {action}, ctx.merchant.interval, ctx.at)
  <2>1. Cooling(ctx.recent, RetryActions, ctx.merchant.interval, ctx.at)
    BY <1>1, <1>5 DEF Cooling, Of
  <2>2. "RETRY_COOLDOWN" \in RetryDenials(ctx, ctx.at)
    BY <2>1 DEF RetryDenials
  <2> QED BY <1>1, <2>2
<1> QED BY <1>2, <1>3, <1>4, <1>5 DEF RetryBarred

\* The agreement holds the other way round too: whatever candidate policy lets
\* pass, whoever proposes it and whatever the gate says, is eligible at that
\* instant, but for what policy does not look at.  A worker and a reviewer ask
\* policy only (policy.Evaluate; eligibility.Evaluate is the optimizer's).
THEOREM PolicyCoversEligibility ==
    ASSUME NEW ctx, NEW candidate, NEW gate, candidate.action \in Actions,
           PolicyDecision(ctx, candidate, gate, ctx.at) \in {"APPROVE", "ESCALATE"}
    PROVE  \/ candidate.action \in EligibleActions(ctx)
           \/ OnlyEligibilityKnows(ctx, candidate.action)
<1> DEFINE a == candidate.action
<1>1. StopReasons(ctx, ctx.at) = {} /\ DenyReasons(ctx, candidate, gate, ctx.at) = {}
  BY DEF PolicyDecision
<1>2. ~ctx.recovered /\ ~(ctx.deadline <= ctx.at)
  BY <1>1 DEF StopReasons
<1>3. /\ ~(ctx.merchant.actions # {} /\ a \notin ctx.merchant.actions)
      /\ ~(ctx.promised /\ a \in ContactActions \cup RetryActions)
      /\ a \in RetryActions => RetryDenials(ctx, ctx.at) = {}
      /\ a \in ContactActions => ContactDenials(ctx, ctx.at) = {}
  <2> HIDE DEF a
  <2>1. DenyReasons(ctx, candidate, gate, ctx.at) =
          (IF gate # "ALLOW" THEN {"ECONOMIC_GATE_BLOCKED"} ELSE {})
          \cup (IF ctx.merchant.actions # {} /\ a \notin ctx.merchant.actions
                THEN {"ACTION_NOT_ALLOWED"} ELSE {})
          \cup (IF ctx.promised /\ a \in ContactActions \cup RetryActions
                THEN {"ACTIVE_PROMISE_TO_PAY"} ELSE {})
          \cup (IF a \in RetryActions THEN RetryDenials(ctx, ctx.at) ELSE {})
          \cup (IF a \in ContactActions THEN ContactDenials(ctx, ctx.at) ELSE {})
    BY DEF DenyReasons, a
  <2> QED BY <1>1, <2>1
<1>4. SUFFICES ASSUME ~OnlyEligibilityKnows(ctx, a)
               PROVE  ~Excluded(ctx, a)
  BY DEF EligibleActions
<1>5. Fits(ctx, a)
  BY <1>3, <1>4 DEF Fits, OnlyEligibilityKnows
<1>6. ~ContactBarred(ctx, a)
  BY <1>3, <1>4, BarredContactsDenied
<1>7. ~RetryBarred(ctx, a)
  BY <1>3, BarredRetriesDenied
<1> HIDE DEF a
<1> QED BY <1>2, <1>3, <1>5, <1>6, <1>7 DEF Excluded

\* A finite set that a relation orders, any two members one way and
\* transitively, has a first member (by its cardinality).
LEMMA FiniteHasFirst ==
    ASSUME NEW S, IsFiniteSet(S), S # {}, NEW R,
           \A x, y \in S : x # y => <<x, y>> \in R \/ <<y, x>> \in R,
           \A x, y, z \in S : <<x, y>> \in R /\ <<y, z>> \in R => <<x, z>> \in R
    PROVE  \E x \in S : \A y \in S \ {x} : <<x, y>> \in R
<1> DEFINE First(X) == \E x \in X : \A y \in X \ {x} : <<x, y>> \in R
           Bad(n) == \E X \in SUBSET S : X # {} /\ IsFiniteSet(X) /\ Cardinality(X) = n /\ ~First(X)
<1>1. ASSUME NEW n \in Nat, Bad(n)
      PROVE  n - 1 \in Nat /\ Bad(n - 1)
  <2>1. PICK X \in SUBSET S : X # {} /\ IsFiniteSet(X) /\ Cardinality(X) = n /\ ~First(X)
    BY <1>1
  <2>2. PICK x \in X : TRUE
    BY <2>1
  <2> DEFINE Y == X \ {x}
  <2>3. IsFiniteSet(Y) /\ Cardinality(Y) = n - 1
    BY <2>1, <2>2, FS_RemoveElement
  <2>4. n - 1 \in Nat
    BY <2>3, FS_CardinalityType
  <2>5. Y # {}
    BY <2>1, <2>2
  <2>6. ~First(Y)
    <3>1. SUFFICES ASSUME NEW y \in Y, \A z \in Y \ {y} : <<y, z>> \in R
                   PROVE  FALSE
      OBVIOUS
    <3>2. x \in S /\ y \in S /\ x # y /\ \A z \in X : z \in S
      BY <2>1, <2>2
    <3>3. CASE <<y, x>> \in R
      <4>1. \A z \in X \ {y} : <<y, z>> \in R
        BY <3>1, <3>3
      <4> QED BY <4>1, <2>1, <3>1
    <3>4. CASE <<x, y>> \in R
      <4>1. \A z \in X \ {x} : z = y \/ <<y, z>> \in R
        BY <3>1
      <4>2. \A z \in X \ {x} : <<x, z>> \in R
        BY <4>1, <3>2, <3>4
      <4> QED BY <4>2, <2>1, <2>2
    <3> QED BY <3>2, <3>3, <3>4
  <2> QED BY <2>3, <2>4, <2>5, <2>6
<1> HIDE DEF Bad
<1> DEFINE T == {n \in Nat : Bad(n)}
<1>2. T = {}
  <2>1. SUFFICES ASSUME T # {} PROVE FALSE
    OBVIOUS
  <2>2. PICK n \in T : \A m \in T : n <= m
    BY <2>1, LeastElement
  <2> QED BY <2>2, <1>1
<1>3. Cardinality(S) \in Nat
  BY FS_CardinalityType
<1> QED BY <1>2, <1>3 DEF Bad

\* Ranked names are in the order of names, each at a place of its own.
LEMMA NameRanked ==
    ASSUME NEW a \in Scoreable \cup {"WAIT"}
    PROVE  NameRank(a) \in 1 .. 8 /\ NameOrder[NameRank(a)] = a
<1>1. DOMAIN NameOrder = 1 .. 8
  BY DEF NameOrder
<1>2. \E i \in 1 .. 8 : NameOrder[i] = a
  <2>1. /\ NameOrder[1] = "REQUEST_PAYMENT_METHOD_UPDATE" /\ NameOrder[2] = "RETRY_LATER"
        /\ NameOrder[3] = "RETRY_NOW" /\ NameOrder[4] = "SEND_CHECKOUT_RECOVERY_LINK"
        /\ NameOrder[5] = "SEND_PAYMENT_LINK" /\ NameOrder[6] = "SEND_REMINDER"
        /\ NameOrder[7] = "SUGGEST_ALTERNATE_METHOD" /\ NameOrder[8] = "WAIT"
    BY DEF NameOrder
  <2>2. a \in {"REQUEST_PAYMENT_METHOD_UPDATE", "RETRY_LATER", "RETRY_NOW", "SEND_CHECKOUT_RECOVERY_LINK",
               "SEND_PAYMENT_LINK", "SEND_REMINDER", "SUGGEST_ALTERNATE_METHOD", "WAIT"}
    BY DEF Scoreable, RetryActions, ContactActions
  <2> QED BY <2>1, <2>2
<1> QED BY <1>1, <1>2 DEF NameRank

\* A context whose amounts, rates and weights are integers.
TypedContext(ctx) ==
    /\ ctx.amount \in Int /\ ctx.natural \in Int /\ ctx.fatigue \in Int
    /\ ctx.merchant.weights \in [revenue : Int, retention : Int, contact : Int,
                                 cost : Int, fatigue : Int, risk : Int]

\* The objective of a merchant scores integers.
LEMMA ScoreType ==
    ASSUME NEW ctx, TypedContext(ctx), NEW gross \in Int, NEW nerv \in Int, NEW cost \in Int,
           NEW fatigue \in Int, NEW risk \in Int
    PROVE  Score(ctx, gross, nerv, cost, fatigue, risk) \in Int
<1> DEFINE w == ctx.merchant.weights
           base == 10000
<1>1. ctx.amount \in Int /\ base \in Nat \ {0} /\ gross - risk \in Int
  BY DEF TypedContext
<1>2. /\ w.revenue \in Int /\ w.retention \in Int /\ w.contact \in Int
      /\ w.cost \in Int /\ w.fatigue \in Int /\ w.risk \in Int
  BY DEF TypedContext
<1> DEFINE contact == IF fatigue > 0 THEN MulDiv(ctx.amount, w.contact, base) ELSE 0
           profile == MulDiv(gross, w.revenue, base) + MulDiv(gross - risk, w.retention, base) - contact
                      - MulDiv(cost, w.cost, base) - MulDiv(fatigue, w.fatigue, base)
                      - MulDiv(risk, w.risk, base)
<1>3. profile \in Int
  <2> HIDE DEF w, base
  <2>1. MulDiv(gross, w.revenue, base) \in Int
    BY <1>1, <1>2, MulDivType
  <2>2. MulDiv(gross - risk, w.retention, base) \in Int
    BY <1>1, <1>2, MulDivType
  <2>3. MulDiv(ctx.amount, w.contact, base) \in Int
    BY <1>1, <1>2, MulDivType
  <2>4. MulDiv(cost, w.cost, base) \in Int
    BY <1>1, <1>2, MulDivType
  <2>5. MulDiv(fatigue, w.fatigue, base) \in Int
    BY <1>1, <1>2, MulDivType
  <2>6. MulDiv(risk, w.risk, base) \in Int
    BY <1>1, <1>2, MulDivType
  <2>7. contact \in Int
    BY <2>3
  <2> HIDE DEF contact
  <2> QED BY <2>1, <2>2, <2>4, <2>5, <2>6, <2>7
<1>4. /\ nerv - fatigue * 2 \in Int /\ nerv - cost \in Int /\ nerv - risk \in Int
      /\ nerv - (fatigue + risk) \div 2 \in Int
  OBVIOUS
<1>5. Score(ctx, gross, nerv, cost, fatigue, risk)
        \in {profile, nerv - fatigue * 2, nerv - cost, nerv - risk, nerv - (fatigue + risk) \div 2, nerv}
  BY DEF Score
<1> HIDE DEF profile
<1> QED BY <1>3, <1>4, <1>5

\* A candidate's numbers are integers and its action is the one it stands for.
LEMMA CandidateType ==
    ASSUME NEW ctx, TypedContext(ctx), NEW a, NEW p \in Int
    PROVE  /\ Candidate(ctx, a, p).action = a
           /\ Candidate(ctx, a, p).nerv \in Int /\ Candidate(ctx, a, p).score \in Int
<1> DEFINE gross   == MulDiv(ctx.amount, p - ctx.natural, Scale)
           cost    == ChannelCost(a) + OperationalCost(a)
           fatigue == FatiguePenalty(ctx, a)
           risk    == RiskPenalty(ctx, a)
           nerv    == gross - cost - fatigue - risk
<1>1. ctx.amount \in Int /\ ctx.natural \in Int /\ ctx.fatigue \in Int
  BY DEF TypedContext
<1>2. gross \in Int
  <2>1. p - ctx.natural \in Int /\ Scale \in Nat \ {0}
    BY <1>1, ClockAssumption
  <2> QED BY <1>1, <2>1, MulDivType
<1>3. cost \in Int
  BY DEF ChannelCost, OperationalCost
<1>4. fatigue \in Int /\ risk \in Int
  BY <1>1, PenaltyTypes
<1>5. Candidate(ctx, a, p).action = a /\ Candidate(ctx, a, p).nerv = nerv
      /\ Candidate(ctx, a, p).score = Score(ctx, gross, nerv, cost, fatigue, risk)
  BY DEF Candidate
<1> HIDE DEF gross, cost, fatigue, risk
<1>6. nerv \in Int
  BY <1>2, <1>3, <1>4
<1> HIDE DEF nerv
<1>7. Score(ctx, gross, nerv, cost, fatigue, risk) \in Int
  BY <1>2, <1>3, <1>4, <1>6, ScoreType
<1> QED BY <1>5, <1>6, <1>7

\* The ranking always selects one candidate, and never two: its order is
\* total because two candidates with one score and one value differ in their
\* names (Rank sorts by score, value and name and takes the first).
THEOREM OneSelected ==
    ASSUME NEW ctx, TypedContext(ctx), NEW predicted, DOMAIN predicted \subseteq Scoreable,
           \A a \in DOMAIN predicted : predicted[a] \in Int
    PROVE  \E c \in Ranked(ctx, predicted) : Selected(ctx, predicted) = {c}
<1> DEFINE S == Ranked(ctx, predicted)
           R == {p \in S \X S : Before(p[1], p[2])}
           Names == DOMAIN predicted \cup {"WAIT"}
           f == [a \in Names |-> Candidate(ctx, a, IF a = "WAIT" THEN ctx.natural ELSE predicted[a])]
<1>1. "WAIT" \notin Scoreable /\ IsFiniteSet(Names)
  <2> DEFINE last == 8
             Places == 1 .. last
             g == [i \in Places |-> NameOrder[i]]
             Image == {g[i] : i \in Places}
  <2>1. IsFiniteSet(Places)
    <3>1. 1 \in Int /\ last \in Int
      OBVIOUS
    <3> HIDE DEF last
    <3> QED BY <3>1, FS_Interval
  <2> HIDE DEF Places
  <2>2. g \in Surjection(Places, Image)
    BY DEF Surjection
  <2>3. IsFiniteSet(Image)
    BY <2>1, <2>2, FS_Surjection
  <2>4. ASSUME NEW a \in Names PROVE a \in Image
    <3>1. a \in Scoreable \cup {"WAIT"}
      OBVIOUS
    <3>2. NameRank(a) \in Places /\ NameOrder[NameRank(a)] = a
      BY <3>1, NameRanked DEF Places
    <3> QED BY <3>2
  <2> HIDE DEF Image, Names
  <2>5. IsFiniteSet(Names)
    BY <2>3, <2>4, FS_Subset
  <2> QED BY <2>5 DEF Scoreable, RetryActions, ContactActions
<1>2. ASSUME NEW a \in Names
      PROVE  f[a].action = a /\ f[a].nerv \in Int /\ f[a].score \in Int
  <2> DEFINE q == IF a = "WAIT" THEN ctx.natural ELSE predicted[a]
  <2>1. q \in Int
    BY DEF TypedContext
  <2>2. f[a] = Candidate(ctx, a, q)
    OBVIOUS
  <2> HIDE DEF q, f
  <2> QED BY <2>1, <2>2, CandidateType
<1>3. S = {f[a] : a \in Names}
  <2>1. "WAIT" \notin DOMAIN predicted
    BY <1>1
  <2>2. f["WAIT"] = Candidate(ctx, "WAIT", ctx.natural)
    OBVIOUS
  <2>3. \A a \in DOMAIN predicted \ {"WAIT"} : f[a] = Candidate(ctx, a, predicted[a])
    BY <2>1
  <2>4. S = {Candidate(ctx, a, predicted[a]) : a \in DOMAIN predicted \ {"WAIT"}}
               \cup {Candidate(ctx, "WAIT", ctx.natural)}
    BY DEF Ranked
  <2> HIDE DEF f, S
  <2>5. ASSUME NEW c \in S PROVE \E a \in Names : c = f[a]
    BY <2>2, <2>3, <2>4
  <2>6. ASSUME NEW a \in Names PROVE f[a] \in S
    BY <2>1, <2>2, <2>3, <2>4
  <2> QED BY <2>5, <2>6
<1>4. IsFiniteSet(S) /\ S # {}
  <2>1. f \in Surjection(Names, S)
    BY <1>3 DEF Surjection
  <2>2. IsFiniteSet(S)
    BY <1>1, <2>1, FS_Surjection
  <2> HIDE DEF f, S
  <2>3. f["WAIT"] \in S
    BY <1>3
  <2> QED BY <2>2, <2>3
<1> HIDE DEF f
<1>5. \A c \in S : c.nerv \in Int /\ c.score \in Int /\ NameRank(c.action) \in 1 .. 8
  <2>1. SUFFICES ASSUME NEW a \in Names
                 PROVE  f[a].nerv \in Int /\ f[a].score \in Int /\ NameRank(f[a].action) \in 1 .. 8
    BY <1>3
  <2>2. a \in Scoreable \cup {"WAIT"}
    OBVIOUS
  <2> QED BY <1>2, <2>2, NameRanked
<1>6. \A c, d \in S : NameRank(c.action) = NameRank(d.action) => c = d
  <2>1. SUFFICES ASSUME NEW a \in Names, NEW b \in Names, NameRank(f[a].action) = NameRank(f[b].action)
                 PROVE  f[a] = f[b]
    BY <1>3
  <2>2. NameRank(a) = NameRank(b)
    BY <1>2, <2>1
  <2>3. NameOrder[NameRank(a)] = a /\ NameOrder[NameRank(b)] = b
    BY NameRanked
  <2> QED BY <2>2, <2>3
<1> HIDE DEF S
<1>7. \A c, d \in S : c # d => Before(c, d) \/ Before(d, c)
  BY <1>5, <1>6 DEF Before
<1>8. \A c, d \in S : ~(Before(c, d) /\ Before(d, c))
  BY <1>5 DEF Before
<1>9. \A c, d, e \in S : Before(c, d) /\ Before(d, e) => Before(c, e)
  BY <1>5 DEF Before
<1>10. \A c, d \in S : <<c, d>> \in R <=> Before(c, d)
  OBVIOUS
<1> HIDE DEF R
<1>11. PICK c \in S : \A d \in S \ {c} : <<c, d>> \in R
  <2>1. \A x, y \in S : x # y => <<x, y>> \in R \/ <<y, x>> \in R
    BY <1>7, <1>10
  <2>2. \A x, y, z \in S : <<x, y>> \in R /\ <<y, z>> \in R => <<x, z>> \in R
    BY <1>9, <1>10
  <2> QED BY <1>4, <2>1, <2>2, FiniteHasFirst
<1>12. Selected(ctx, predicted) = {d \in S : \A e \in S \ {d} : Before(d, e)}
  BY DEF Selected, S
<1>13. \A d \in S : (\A e \in S \ {d} : Before(d, e)) <=> d = c
  BY <1>8, <1>10, <1>11
<1>14. Selected(ctx, predicted) = {c}
  BY <1>12, <1>13
<1> QED BY <1>14 DEF S

\* So a decision always comes to a result, whatever the predictors answer.
LEMMA EvaluationExists ==
    ASSUME facts \in Facts, TypedContext(Context), Levels # {}
    PROVE  Evaluations # {}
<1> DEFINE ctx == Context
           Eligible == EligibleActions(ctx) \cap Scoreable
<1>1. PICK level \in Levels : TRUE
  OBVIOUS
<1> DEFINE predicted == [a \in Eligible |-> level]
<1>2. predicted \in [Eligible -> Levels]
  OBVIOUS
<1>3. DOMAIN predicted \subseteq Scoreable /\ \A a \in DOMAIN predicted : predicted[a] \in Int
  BY <1>1, FactsAssumption
<1>4. TypedContext(ctx)
  OBVIOUS
<1> HIDE DEF predicted, ctx
<1>5. \E c : c \in Selected(ctx, predicted)
  BY <1>3, <1>4, OneSelected
<1>6. PICK c : c \in Selected(ctx, predicted)
  BY <1>5
<1>7. c \in UNION {Selected(ctx, p) : p \in [Eligible -> Levels]}
  BY <1>2, <1>6
<1> QED BY <1>7 DEF Evaluations, ctx

-----------------------------------------------------------------------------
(* Types.                                                                   *)

Written(i) == rows[i].status # "NONE"

\* The worker is idle, or at a row that is in its hands.
WorkTyped ==
    \/ work = NoWork
    \/ /\ work \in [row : Rows, label : {"authorized", "answered"},
                    result : {"NONE", "SUCCEEDED", "RETRYABLE", "PERMANENT"}]
       /\ rows[work.row].status = IF work.label = "authorized" THEN "CLAIMED" ELSE "EXECUTING"

\* A decision under review has a candidate that fits the case, at no loss.
PendingTyped ==
    /\ pending \in [action : Actions \cup {"NONE"}, nerv : Nat]
    /\ Compatible(facts.leak, pending.action)
    /\ caseState = "ESCALATED" => pending.action \in Actions

RowsTyped ==
    \A i \in Rows :
       /\ ~Written(i) => rows[i] = NoRow
       /\ Written(i) => /\ rows[i].type \in Actions /\ rows[i].at \in Times /\ rows[i].due \in Nat
                        /\ rows[i].nerv >= 0
       /\ rows[i].saved => rows[i].type = "SEND_PAYMENT_LINK"

Typed == TypeOK /\ WorkTyped /\ PendingTyped /\ RowsTyped

NewRow(candidate, human) ==
    [NoRow EXCEPT !.type = candidate.action, !.at = now, !.status = "PENDING",
                  !.due = IF candidate.action = "RETRY_LATER" THEN now + DayLength ELSE now,
                  !.recorded = "SCHEDULED", !.human = human, !.nerv = candidate.nerv]

\* A new case has no row and nothing pending.
LEMMA TypedInit == Init => Typed
<1>1. SUFFICES ASSUME Init PROVE Typed
  OBVIOUS
<1>2. \A i \in Rows : rows[i] = NoRow /\ rows[i].status = "NONE" /\ rows[i].saved = FALSE
  BY <1>1 DEF Init, NoRow
<1>3. NoRow \in RowType
  BY DEF NoRow, RowType
<1>4. Compatible(facts.leak, "NONE")
  BY DEF Compatible, SubscriptionOnly, RetryActions
<1>5. TypeOK
  BY <1>1, <1>2, <1>3, LimitsAssumption DEF Init, TypeOK, Times, NoWork, Terminal
<1> QED BY <1>1, <1>2, <1>4, <1>5 DEF Init, Typed, WorkTyped, PendingTyped, RowsTyped, NoCandidate, Written, NoRow

\* Schedule writes a typed row of the case's type of leak.
LEMMA ScheduleTyped ==
    ASSUME Typed, NEW c, NEW h \in BOOLEAN, Schedule(c, h), work' = work, facts' = facts,
           c.action \in Actions, c.nerv \in Nat, Compatible(facts.leak, c.action), now' = now
    PROVE  /\ rows' \in [Rows -> RowType] /\ RowsTyped' /\ WorkTyped'
           /\ work.row = work'.row
           /\ work' # NoWork => rows'[work'.row].status \in {"CLAIMED", "EXECUTING"}
           /\ \A i \in Rows : rows'[i].status # "NONE" => Compatible(facts.leak, rows'[i].type)
<1>1. PICK i \in Rows : Free(i) /\ rows' = [rows EXCEPT ![i] = NewRow(c, h)]
  BY DEF Schedule, NewRow
<1>2. now \in Times /\ now \in Nat /\ now + DayLength \in Nat
  BY ClockAssumption, LimitsAssumption DEF Typed, TypeOK, Times
<1>3. NewRow(c, h) \in RowType
  <2>1. NoRow \in RowType
    BY DEF NoRow, RowType
  <2>2. c.nerv \in Int
    OBVIOUS
  <2>3. ASSUME NEW q \in RowType, NEW type \in Actions, NEW nerv \in Int, NEW due \in Nat
        PROVE  [q EXCEPT !.type = type, !.at = now, !.status = "PENDING", !.due = due,
                         !.recorded = "SCHEDULED", !.human = h, !.nerv = nerv] \in RowType
    BY <1>2, <2>3 DEF RowType
  <2>4. (IF c.action = "RETRY_LATER" THEN now + DayLength ELSE now) \in Nat
    BY <1>2
  <2> QED BY <2>1, <2>2, <2>3, <2>4 DEF NewRow
<1>4. /\ NewRow(c, h).status = "PENDING" /\ NewRow(c, h).type = c.action /\ NewRow(c, h).at = now
      /\ NewRow(c, h).due \in Nat /\ NewRow(c, h).nerv = c.nerv /\ ~NewRow(c, h).saved
  BY <1>2 DEF NewRow, NoRow
<1>5. rows' \in [Rows -> RowType]
  BY <1>1, <1>3 DEF Typed, TypeOK
<1>6. RowsTyped'
  BY <1>1, <1>2, <1>4 DEF Typed, TypeOK, RowsTyped, Written
<1>7. rows[i].status = "NONE"
  BY <1>1 DEF Free
<1>8. WorkTyped'
  BY <1>1, <1>7 DEF Typed, TypeOK, WorkTyped
<1>9. work' # NoWork => rows'[work'.row].status \in {"CLAIMED", "EXECUTING"}
  BY <1>1, <1>7 DEF Typed, TypeOK, WorkTyped
<1>10. \A j \in Rows : rows'[j].status # "NONE" => Compatible(facts.leak, rows'[j].type)
  BY <1>1, <1>4 DEF Typed, TypeOK
<1> QED BY <1>5, <1>6, <1>8, <1>9, <1>10

\* A row that is written again keeps what its decision made of it.
LEMMA UpdateTyped ==
    ASSUME Typed, NEW i \in Rows, Written(i), NEW r \in RowType, rows' = [rows EXCEPT ![i] = r],
           r.type = rows[i].type, r.at = rows[i].at, r.nerv = rows[i].nerv, r.due \in Nat,
           r.status # "NONE", r.saved => r.type = "SEND_PAYMENT_LINK"
    PROVE  /\ rows' \in [Rows -> RowType] /\ RowsTyped'
           /\ \A j \in Rows : rows'[j].status # "NONE" => Compatible(facts.leak, rows'[j].type)
<1> USE DEF Typed, TypeOK
<1>1. rows' \in [Rows -> RowType]
  OBVIOUS
<1>2. \A j \in Rows : rows'[j].status # "NONE" => Compatible(facts.leak, rows'[j].type)
  BY DEF Written
<1>3. RowsTyped'
  BY DEF RowsTyped, Written
<1> QED BY <1>1, <1>2, <1>3

\* A decision that is scheduled or put under review is compatible and has value.
LEMMA DecideTyped ==
    ASSUME Typed, Decide
    PROVE  Typed'
<1> USE DEF Typed
<1>1. UNCHANGED <<now, facts, merchantVars, customerVars, work>>
  BY DEF Decide
<1>2. PICK e \in Evaluations :
         \/ /\ e.policy = "STOP" /\ caseState' = "STOPPED"
            /\ UNCHANGED <<pending, rows>>
         \/ /\ e.policy = "ESCALATE" /\ caseState' = "ESCALATED"
            /\ pending' = [action |-> e.candidate.action, nerv |-> e.candidate.nerv]
            /\ UNCHANGED rows
         \/ /\ e.policy = "APPROVE" /\ e.candidate.action # "WAIT"
            /\ caseState' = "SCHEDULED"
            /\ Schedule(e.candidate, FALSE) /\ UNCHANGED pending
  BY DEF Decide
<1>3. /\ facts \in Facts /\ e.candidate.action \in Actions /\ Compatible(facts.leak, e.candidate.action)
      /\ e.policy \in {"APPROVE", "ESCALATE"} => e.candidate.nerv \in Nat
  BY SelectedKinds, CompatibleKinds, NothingAtALoss DEF TypeOK, Scoreable, Actions
<1>4. CASE e.policy = "STOP"
  BY <1>1, <1>2, <1>4 DEF TypeOK, WorkTyped, PendingTyped, RowsTyped, Written, Terminal,
                          merchantVars, customerVars
<1>5. CASE e.policy = "ESCALATE"
  BY <1>1, <1>2, <1>3, <1>5 DEF TypeOK, WorkTyped, PendingTyped, RowsTyped, Written,
                                merchantVars, customerVars
<1>6. CASE e.policy = "APPROVE"
  <2>1. Schedule(e.candidate, FALSE) /\ caseState' = "SCHEDULED" /\ pending' = pending
    BY <1>2, <1>6
  <2>2. /\ rows' \in [Rows -> RowType] /\ RowsTyped' /\ WorkTyped'
        /\ work' # NoWork => rows'[work'.row].status \in {"CLAIMED", "EXECUTING"}
        /\ \A i \in Rows : rows'[i].status # "NONE" => Compatible(facts.leak, rows'[i].type)
    BY <1>1, <1>3, <1>6, <2>1, ScheduleTyped
  <2> QED BY <1>1, <2>1, <2>2 DEF TypeOK, PendingTyped, merchantVars, customerVars
<1> QED BY <1>2, <1>4, <1>5, <1>6

\* An approval schedules what the review was about.
LEMMA ApproveReviewTyped ==
    ASSUME Typed, ApproveReview
    PROVE  Typed'
<1> USE DEF Typed
<1>1. /\ UNCHANGED <<now, facts, merchantVars, customerVars, work>>
      /\ caseState' = "SCHEDULED" /\ pending' = NoCandidate
      /\ Schedule(pending, TRUE) /\ pending.action \in Actions
  BY DEF ApproveReview, PendingTyped
<1>2. /\ rows' \in [Rows -> RowType] /\ RowsTyped' /\ WorkTyped'
      /\ work' # NoWork => rows'[work'.row].status \in {"CLAIMED", "EXECUTING"}
      /\ \A i \in Rows : rows'[i].status # "NONE" => Compatible(facts.leak, rows'[i].type)
  BY <1>1, ScheduleTyped DEF PendingTyped
<1>3. Compatible(facts.leak, "NONE")
  BY DEF Compatible, SubscriptionOnly, RetryActions
<1> QED BY <1>1, <1>2, <1>3 DEF TypeOK, PendingTyped, NoCandidate, merchantVars, customerVars

\* A claim puts one due row in the hands of the worker.
LEMMA ClaimTyped ==
    ASSUME Typed, Claim
    PROVE  Typed'
<1> USE DEF Typed
<1>1. /\ UNCHANGED <<now, caseState, facts, merchantVars, customerVars, pending>>
      /\ work = NoWork
  BY DEF Claim
<1>2. PICK i \in Rows :
         /\ Live(i)
         /\ \/ /\ work' = [NoWork EXCEPT !.row = i, !.label = "authorized"]
               /\ rows' = [rows EXCEPT ![i].status = "CLAIMED", ![i].attempt = @ + 1]
            \/ /\ work' = NoWork
               /\ rows' = [rows EXCEPT ![i].status = "SUPERSEDED", ![i].attempt = @ + 1]
  BY DEF Claim
<1>3. PICK status \in {"CLAIMED", "SUPERSEDED"} :
         /\ rows' = [rows EXCEPT ![i] = [rows[i] EXCEPT !.status = status, !.attempt = rows[i].attempt + 1]]
         /\ work' = IF status = "CLAIMED" THEN [NoWork EXCEPT !.row = i, !.label = "authorized"] ELSE NoWork
  BY <1>2
<1> DEFINE r == [rows[i] EXCEPT !.status = status, !.attempt = rows[i].attempt + 1]
<1>4. /\ r \in RowType /\ Written(i) /\ r.status = status /\ r.type = rows[i].type /\ r.at = rows[i].at
      /\ r.nerv = rows[i].nerv /\ r.due = rows[i].due /\ r.saved = rows[i].saved
  BY <1>2 DEF TypeOK, RowType, Live, Written
<1> HIDE DEF r
<1>5. /\ rows' \in [Rows -> RowType] /\ RowsTyped'
      /\ \A j \in Rows : rows'[j].status # "NONE" => Compatible(facts.leak, rows'[j].type)
  BY <1>3, <1>4, UpdateTyped DEF RowsTyped, r
<1>6. WorkTyped' /\ (work' # NoWork => rows'[work'.row].status \in {"CLAIMED", "EXECUTING"})
      /\ work'.row \in Rows \cup {0}
  BY <1>3, <1>4 DEF WorkTyped, NoWork, TypeOK, r
<1> QED BY <1>1, <1>5, <1>6 DEF TypeOK, PendingTyped, merchantVars, customerVars

\* What the executors may answer and leave in the row.
Leaves(i, result, sent, saved, links) ==
    /\ work' = [work EXCEPT !.label = "answered", !.result = result]
    /\ rows' = [rows EXCEPT ![i] = [rows[i] EXCEPT
          !.status = "EXECUTING", !.links = links, !.saved = saved,
          !.sentAt = IF sent /\ rows[i].sentAt = NoTime THEN now ELSE rows[i].sentAt]]

\* Whatever the executor of an action does, it leaves its row EXECUTING, with
\* a link stored only for a payment link and with the one it found stored.
LEMMA ExecuteEffect ==
    ASSUME Typed, Execute
    PROVE  /\ work.label = "authorized" /\ work.row \in Rows /\ rows[work.row].status = "CLAIMED"
           /\ \E result \in {"SUCCEEDED", "RETRYABLE", "PERMANENT"}, sent, saved \in BOOLEAN, links \in Nat :
                /\ Leaves(work.row, result, sent, saved, links)
                /\ saved => rows[work.row].type = "SEND_PAYMENT_LINK"
                /\ rows[work.row].saved => saved /\ links = rows[work.row].links
<1> USE DEF Typed
<1> DEFINE i == work.row
<1>1. work.label = "authorized" /\ i \in Rows /\ rows[i].status = "CLAIMED"
  BY DEF Execute, WorkTyped, NoWork
<1>2. ASSUME NEW result \in {"SUCCEEDED", "RETRYABLE", "PERMANENT"}, NEW sent \in BOOLEAN,
             NEW saved \in BOOLEAN, NEW links \in Nat, Answer(i, result, sent, links, saved)
      PROVE  Leaves(i, result, sent, saved, links)
  <2>1. rows \in [Rows -> RowType]
    BY DEF TypeOK
  <2> QED BY <1>1, <1>2, <2>1 DEF Answer, Leaves
<1>3. rows[i].links \in Nat /\ rows[i].links + 1 \in Nat /\ rows[i].saved \in BOOLEAN
  BY <1>1 DEF TypeOK, RowType
<1>4. CASE rows[i].type = "SEND_PAYMENT_LINK"
  <2>1. PaymentLink(i)
    BY <1>4 DEF Execute
  <2>2. CASE rows[i].saved
    <3>1. PICK result \in {"SUCCEEDED", "RETRYABLE"} : Answer(i, result, TRUE, rows[i].links, TRUE)
      BY <2>1, <2>2 DEF PaymentLink, ReusedLink
    <3>2. Leaves(i, result, TRUE, TRUE, rows[i].links)
      BY <1>2, <1>3, <3>1
    <3>3. \E res \in {"SUCCEEDED", "RETRYABLE", "PERMANENT"}, sent, saved \in BOOLEAN, links \in Nat :
             /\ Leaves(i, res, sent, saved, links)
             /\ saved => rows[i].type = "SEND_PAYMENT_LINK"
             /\ rows[i].saved => saved /\ links = rows[i].links
      BY <1>3, <1>4, <3>2
    <3> QED BY <1>1, <3>3
  <2>3. CASE ~rows[i].saved
    <3>1. \/ Answer(i, "SUCCEEDED", TRUE, rows[i].links + 1, TRUE)
          \/ Answer(i, "RETRYABLE", TRUE, rows[i].links + 1, rows[i].saved)
          \/ Answer(i, "RETRYABLE", FALSE, rows[i].links, rows[i].saved)
          \/ Answer(i, "PERMANENT", FALSE, rows[i].links, rows[i].saved)
      BY <2>1, <2>3 DEF PaymentLink, ReusedLink
    <3>2. \/ Leaves(i, "SUCCEEDED", TRUE, TRUE, rows[i].links + 1)
          \/ Leaves(i, "RETRYABLE", TRUE, rows[i].saved, rows[i].links + 1)
          \/ Leaves(i, "RETRYABLE", FALSE, rows[i].saved, rows[i].links)
          \/ Leaves(i, "PERMANENT", FALSE, rows[i].saved, rows[i].links)
      BY <1>2, <1>3, <3>1
    <3>3. \E res \in {"SUCCEEDED", "RETRYABLE", "PERMANENT"}, sent, saved \in BOOLEAN, links \in Nat :
             /\ Leaves(i, res, sent, saved, links)
             /\ saved => rows[i].type = "SEND_PAYMENT_LINK"
             /\ rows[i].saved => saved /\ links = rows[i].links
      BY <1>3, <1>4, <2>3, <3>2
    <3> QED BY <1>1, <3>3
  <2> QED BY <2>2, <2>3, <1>3
<1>5. CASE rows[i].type # "SEND_PAYMENT_LINK"
  <2>1. Unsupported(i) \/ Capture(i)
    BY <1>5 DEF Execute
  <2>2. ~rows[i].saved
    BY <1>1, <1>5 DEF RowsTyped
  <2>3. \E res \in {"SUCCEEDED", "RETRYABLE", "PERMANENT"}, sent \in BOOLEAN :
           Answer(i, res, sent, 0, FALSE)
    BY <2>1 DEF Unsupported, Capture
  <2>4. \E res \in {"SUCCEEDED", "RETRYABLE", "PERMANENT"}, sent \in BOOLEAN :
           Leaves(i, res, sent, FALSE, 0)
    BY <1>2, <2>3
  <2>5. \E res \in {"SUCCEEDED", "RETRYABLE", "PERMANENT"}, sent, saved \in BOOLEAN, links \in Nat :
           /\ Leaves(i, res, sent, saved, links)
           /\ saved => rows[i].type = "SEND_PAYMENT_LINK"
           /\ rows[i].saved => saved /\ links = rows[i].links
    BY <2>2, <2>4
  <2> QED BY <1>1, <2>5
<1> QED BY <1>4, <1>5

\* An attempt leaves its row with an answer to complete.
LEMMA ExecuteTyped ==
    ASSUME Typed, Execute
    PROVE  Typed'
<1> USE DEF Typed
<1>1. /\ UNCHANGED <<now, facts, merchantVars, customerVars, pending>>
      /\ caseState' = IF caseState = "SCHEDULED" THEN "EXECUTING" ELSE caseState
  BY DEF Execute
<1> DEFINE i == work.row
<1>2. work.label = "authorized" /\ i \in Rows /\ rows[i].status = "CLAIMED"
  BY ExecuteEffect
<1>3. PICK result \in {"SUCCEEDED", "RETRYABLE", "PERMANENT"}, sent \in BOOLEAN, saved \in BOOLEAN, links \in Nat :
         /\ Leaves(i, result, sent, saved, links)
         /\ saved => rows[i].type = "SEND_PAYMENT_LINK"
  BY ExecuteEffect
<1> DEFINE time == IF sent /\ rows[i].sentAt = NoTime THEN now ELSE rows[i].sentAt
           r == [rows[i] EXCEPT !.status = "EXECUTING", !.links = links, !.saved = saved, !.sentAt = time]
<1>4. time \in Times \cup {NoTime} /\ rows[i] \in RowType
  BY <1>2 DEF TypeOK, RowType
<1> HIDE DEF time
<1>5. /\ r \in RowType /\ Written(i) /\ r.status = "EXECUTING" /\ r.type = rows[i].type
      /\ r.at = rows[i].at /\ r.nerv = rows[i].nerv /\ r.due = rows[i].due /\ r.saved = saved
  BY <1>2, <1>4 DEF RowType, Written
<1>6. rows' = [rows EXCEPT ![i] = r]
  BY <1>3 DEF time, Leaves
<1> HIDE DEF r
<1>7. /\ rows' \in [Rows -> RowType] /\ RowsTyped'
      /\ \A j \in Rows : rows'[j].status # "NONE" => Compatible(facts.leak, rows'[j].type)
  <2>1. r.due \in Nat
    BY <1>2, <1>5 DEF RowsTyped
  <2>2. r.saved => r.type = "SEND_PAYMENT_LINK"
    BY <1>3, <1>5
  <2> HIDE DEF i
  <2> QED BY <1>2, <1>5, <1>6, <2>1, <2>2, UpdateTyped
<1>8. work \in [row : Rows, label : {"authorized", "answered"},
                result : {"NONE", "SUCCEEDED", "RETRYABLE", "PERMANENT"}]
  BY <1>2 DEF WorkTyped, NoWork
<1>9. WorkTyped' /\ (work' # NoWork => rows'[work'.row].status \in {"CLAIMED", "EXECUTING"})
      /\ work'.row \in Rows \cup {0}
  <2>1. /\ work' \in [row : Rows, label : {"authorized", "answered"},
                      result : {"NONE", "SUCCEEDED", "RETRYABLE", "PERMANENT"}]
        /\ work'.label = "answered" /\ work'.row = i
    BY <1>3, <1>8 DEF Leaves
  <2>2. rows'[i].status = "EXECUTING"
    BY <1>2, <1>5, <1>6 DEF TypeOK
  <2> HIDE DEF i
  <2> QED BY <2>1, <2>2 DEF WorkTyped
<1> QED BY <1>1, <1>7, <1>9 DEF TypeOK, PendingTyped, merchantVars, customerVars

\* What a completed execution makes of its row.
Completes(i, status, recorded, due) ==
    rows' = [rows EXCEPT ![i] = [rows[i] EXCEPT !.status = status, !.recorded = recorded, !.due = due]]

\* What the completion of an attempt may make of its row and of the case.
LEMMA CompleteEffect ==
    ASSUME Typed, Complete
    PROVE  /\ work.row \in Rows /\ rows[work.row].status = "EXECUTING" /\ work' = NoWork
           /\ \/ /\ Completes(work.row, "RETRY_PENDING", rows[work.row].recorded, rows[work.row].due)
                 /\ caseState' = caseState
              \/ /\ Completes(work.row, "OBSERVATION_PENDING", "EXECUTED", now + DayLength)
                 /\ caseState' = IF caseState = "EXECUTING" THEN "WAITING_OUTCOME" ELSE caseState
              \/ /\ Completes(work.row, "FAILED", "FAILED", rows[work.row].due)
                 /\ caseState' = IF caseState = "EXECUTING" THEN "ACTION_PENDING" ELSE caseState
<1> USE DEF Typed
<1>1. work.row \in Rows /\ rows[work.row].status = "EXECUTING" /\ work' = NoWork
  BY DEF Complete, WorkTyped, NoWork
<1>2. rows \in [Rows -> RowType]
  BY DEF TypeOK
<1> DEFINE i == work.row
           again == work.result = "RETRYABLE" /\ rows[i].attempt < MaxAttempts
           done == work.result = "SUCCEEDED"
<1>3. /\ rows' = [rows EXCEPT
            ![i].status = IF again THEN "RETRY_PENDING" ELSE IF done THEN "OBSERVATION_PENDING" ELSE "FAILED",
            ![i].recorded = IF again THEN @ ELSE IF done THEN "EXECUTED" ELSE "FAILED",
            ![i].due = IF done THEN now + DayLength ELSE @]
      /\ caseState' = IF again \/ caseState # "EXECUTING" THEN caseState
                      ELSE IF done THEN "WAITING_OUTCOME" ELSE "ACTION_PENDING"
  BY DEF Complete
<1>4. again => ~done
  OBVIOUS
<1> HIDE DEF again, done, i
<1>5. i = work.row
  BY DEF i
<1>6. i \in Rows
  BY <1>1, <1>5
<1>7. CASE again
  BY <1>1, <1>2, <1>3, <1>4, <1>5, <1>6, <1>7 DEF Completes
<1>8. CASE ~again /\ done
  BY <1>1, <1>2, <1>3, <1>5, <1>6, <1>8 DEF Completes
<1>9. CASE ~again /\ ~done
  BY <1>1, <1>2, <1>3, <1>5, <1>6, <1>9 DEF Completes
<1> QED BY <1>7, <1>8, <1>9

\* A completion takes the row from the worker.
LEMMA CompleteTyped ==
    ASSUME Typed, Complete
    PROVE  Typed'
<1> USE DEF Typed
<1> DEFINE i == work.row
<1>1. UNCHANGED <<now, facts, merchantVars, customerVars, pending>> /\ work' = NoWork
  BY DEF Complete
<1>2. i \in Rows /\ rows[i].status = "EXECUTING"
  BY CompleteEffect
<1>3. rows[i].due \in Nat /\ now + DayLength \in Nat /\ rows[i].recorded \in {"NONE", "SCHEDULED", "EXECUTED", "FAILED"}
  BY <1>2, ClockAssumption, LimitsAssumption DEF TypeOK, RowType, RowsTyped, Written, Times
<1>4. \E status \in {"RETRY_PENDING", "OBSERVATION_PENDING", "FAILED"},
         recorded \in {"NONE", "SCHEDULED", "EXECUTED", "FAILED"}, due \in Nat :
           Completes(i, status, recorded, due)
  BY <1>3, CompleteEffect
<1>5. PICK status \in {"RETRY_PENDING", "OBSERVATION_PENDING", "FAILED"},
           recorded \in {"NONE", "SCHEDULED", "EXECUTED", "FAILED"}, due \in Nat :
             Completes(i, status, recorded, due)
  BY <1>4
<1> DEFINE r == [rows[i] EXCEPT !.status = status, !.recorded = recorded, !.due = due]
<1>6. /\ r \in RowType /\ Written(i) /\ r.status = status /\ r.type = rows[i].type
      /\ r.at = rows[i].at /\ r.nerv = rows[i].nerv /\ r.due \in Nat /\ r.saved = rows[i].saved
  <2>1. rows[i] \in RowType /\ Written(i)
    BY <1>2 DEF TypeOK, Written
  <2> HIDE DEF i
  <2>2. r \in RowType
    BY <2>1 DEF RowType
  <2>3. /\ r.status = status /\ r.type = rows[i].type /\ r.at = rows[i].at
        /\ r.nerv = rows[i].nerv /\ r.due = due /\ r.saved = rows[i].saved
    BY <2>1 DEF RowType
  <2> QED BY <2>1, <2>2, <2>3
<1>7. rows' = [rows EXCEPT ![i] = r]
  BY <1>5 DEF Completes
<1> HIDE DEF r, i
<1>8. /\ rows' \in [Rows -> RowType] /\ RowsTyped'
      /\ \A j \in Rows : rows'[j].status # "NONE" => Compatible(facts.leak, rows'[j].type)
  <2>1. r.saved => r.type = "SEND_PAYMENT_LINK"
    BY <1>2, <1>6 DEF RowsTyped
  <2> QED BY <1>2, <1>6, <1>7, <2>1, UpdateTyped
<1>9. caseState' \in {caseState, "WAITING_OUTCOME", "ACTION_PENDING"}
  BY CompleteEffect
<1> QED BY <1>1, <1>8, <1>9
        DEF TypeOK, WorkTyped, NoWork, PendingTyped, merchantVars, customerVars, Terminal

\* An observation ends the wait of a row that was executed.
LEMMA ObserveTyped ==
    ASSUME Typed, Observe
    PROVE  Typed'
<1> USE DEF Typed
<1>1. /\ UNCHANGED <<now, facts, merchantVars, customerVars, pending, work>> /\ work = NoWork
      /\ caseState' \in {caseState, "ACTION_PENDING", "EXHAUSTED"}
  BY DEF Observe
<1>2. PICK i \in Rows : rows[i].status = "OBSERVATION_PENDING" /\ rows' = [rows EXCEPT ![i].status = "OBSERVED"]
  BY DEF Observe
<1> DEFINE r == [rows[i] EXCEPT !.status = "OBSERVED"]
<1>3. /\ r \in RowType /\ Written(i) /\ r.status = "OBSERVED" /\ r.type = rows[i].type
      /\ r.at = rows[i].at /\ r.nerv = rows[i].nerv /\ r.due = rows[i].due /\ r.saved = rows[i].saved
  BY <1>2 DEF TypeOK, RowType, Written
<1>4. rows' = [rows EXCEPT ![i] = r]
  BY <1>2
<1> HIDE DEF r
<1>5. /\ rows' \in [Rows -> RowType] /\ RowsTyped'
      /\ \A j \in Rows : rows'[j].status # "NONE" => Compatible(facts.leak, rows'[j].type)
  <2>1. r.due \in Nat /\ (r.saved => r.type = "SEND_PAYMENT_LINK")
    BY <1>2, <1>3 DEF RowsTyped
  <2> QED BY <1>2, <1>3, <1>4, <2>1, UpdateTyped
<1> QED BY <1>1, <1>5
        DEF TypeOK, WorkTyped, NoWork, PendingTyped, merchantVars, customerVars, Terminal

\* The other steps leave the rows alone.
LEMMA OtherTyped ==
    ASSUME Typed, Crash \/ Respond \/ PromiseMade \/ PromiseEnds \/ Payment \/ ChangePolicy \/ Tick
    PROVE  Typed'
<1> USE DEF Typed
<1>1. UNCHANGED <<rows, facts>> /\ work' \in {work, NoWork}
  BY DEF Crash, Respond, PromiseMade, PromiseEnds, Payment, ChangePolicy, Tick
<1>2. now' \in Times /\ merchant' \in Merchants /\ policies' \in Nat
  BY LimitsAssumption DEF TypeOK, Times, merchantVars, Crash, Respond, PromiseMade, PromiseEnds, Payment, ChangePolicy, Tick
<1>3. optedOutAt' \in Times \cup {NoTime} /\ promisedAt' \in Times \cup {NoTime}
  BY DEF TypeOK, customerVars, Crash, Respond, PromiseMade, PromiseEnds, Payment, ChangePolicy, Tick
<1>4. \/ caseState' = caseState /\ pending' = pending
      \/ caseState' = "ACTION_PENDING" /\ pending' \in {pending, NoCandidate}
      \/ caseState' = "RECOVERED" /\ pending' = NoCandidate
  BY DEF Reopened, Crash, Respond, PromiseMade, PromiseEnds, Payment, ChangePolicy, Tick
<1>5. Compatible(facts.leak, "NONE")
  BY DEF Compatible, SubscriptionOnly, RetryActions
<1>6. PendingTyped'
  BY <1>1, <1>4, <1>5 DEF PendingTyped, NoCandidate
<1>7. RowsTyped' /\ WorkTyped'
  BY <1>1 DEF RowsTyped, WorkTyped, Written
<1> QED BY <1>1, <1>2, <1>3, <1>4, <1>6, <1>7 DEF TypeOK, NoWork, Terminal

LEMMA TypedStep == Typed /\ [Next]_vars => Typed'
<1>1. ASSUME Typed, Next PROVE Typed'
  BY <1>1, DecideTyped, ApproveReviewTyped, ClaimTyped, ExecuteTyped, CompleteTyped, ObserveTyped,
     OtherTyped DEF Next
<1>2. ASSUME Typed, UNCHANGED vars PROVE Typed'
  BY <1>2 DEF Typed, TypeOK, WorkTyped, PendingTyped, RowsTyped, Written, vars, merchantVars, customerVars
<1> QED BY <1>1, <1>2

\* The types hold in every state.
LEMMA TypedInvariant == Spec => []Typed
BY TypedInit, TypedStep, PTL DEF Spec

\* The rows, the worker's work and the decision under review have their type
\* in every state, and only actions of the case's type of leak are ever written,
\* for any merchants, limits, lengths of the clock's windows and number of rows
\* (decisions, reviews, attempts, observations and responses).
THEOREM OutreachTyped == Spec => []TypeOK
<1>1. Typed => TypeOK
  BY DEF Typed
<1> QED BY <1>1, TypedInvariant, PTL

\* Nothing is scheduled at a loss, for any facts about a case and any policy:
\* the gate blocks what has a negative value before policy sees it, and a review
\* only approves what policy escalated (optimizer's ranking, economic gate and
\* ApproveReview).
THEOREM NeverAtALoss == Spec => []WorthIt
<1>1. Typed => WorthIt
  BY DEF Typed, TypeOK, RowsTyped, Written, WorthIt
<1> QED BY <1>1, TypedInvariant, PTL

\* While a case waits for a decision, whatever its history, policy denies the
\* candidate selected only for the reasons that eligibility does not know
\* (SelectionDenials, in every reachable state).
THEOREM DenialsAreExplained == Spec => []DenialsExplained
<1>1. Typed => DenialsExplained
  BY SelectionDenials DEF Typed, TypeOK, DenialsExplained
<1> QED BY <1>1, TypedInvariant, PTL

-----------------------------------------------------------------------------
(* One row at a time.                                                       *)

Ended(r) == r.recorded \in {"EXECUTED", "FAILED"}

Settled == {"ACTION_PENDING", "ESCALATED", "WAITING_OUTCOME", "STOPPED", "EXHAUSTED"}

\* The rows of a case follow each other: none is written before the one
\* before it has ended, and while a decision may be taken all have ended.
Ordered ==
    /\ \A i \in Rows : Written(i) =>
          /\ rows[i].at <= now
          /\ rows[i].sentAt # NoTime => rows[i].at <= rows[i].sentAt /\ rows[i].sentAt <= now
    /\ \A i, j \in Rows : i < j /\ Written(j) =>
          /\ Written(i) /\ Ended(rows[i]) /\ rows[i].at <= rows[j].at
          /\ rows[i].sentAt # NoTime => rows[i].sentAt <= rows[j].at
    /\ \A i \in Rows : Ended(rows[i]) <=> rows[i].status \in {"OBSERVATION_PENDING", "OBSERVED", "FAILED"}
    /\ caseState \in Settled => \A i \in Rows : Written(i) => Ended(rows[i])

\* A new row comes after rows that have all ended.
LEMMA ScheduleOrdered ==
    ASSUME Typed, Ordered, caseState \in Settled, NEW c, NEW h, Schedule(c, h),
           caseState' = "SCHEDULED", now' = now
    PROVE  Ordered'
<1>1. PICK i \in Rows : Free(i) /\ rows' = [rows EXCEPT ![i] = NewRow(c, h)]
  BY DEF Schedule, NewRow
<1>2. /\ NewRow(c, h).status = "PENDING" /\ NewRow(c, h).recorded = "SCHEDULED"
      /\ NewRow(c, h).at = now /\ NewRow(c, h).sentAt = NoTime
  BY DEF NewRow, NoRow
<1>3. rows \in [Rows -> RowType] /\ now \in Nat /\ Rows \subseteq Nat
  BY LimitsAssumption DEF Typed, TypeOK, Times, Rows
<1>4. rows'[i] = NewRow(c, h) /\ \A j \in Rows \ {i} : rows'[j] = rows[j]
  BY <1>1, <1>3
<1>5. \A j \in Rows : Written(j) => rows[j].at \in Nat /\ rows[j].sentAt \in Nat \cup {NoTime}
  BY <1>3 DEF Typed, RowsTyped, RowType, Times
<1>6. \A j \in Rows : j < i => Written(j) /\ Ended(rows[j])
  BY <1>1, <1>3 DEF Free, Ordered, Written
<1>7. \A j \in Rows : i < j => ~Written(j)
  BY <1>1 DEF Free, Ordered, Written
<1> HIDE DEF NewRow
<1>8. \A j \in Rows : Written(j)' =>
          /\ rows'[j].at <= now
          /\ rows'[j].sentAt # NoTime => rows'[j].at <= rows'[j].sentAt /\ rows'[j].sentAt <= now
  BY <1>2, <1>3, <1>4 DEF Ordered, Written
<1>9. ASSUME NEW a \in Rows, NEW b \in Rows, a < b, Written(b)'
      PROVE  /\ Written(a)' /\ Ended(rows'[a]) /\ rows'[a].at <= rows'[b].at
             /\ rows'[a].sentAt # NoTime => rows'[a].sentAt <= rows'[b].at
  <2>1. CASE b = i
    <3>1. a # i /\ rows'[a] = rows[a] /\ Written(a) /\ Ended(rows[a])
      BY <1>3, <1>4, <1>6, <1>9, <2>1
    <3> QED BY <1>2, <1>4, <2>1, <3>1 DEF Ordered, Written
  <2>2. CASE b # i
    <3>1. Written(b) /\ a # i /\ rows'[a] = rows[a] /\ rows'[b] = rows[b]
      BY <1>4, <1>7, <1>9, <2>2 DEF Written
    <3> QED BY <1>9, <3>1 DEF Ordered, Written
  <2> QED BY <2>1, <2>2
<1>10. \A j \in Rows : Ended(rows'[j]) <=> rows'[j].status \in {"OBSERVATION_PENDING", "OBSERVED", "FAILED"}
  BY <1>2, <1>4 DEF Ordered, Ended
<1>11. caseState' \notin Settled
  BY DEF Settled
<1> QED BY <1>8, <1>9, <1>10, <1>11 DEF Ordered

\* Writing the row in hand again keeps the order, as long as it dates what it
\* sends now and does not take back that the row has ended.
LEMMA UpdateOrdered ==
    ASSUME Typed, Ordered, NEW i \in Rows, Written(i), NEW r \in RowType, rows' = [rows EXCEPT ![i] = r],
           r.status # "NONE", r.at = rows[i].at,
           Ended(r) <=> r.status \in {"OBSERVATION_PENDING", "OBSERVED", "FAILED"},
           Ended(rows[i]) => Ended(r),
           r.sentAt = rows[i].sentAt \/ (~Ended(rows[i]) /\ r.sentAt = now),
           caseState' \in Settled => caseState \in Settled \/ (~Ended(rows[i]) /\ Ended(r)),
           now' = now
    PROVE  Ordered'
<1>1. rows \in [Rows -> RowType] /\ now \in Nat /\ Rows \subseteq Nat
  BY LimitsAssumption DEF Typed, TypeOK, Times, Rows
<1>2. rows'[i] = r /\ \A j \in Rows \ {i} : rows'[j] = rows[j]
  BY <1>1
<1>3. \A j \in Rows : Written(j) => rows[j].at \in Nat
  BY DEF Typed, RowsTyped, Times
<1>4. \A j \in Rows : Written(j)' <=> Written(j)
  BY <1>2 DEF Written
<1>5. \A j \in Rows : Written(j) =>
          /\ rows'[j].at <= now
          /\ rows'[j].sentAt # NoTime => rows'[j].at <= rows'[j].sentAt /\ rows'[j].sentAt <= now
  BY <1>1, <1>2, <1>3 DEF Ordered
<1>6. ASSUME NEW a \in Rows, NEW b \in Rows, a < b, Written(b)
      PROVE  /\ Written(a) /\ Ended(rows'[a]) /\ rows'[a].at <= rows'[b].at
             /\ rows'[a].sentAt # NoTime => rows'[a].sentAt <= rows'[b].at
  <2>1. /\ Written(a) /\ Ended(rows[a]) /\ rows[a].at <= rows[b].at
        /\ rows[a].sentAt # NoTime => rows[a].sentAt <= rows[b].at
    BY <1>6 DEF Ordered
  <2>2. rows'[b].at = rows[b].at /\ rows'[a].at = rows[a].at
    BY <1>2
  <2>3. Ended(rows'[a]) /\ rows'[a].sentAt = rows[a].sentAt
    BY <1>2, <2>1
  <2> QED BY <2>1, <2>2, <2>3
<1>7. \A j \in Rows : Ended(rows'[j]) <=> rows'[j].status \in {"OBSERVATION_PENDING", "OBSERVED", "FAILED"}
  BY <1>2 DEF Ordered
<1>8. ASSUME caseState' \in Settled, NEW j \in Rows, Written(j)
      PROVE  Ended(rows'[j])
  <2>1. CASE caseState \in Settled
    BY <1>2, <1>8, <2>1 DEF Ordered
  <2>2. CASE ~Ended(rows[i]) /\ Ended(r)
    <3>1. ~(i < j)
      BY <1>8, <2>2 DEF Ordered
    <3>2. j = i \/ j < i
      BY <3>1, <1>1
    <3>3. j < i => Ended(rows[j])
      BY DEF Ordered
    <3> QED BY <1>2, <2>2, <3>2, <3>3
  <2> QED BY <1>8, <2>1, <2>2
<1> QED BY <1>4, <1>5, <1>6, <1>7, <1>8 DEF Ordered

\* Every step keeps the rows in their order.
LEMMA OrderedStep == Typed /\ Ordered /\ [Next]_vars => Ordered'
<1> SUFFICES ASSUME Typed, Ordered, [Next]_vars PROVE Ordered'
  OBVIOUS
<1>1. rows \in [Rows -> RowType] /\ now \in Nat
  BY LimitsAssumption DEF Typed, TypeOK, Times
<1>2. CASE Decide
  <2>1. now' = now /\ caseState = "ACTION_PENDING"
    BY <1>2 DEF Decide
  <2>2. CASE UNCHANGED rows
    <3>1. caseState \in Settled
      BY <2>1 DEF Settled
    <3> QED BY <2>1, <2>2, <3>1 DEF Ordered, Written
  <2>3. CASE \E c : caseState' = "SCHEDULED" /\ Schedule(c, FALSE)
    BY <2>1, <2>3, ScheduleOrdered DEF Settled
  <2> QED BY <1>2, <2>2, <2>3 DEF Decide
<1>3. CASE ApproveReview
  BY <1>3, ScheduleOrdered DEF ApproveReview, Settled
<1>4. CASE Claim
  <2>1. PICK i \in Rows, status \in {"CLAIMED", "SUPERSEDED"} :
          /\ Live(i)
          /\ rows' = [rows EXCEPT ![i] = [rows[i] EXCEPT !.status = status, !.attempt = rows[i].attempt + 1]]
    BY <1>1, <1>4 DEF Claim
  <2> DEFINE r == [rows[i] EXCEPT !.status = status, !.attempt = rows[i].attempt + 1]
  <2>2. /\ r \in RowType /\ r.status = status /\ r.at = rows[i].at /\ r.recorded = rows[i].recorded
        /\ r.sentAt = rows[i].sentAt /\ Written(i)
    <3>1. rows[i] \in RowType /\ rows[i].attempt + 1 \in Nat /\ Written(i)
      BY <1>1, <2>1 DEF RowType, Live, Written
    <3> QED BY <3>1 DEF RowType
  <2>3. ~Ended(rows[i]) /\ ~Ended(r)
    BY <2>1, <2>2 DEF Ordered, Live, Ended
  <2>4. now' = now /\ caseState' = caseState
    BY <1>4 DEF Claim
  <2>5. rows' = [rows EXCEPT ![i] = r]
    BY <2>1
  <2> HIDE DEF r
  <2> QED BY <2>2, <2>3, <2>4, <2>5, UpdateOrdered
<1>5. CASE Execute
  <2> DEFINE i == work.row
  <2>1. i \in Rows /\ rows[i].status = "CLAIMED"
    BY <1>5, ExecuteEffect
  <2>2. PICK result \in {"SUCCEEDED", "RETRYABLE", "PERMANENT"}, sent \in BOOLEAN, saved \in BOOLEAN, links \in Nat :
           Leaves(i, result, sent, saved, links)
    BY <1>5, ExecuteEffect
  <2> DEFINE time == IF sent /\ rows[i].sentAt = NoTime THEN now ELSE rows[i].sentAt
             r == [rows[i] EXCEPT !.status = "EXECUTING", !.links = links, !.saved = saved, !.sentAt = time]
  <2>3. time \in Times \cup {NoTime} /\ rows[i] \in RowType /\ time \in {now, rows[i].sentAt}
    BY <2>1 DEF Typed, TypeOK, RowType
  <2>4. rows' = [rows EXCEPT ![i] = r]
    BY <2>2 DEF Leaves
  <2> HIDE DEF time
  <2>5. /\ r \in RowType /\ r.status = "EXECUTING" /\ r.at = rows[i].at /\ r.recorded = rows[i].recorded
        /\ r.sentAt = time /\ Written(i)
    BY <2>1, <2>3 DEF RowType, Written
  <2>6. ~Ended(rows[i]) /\ ~Ended(r)
    BY <2>1, <2>5 DEF Ordered, Ended
  <2>7. now' = now /\ (caseState' \in Settled => caseState \in Settled)
    BY <1>5 DEF Execute, Settled
  <2> HIDE DEF r, i
  <2> QED BY <2>1, <2>3, <2>4, <2>5, <2>6, <2>7, UpdateOrdered
<1>6. CASE Complete
  <2> DEFINE i == work.row
  <2>1. i \in Rows /\ rows[i].status = "EXECUTING" /\ rows[i] \in RowType /\ Written(i)
    BY <1>1, <1>6, CompleteEffect DEF Written
  <2>2. ~Ended(rows[i]) /\ rows[i].due \in Nat /\ now + DayLength \in Nat
    BY <1>1, <2>1, ClockAssumption DEF Ordered, Typed, RowsTyped
  <2>3. \E status \in {"RETRY_PENDING", "OBSERVATION_PENDING", "FAILED"},
           recorded \in {rows[i].recorded, "EXECUTED", "FAILED"}, due \in Nat :
          /\ Completes(i, status, recorded, due)
          /\ status = "RETRY_PENDING" => caseState' = caseState /\ recorded = rows[i].recorded
          /\ status # "RETRY_PENDING" => recorded # rows[i].recorded
    BY <1>6, <2>2, CompleteEffect DEF Ended
  <2>4. PICK status \in {"RETRY_PENDING", "OBSERVATION_PENDING", "FAILED"},
             recorded \in {rows[i].recorded, "EXECUTED", "FAILED"}, due \in Nat :
          /\ Completes(i, status, recorded, due)
          /\ status = "RETRY_PENDING" => caseState' = caseState /\ recorded = rows[i].recorded
          /\ status # "RETRY_PENDING" => recorded # rows[i].recorded
    BY <2>3
  <2> DEFINE r == [rows[i] EXCEPT !.status = status, !.recorded = recorded, !.due = due]
  <2>5. rows' = [rows EXCEPT ![i] = r]
    BY <2>4 DEF Completes
  <2>6. /\ r \in RowType /\ r.status = status /\ r.at = rows[i].at /\ r.recorded = recorded
        /\ r.sentAt = rows[i].sentAt
    BY <2>1 DEF RowType
  <2>7. Ended(r) <=> status # "RETRY_PENDING"
    BY <2>2, <2>4, <2>6 DEF Ended
  <2>8. now' = now
    BY <1>6 DEF Complete
  <2> HIDE DEF r, i
  <2> QED BY <2>1, <2>2, <2>4, <2>5, <2>6, <2>7, <2>8, UpdateOrdered
<1>7. CASE Observe
  <2>1. PICK i \in Rows : rows[i].status = "OBSERVATION_PENDING" /\ rows' = [rows EXCEPT ![i].status = "OBSERVED"]
    BY <1>7 DEF Observe
  <2> DEFINE r == [rows[i] EXCEPT !.status = "OBSERVED"]
  <2>2. /\ r \in RowType /\ r.status = "OBSERVED" /\ r.at = rows[i].at /\ r.recorded = rows[i].recorded
        /\ r.sentAt = rows[i].sentAt /\ Written(i)
    BY <1>1, <2>1 DEF RowType, Written
  <2>3. rows' = [rows EXCEPT ![i] = r]
    BY <1>1, <2>1
  <2>4. Ended(rows[i]) /\ Ended(r)
    BY <2>1, <2>2 DEF Ordered, Ended
  <2>5. now' = now /\ (caseState' \in Settled => caseState \in Settled)
    BY <1>7 DEF Observe, Settled
  <2> HIDE DEF r
  <2> QED BY <2>1, <2>2, <2>3, <2>4, <2>5, UpdateOrdered
<1>8. CASE Crash \/ Respond \/ PromiseMade \/ PromiseEnds \/ Payment \/ ChangePolicy \/ Tick \/ UNCHANGED vars
  <2>1. rows' = rows /\ now' \in {now, now + 1}
    BY <1>8 DEF Crash, Respond, PromiseMade, PromiseEnds, Payment, ChangePolicy, Tick, vars
  <2>2. caseState' \in Settled => caseState \in Settled
    BY <1>8 DEF Crash, Respond, Reopened, PromiseMade, PromiseEnds, Payment, ChangePolicy, Tick, vars, Settled
  <2>3. \A i \in Rows : Written(i) => rows[i].at \in Nat /\ rows[i].sentAt \in Nat \cup {NoTime}
    BY <1>1 DEF Typed, RowsTyped, RowType, Times
  <2> QED BY <1>1, <2>1, <2>2, <2>3 DEF Ordered, Written
<1> QED BY <1>2, <1>3, <1>4, <1>5, <1>6, <1>7, <1>8 DEF Next

-----------------------------------------------------------------------------
(* What a step leaves of a row.                                             *)

\* A row keeps what its decision made of it; only the executor of the
\* authorized work dates what was sent, once, and a stored link stays.
KeepsRow(i) ==
    /\ Written(i) => /\ rows'[i].status # "NONE"
                     /\ rows'[i].type = rows[i].type /\ rows'[i].at = rows[i].at
    /\ \/ rows'[i].sentAt = rows[i].sentAt
       \/ /\ work.label = "authorized" /\ work.row = i
          /\ rows[i].sentAt = NoTime /\ rows'[i].sentAt = now
    /\ rows[i].saved => rows'[i].saved /\ rows'[i].links = rows[i].links

\* Scheduling fills a free row.
LEMMA ScheduleKeepsRows ==
    ASSUME Typed, NEW c, NEW h, Schedule(c, h)
    PROVE  \A i \in Rows : KeepsRow(i)
<1>1. PICK i \in Rows : Free(i) /\ rows' = [rows EXCEPT ![i] = NewRow(c, h)]
  BY DEF Schedule, NewRow
<1>2. NewRow(c, h).sentAt = NoTime
  BY DEF NewRow, NoRow
<1>3. rows'[i] = NewRow(c, h) /\ \A j \in Rows \ {i} : rows'[j] = rows[j]
  BY <1>1 DEF Typed, TypeOK
<1>4. ~Written(i) /\ rows[i].sentAt = NoTime /\ ~rows[i].saved
  BY <1>1 DEF Free, Typed, RowsTyped, Written, NoRow
<1> QED BY <1>2, <1>3, <1>4 DEF KeepsRow, Written

\* A change of status alone keeps the row.
LEMMA RewriteKeepsRows ==
    ASSUME Typed, NEW i \in Rows, NEW r, rows' = [rows EXCEPT ![i] = r], r.status # "NONE",
           r.type = rows[i].type, r.at = rows[i].at, r.sentAt = rows[i].sentAt,
           r.saved = rows[i].saved, r.links = rows[i].links
    PROVE  \A j \in Rows : KeepsRow(j)
<1>1. rows'[i] = r /\ \A j \in Rows \ {i} : rows'[j] = rows[j]
  BY DEF Typed, TypeOK
<1> QED BY <1>1 DEF KeepsRow, Written

\* No step takes from a row what its decision made of it.
LEMMA RowsStep ==
    ASSUME Typed, [Next]_vars
    PROVE  \A i \in Rows : KeepsRow(i)
<1>1. rows \in [Rows -> RowType]
  BY DEF Typed, TypeOK
<1>2. CASE UNCHANGED rows
  BY <1>2 DEF KeepsRow, Written
<1>3. CASE Decide
  <2>1. UNCHANGED rows \/ \E c : Schedule(c, FALSE)
    BY <1>3 DEF Decide
  <2> QED BY <2>1, <1>2, ScheduleKeepsRows
<1>4. CASE ApproveReview
  BY <1>4, ScheduleKeepsRows DEF ApproveReview
<1>5. CASE Claim
  <2>1. PICK i \in Rows, status \in {"CLAIMED", "SUPERSEDED"} :
          rows' = [rows EXCEPT ![i] = [rows[i] EXCEPT !.status = status, !.attempt = rows[i].attempt + 1]]
    BY <1>1, <1>5 DEF Claim
  <2> DEFINE r == [rows[i] EXCEPT !.status = status, !.attempt = rows[i].attempt + 1]
  <2>2. rows' = [rows EXCEPT ![i] = r]
    BY <2>1
  <2>3. /\ r.status = status /\ r.type = rows[i].type /\ r.at = rows[i].at /\ r.sentAt = rows[i].sentAt
        /\ r.saved = rows[i].saved /\ r.links = rows[i].links
    BY <1>1 DEF RowType
  <2> HIDE DEF r
  <2> QED BY <2>2, <2>3, RewriteKeepsRows
<1>6. CASE Execute
  <2> DEFINE i == work.row
  <2>1. i \in Rows /\ rows[i].status = "CLAIMED" /\ work.label = "authorized"
    BY <1>6, ExecuteEffect
  <2>2. PICK result \in {"SUCCEEDED", "RETRYABLE", "PERMANENT"}, sent \in BOOLEAN, saved \in BOOLEAN, links \in Nat :
          Leaves(i, result, sent, saved, links) /\ (rows[i].saved => saved /\ links = rows[i].links)
    BY <1>6, ExecuteEffect
  <2> DEFINE time == IF sent /\ rows[i].sentAt = NoTime THEN now ELSE rows[i].sentAt
             r == [rows[i] EXCEPT !.status = "EXECUTING", !.links = links, !.saved = saved, !.sentAt = time]
  <2>3. rows' = [rows EXCEPT ![i] = r]
    BY <2>2 DEF Leaves
  <2>4. time = rows[i].sentAt \/ (rows[i].sentAt = NoTime /\ time = now)
    OBVIOUS
  <2> HIDE DEF time
  <2>5. /\ r.status = "EXECUTING" /\ r.at = rows[i].at /\ r.type = rows[i].type /\ r.sentAt = time
        /\ r.saved = saved /\ r.links = links
    BY <1>1, <2>1 DEF RowType
  <2> HIDE DEF r
  <2>6. rows'[i] = r /\ \A j \in Rows \ {i} : rows'[j] = rows[j]
    BY <1>1, <2>1, <2>3
  <2>7. KeepsRow(i)
    BY <2>1, <2>2, <2>4, <2>5, <2>6 DEF KeepsRow
  <2>8. \A j \in Rows \ {i} : KeepsRow(j)
    BY <2>6 DEF KeepsRow, Written
  <2> QED BY <2>7, <2>8
<1>7. CASE Complete
  <2> DEFINE i == work.row
  <2>1. i \in Rows
    BY <1>7, CompleteEffect
  <2>2. PICK status \in {"RETRY_PENDING", "OBSERVATION_PENDING", "FAILED"},
             recorded \in {rows[i].recorded, "EXECUTED", "FAILED"}, due \in {rows[i].due, now + DayLength} :
          Completes(i, status, recorded, due)
    BY <1>7, CompleteEffect
  <2> DEFINE r == [rows[i] EXCEPT !.status = status, !.recorded = recorded, !.due = due]
  <2>3. rows' = [rows EXCEPT ![i] = r]
    BY <2>2 DEF Completes
  <2>4. /\ r.status = status /\ r.type = rows[i].type /\ r.at = rows[i].at /\ r.sentAt = rows[i].sentAt
        /\ r.saved = rows[i].saved /\ r.links = rows[i].links
    BY <1>1, <2>1 DEF RowType
  <2> HIDE DEF r, i
  <2> QED BY <2>1, <2>3, <2>4, RewriteKeepsRows
<1>8. CASE Observe
  <2>1. PICK i \in Rows : rows' = [rows EXCEPT ![i].status = "OBSERVED"]
    BY <1>8 DEF Observe
  <2> DEFINE r == [rows[i] EXCEPT !.status = "OBSERVED"]
  <2>2. rows' = [rows EXCEPT ![i] = r]
    BY <2>1
  <2>3. /\ r.status = "OBSERVED" /\ r.type = rows[i].type /\ r.at = rows[i].at /\ r.sentAt = rows[i].sentAt
        /\ r.saved = rows[i].saved /\ r.links = rows[i].links
    BY <1>1 DEF RowType
  <2> HIDE DEF r
  <2> QED BY <2>2, <2>3, RewriteKeepsRows
<1>9. CASE Crash \/ Respond \/ PromiseMade \/ PromiseEnds \/ Payment \/ ChangePolicy \/ Tick \/ UNCHANGED vars
  BY <1>2, <1>9 DEF Crash, Respond, PromiseMade, PromiseEnds, Payment, ChangePolicy, Tick, vars
<1> QED BY <1>3, <1>4, <1>5, <1>6, <1>7, <1>8, <1>9 DEF Next

\* Once the reference of a payment link is stored, no later attempt of its row
\* creates another or loses it, for any number of attempts and crashes (the
\* executor's idempotency check before it calls the provider).
THEOREM LinksAreReused == Spec => LinkIsReused
<1>1. Typed /\ [Next]_vars =>
        [\A i \in Rows : rows[i].saved => rows'[i].saved /\ rows'[i].links = rows[i].links]_vars
  BY RowsStep DEF KeepsRow
<1> QED BY <1>1, TypedInvariant, PTL DEF Spec, LinkIsReused

\* What is scheduled, and what the worker goes on to execute, would be eligible
\* at that moment: the optimizer's own choice without exception, and what a
\* reviewer approves or the recheck lets pass but for what policy does not look
\* at.  The leak is never among it.  (StoredAction.Candidate and the worker's
\* RunOnce ask policy about a stored candidate and never rank it again.)
StillEligible(action) ==
    action \in EligibleActions(Context) \/ OnlyEligibilityKnows(Context, action)

ChecksCoverEligibility ==
    [][/\ work = NoWork /\ work' # NoWork =>
             /\ StillEligible(rows[work'.row].type)
             /\ Compatible(Context.leak, rows[work'.row].type)
       /\ \A i \in Rows : ~Written(i) /\ Written(i)' =>
             /\ StillEligible(rows'[i].type)
             /\ Compatible(Context.leak, rows'[i].type)
             /\ caseState = "ACTION_PENDING" => rows'[i].type \in EligibleActions(Context)]_vars

\* What policy lets pass is still eligible.
LEMMA PolicyKeepsEligible ==
    ASSUME NEW candidate, NEW gate, candidate.action \in Actions,
           PolicyDecision(Context, candidate, gate, now) \in {"APPROVE", "ESCALATE"}
    PROVE  StillEligible(candidate.action)
<1> DEFINE ctx == Context
<1>1. ctx.at = now
  BY ContextFields
<1> HIDE DEF ctx
<1>2. candidate.action \in EligibleActions(ctx) \/ OnlyEligibilityKnows(ctx, candidate.action)
  <2>1. PolicyDecision(ctx, candidate, gate, ctx.at) \in {"APPROVE", "ESCALATE"}
    BY <1>1 DEF ctx
  <2> QED BY <2>1, PolicyCoversEligibility
<1> QED BY <1>2 DEF StillEligible, ctx

\* The recheck, for the row the worker claims.
LEMMA ClaimStillEligible ==
    ASSUME Typed, Claim, work' # NoWork
    PROVE  StillEligible(rows[work'.row].type) /\ Compatible(Context.leak, rows[work'.row].type)
<1>1. PICK i \in Rows :
        /\ Live(i)
        /\ Authorized(i) => work' = [NoWork EXCEPT !.row = i, !.label = "authorized"]
        /\ ~Authorized(i) => work' = NoWork
  BY Zenon DEF Claim
<1>2. work'.row = i /\ Authorized(i)
  BY <1>1 DEF NoWork
<1>3. Written(i)
  BY <1>1 DEF Live, Written
<1>4. rows[i].type \in Actions /\ Compatible(Context.leak, rows[i].type)
  BY <1>3, ContextFields DEF Typed, RowsTyped, TypeOK, Written
<1> DEFINE candidate == [action |-> rows[i].type, nerv |-> rows[i].nerv]
<1>5. PolicyDecision(Context, candidate, "ALLOW", now) \in {"APPROVE", "ESCALATE"}
  BY <1>2 DEF Authorized
<1>6. candidate.action = rows[i].type
  OBVIOUS
<1> HIDE DEF candidate
<1>7. StillEligible(candidate.action)
  BY <1>4, <1>5, <1>6, PolicyKeepsEligible
<1> QED BY <1>2, <1>4, <1>6, <1>7

\* A new row is of the scheduled candidate's type.
LEMMA ScheduledType ==
    ASSUME NEW candidate, NEW human, Schedule(candidate, human), NEW j \in Rows, ~Written(j), Written(j)',
           rows \in [Rows -> RowType]
    PROVE  rows'[j].type = candidate.action
<1>1. PICK i \in Rows : rows' = [rows EXCEPT ![i] = NewRow(candidate, human)]
  BY DEF Schedule, NewRow
<1>2. i = j
  BY <1>1 DEF Written
<1>3. NewRow(candidate, human).type = candidate.action
  BY DEF NewRow, NoRow
<1> QED BY <1>1, <1>2, <1>3

\* The choice of a decision, and what a reviewer approves.
LEMMA ScheduledEligible ==
    ASSUME Typed, Decide \/ ApproveReview, NEW i \in Rows, ~Written(i), Written(i)'
    PROVE  /\ StillEligible(rows'[i].type)
           /\ Compatible(Context.leak, rows'[i].type)
           /\ caseState = "ACTION_PENDING" => rows'[i].type \in EligibleActions(Context)
<1>0. rows \in [Rows -> RowType] /\ facts \in Facts
  BY DEF Typed, TypeOK
<1>1. CASE Decide
  <2>1. rows' # rows
    BY DEF Written
  <2>2. PICK e \in Evaluations :
          e.candidate.action # "WAIT" /\ Schedule(e.candidate, FALSE)
    BY <1>1, <2>1 DEF Decide
  <2>3. rows'[i].type = e.candidate.action
    BY <1>0, <2>2, ScheduledType
  <2>4. e.candidate.action \in EligibleActions(Context)
    BY <1>0, <2>2, SelectedKinds
  <2>5. Compatible(Context.leak, e.candidate.action)
    BY <1>0, CompatibleKinds, ContextFields
  <2> QED BY <2>3, <2>4, <2>5 DEF StillEligible
<1>2. CASE ApproveReview
  <2>1. /\ caseState = "ESCALATED" /\ Schedule(pending, TRUE)
        /\ PolicyDecision(Context, pending, "ALLOW", now) \in {"APPROVE", "ESCALATE"}
    BY <1>2 DEF ApproveReview
  <2>2. rows'[i].type = pending.action
    BY <1>0, <2>1, ScheduledType
  <2>3. pending.action \in Actions /\ Compatible(Context.leak, pending.action)
    BY <2>1, ContextFields DEF Typed, PendingTyped
  <2>4. StillEligible(pending.action)
    BY <2>1, <2>3, PolicyKeepsEligible
  <2>5. caseState # "ACTION_PENDING"
    BY <2>1
  <2> QED BY <2>2, <2>3, <2>4, <2>5
<1> QED BY <1>1, <1>2

\* No other action writes a row.
LEMMA WritersOfRows ==
    ASSUME Typed, [Next]_vars, NEW i \in Rows, ~Written(i), Written(i)'
    PROVE  Decide \/ ApproveReview
<1>1. SUFFICES ASSUME ~Decide, ~ApproveReview PROVE FALSE
  OBVIOUS
<1>2. \A j \in Rows : rows'[j] = rows[j] \/ Written(j)
  <2>1. rows \in [Rows -> RowType]
    BY DEF Typed, TypeOK
  <2>2. CASE Claim
    BY <2>1, <2>2 DEF Claim, Live, Written
  <2>3. CASE Execute
    <3>1. work.row \in Rows /\ Written(work.row)
      BY <2>3 DEF Execute, Typed, WorkTyped, Written, NoWork
    <3>2. \E r : rows' = [rows EXCEPT ![work.row] = r]
      BY <2>3, ExecuteEffect, Zenon DEF Leaves
    <3> QED BY <2>1, <3>1, <3>2
  <2>4. CASE Complete
    <3>1. work.row \in Rows /\ Written(work.row)
      BY <2>4 DEF Complete, Typed, WorkTyped, Written, NoWork
    <3> QED BY <2>1, <2>4, <3>1 DEF Complete
  <2>5. CASE Observe
    BY <2>1, <2>5 DEF Observe, Written
  <2>6. CASE Crash \/ Respond \/ PromiseMade \/ PromiseEnds \/ Payment \/ ChangePolicy \/ Tick \/ UNCHANGED vars
    BY <2>6 DEF Crash, Respond, PromiseMade, PromiseEnds, Payment, ChangePolicy, Tick, vars
  <2> QED BY <1>1, <2>2, <2>3, <2>4, <2>5, <2>6 DEF Next
<1> QED BY <1>2 DEF Written

\* The worker takes work up in Claim only.
LEMMA WorkIsClaimed ==
    ASSUME [Next]_vars, work = NoWork, work' # NoWork
    PROVE  Claim
<1>1. work.label = "idle"
  BY DEF NoWork
<1>2. ~Execute /\ ~Complete /\ ~Crash
  BY <1>1 DEF Execute, Complete, Crash
<1> QED
  BY <1>2 DEF Next, vars, Decide, ApproveReview, Observe, Respond, PromiseMade, PromiseEnds, Payment,
              ChangePolicy, Tick

\* What is scheduled and what the worker executes is eligible when it is
\* scheduled and when it is rechecked, for every merchant, history and clock,
\* but for what policy does not look at.
THEOREM OnlyEligibleActionsRun == Spec => ChecksCoverEligibility
<1>1. Typed /\ [Next]_vars =>
        [/\ work = NoWork /\ work' # NoWork =>
               /\ StillEligible(rows[work'.row].type)
               /\ Compatible(Context.leak, rows[work'.row].type)
         /\ \A i \in Rows : ~Written(i) /\ Written(i)' =>
               /\ StillEligible(rows'[i].type)
               /\ Compatible(Context.leak, rows'[i].type)
               /\ caseState = "ACTION_PENDING" => rows'[i].type \in EligibleActions(Context)]_vars
  <2>1. SUFFICES ASSUME Typed, [Next]_vars
                 PROVE  /\ work = NoWork /\ work' # NoWork =>
                              /\ StillEligible(rows[work'.row].type)
                              /\ Compatible(Context.leak, rows[work'.row].type)
                        /\ \A i \in Rows : ~Written(i) /\ Written(i)' =>
                              /\ StillEligible(rows'[i].type)
                              /\ Compatible(Context.leak, rows'[i].type)
                              /\ caseState = "ACTION_PENDING" => rows'[i].type \in EligibleActions(Context)
    OBVIOUS
  <2>2. ASSUME work = NoWork, work' # NoWork
        PROVE  StillEligible(rows[work'.row].type) /\ Compatible(Context.leak, rows[work'.row].type)
    BY <2>1, <2>2, WorkIsClaimed, ClaimStillEligible
  <2>3. ASSUME NEW i \in Rows, ~Written(i), Written(i)'
        PROVE  /\ StillEligible(rows'[i].type)
               /\ Compatible(Context.leak, rows'[i].type)
               /\ caseState = "ACTION_PENDING" => rows'[i].type \in EligibleActions(Context)
    BY <2>1, <2>3, WritersOfRows, ScheduledEligible
  <2> QED BY <2>2, <2>3
<1> QED BY <1>1, TypedInvariant, PTL DEF Spec, ChecksCoverEligibility

\* The state machine that every writer of a case is expected to respect.
Table == INSTANCE CaseStateMachine

\* A case may go to t from s by moves of the table, passing through states
\* that a transaction leaves again before it commits.
Passing == {"ACTION_PENDING", "POLICY_REVIEW", "REASSESSING"}

Walk(s, t) ==
    \/ Table!CanTransition(s, t)
    \/ \E u \in Passing : Table!CanTransition(s, u) /\ Table!CanTransition(u, t)
    \/ \E u, v \in Passing : /\ Table!CanTransition(s, u) /\ Table!CanTransition(u, v)
                             /\ Table!CanTransition(v, t)

\* The steps of this module stand for whole transactions, and each is a walk
\* along the table (domain/state_machine.go); only an attributed payment,
\* which asks no table, takes an open case to RECOVERED from anywhere.
FollowsTable ==
    [][Walk(caseState, caseState') \/ (caseState \notin Terminal /\ caseState' = "RECOVERED")]_caseState

\* The walks that the steps take.
LEMMA Walks ==
    /\ \A t \in {"STOPPED", "ESCALATED", "SCHEDULED"} : Walk("ACTION_PENDING", t)
    /\ Walk("ESCALATED", "SCHEDULED") /\ Walk("ESCALATED", "ACTION_PENDING")
    /\ Walk("SCHEDULED", "EXECUTING")
    /\ Walk("EXECUTING", "WAITING_OUTCOME") /\ Walk("EXECUTING", "ACTION_PENDING")
    /\ Walk("WAITING_OUTCOME", "ACTION_PENDING") /\ Walk("WAITING_OUTCOME", "EXHAUSTED")
<1> USE DEF Table!CanTransition, Table!Transitions, Table!CaseStates
<1>1. /\ \A t \in {"POLICY_REVIEW", "STOPPED", "ESCALATED"} :
            Table!CanTransition("ACTION_PENDING", t)
      /\ Table!CanTransition("POLICY_REVIEW", "SCHEDULED")
  OBVIOUS
<1>2. Table!CanTransition("ESCALATED", "ACTION_PENDING") /\ Table!CanTransition("SCHEDULED", "EXECUTING")
  OBVIOUS
<1>3. /\ Table!CanTransition("EXECUTING", "WAITING_OUTCOME") /\ Table!CanTransition("EXECUTING", "REASSESSING")
      /\ Table!CanTransition("REASSESSING", "ACTION_PENDING")
  OBVIOUS
<1>4. Table!CanTransition("WAITING_OUTCOME", "REASSESSING") /\ Table!CanTransition("WAITING_OUTCOME", "EXHAUSTED")
  OBVIOUS
<1>5. {"ACTION_PENDING", "POLICY_REVIEW", "REASSESSING"} \subseteq Passing
  BY DEF Passing
<1> HIDE DEF Table!CanTransition, Table!Transitions, Table!CaseStates
<1>6. /\ \A t \in {"STOPPED", "ESCALATED"} : Walk("ACTION_PENDING", t)
      /\ Walk("ESCALATED", "ACTION_PENDING") /\ Walk("SCHEDULED", "EXECUTING")
      /\ Walk("EXECUTING", "WAITING_OUTCOME") /\ Walk("WAITING_OUTCOME", "EXHAUSTED")
  BY <1>1, <1>2, <1>3, <1>4 DEF Walk
<1>7. Walk("ACTION_PENDING", "SCHEDULED")
  BY <1>1, <1>5 DEF Walk
<1>8. Walk("EXECUTING", "ACTION_PENDING") /\ Walk("WAITING_OUTCOME", "ACTION_PENDING")
  BY <1>3, <1>4, <1>5 DEF Walk
<1>9. Walk("ESCALATED", "SCHEDULED")
  BY <1>1, <1>2, <1>5 DEF Walk
<1> QED BY <1>6, <1>7, <1>8, <1>9

\* Decisions, attempts, observations, responses and promises move a case along
\* the table only, and nothing moves a closed one.
THEOREM OutreachFollowsTable == Spec => FollowsTable
<1>1. Typed /\ [Next]_vars =>
        [Walk(caseState, caseState') \/ (caseState \notin Terminal /\ caseState' = "RECOVERED")]_caseState
  <2>1. SUFFICES ASSUME Typed, [Next]_vars, caseState' # caseState
                 PROVE  Walk(caseState, caseState') \/ (caseState \notin Terminal /\ caseState' = "RECOVERED")
    OBVIOUS
  <2>2. CASE Decide
    <3>1. caseState = "ACTION_PENDING" /\ caseState' \in {"STOPPED", "ESCALATED", "SCHEDULED"}
      BY <2>2 DEF Decide
    <3> QED BY <3>1, Walks
  <2>3. CASE ApproveReview
    <3>1. caseState = "ESCALATED" /\ caseState' = "SCHEDULED"
      BY <2>3 DEF ApproveReview
    <3> QED BY <3>1, Walks
  <2>4. CASE Execute
    <3>1. caseState = "SCHEDULED" /\ caseState' = "EXECUTING"
      BY <2>1, <2>4 DEF Execute
    <3> QED BY <3>1, Walks
  <2>5. CASE Complete
    <3>1. caseState = "EXECUTING" /\ caseState' \in {"WAITING_OUTCOME", "ACTION_PENDING"}
      BY <2>1, <2>5 DEF Complete
    <3> QED BY <3>1, Walks
  <2>6. CASE Observe
    <3>1. caseState = "WAITING_OUTCOME" /\ caseState' \in {"ACTION_PENDING", "EXHAUSTED"}
      BY <2>1, <2>6 DEF Observe
    <3> QED BY <3>1, Walks
  <2>7. CASE Respond
    <3>1. caseState = "WAITING_OUTCOME" /\ caseState' = "ACTION_PENDING"
      BY <2>1, <2>7 DEF Respond, Reopened
    <3> QED BY <3>1, Walks
  <2>8. CASE PromiseEnds
    <3>1. caseState \in {"WAITING_OUTCOME", "ESCALATED"} /\ caseState' = "ACTION_PENDING"
      BY <2>1, <2>8 DEF PromiseEnds
    <3> QED BY <3>1, Walks
  <2>9. CASE Payment
    BY <2>9 DEF Payment
  <2>10. CASE Claim \/ Crash \/ PromiseMade \/ ChangePolicy \/ Tick \/ UNCHANGED vars
    <3>1. Claim => UNCHANGED caseState
      BY Zenon DEF Claim
    <3>2. Crash \/ PromiseMade \/ ChangePolicy \/ Tick \/ UNCHANGED vars => UNCHANGED caseState
      BY Zenon DEF Crash, PromiseMade, ChangePolicy, Tick, vars
    <3> QED BY <2>1, <2>10, <3>1, <3>2
  <2> QED BY <2>1, <2>2, <2>3, <2>4, <2>5, <2>6, <2>7, <2>8, <2>9, <2>10 DEF Next
<1> QED BY <1>1, TypedInvariant, PTL DEF Spec, FollowsTable

-----------------------------------------------------------------------------
(* The limits.                                                              *)

Earlier(i, kinds) == {j \in Rows : j < i /\ rows[j].type \in kinds}

Recent(i, kinds, length, t) == {j \in Earlier(i, kinds) : t - rows[j].at <= length}

\* What went before row i leaves room for it at time t.
WithinLimits(i, t) ==
    /\ rows[i].type \in ContactActions =>
         /\ Cardinality(Recent(i, ContactActions, DayLength, t)) < Max(DailyLimits)
         /\ Cardinality(Recent(i, ContactActions, WeekLength, t)) < Max(WeeklyLimits)
    /\ rows[i].type \in RetryActions => Cardinality(Earlier(i, RetryActions)) < Max(RetryLimits)

\* What was sent was within the limits then, and what is authorized is now.
Counted ==
    /\ \A i \in Rows : rows[i].sentAt # NoTime => WithinLimits(i, rows[i].sentAt)
    /\ work.label = "authorized" => WithinLimits(work.row, now)

\* While work is authorized, an opt-out or a promise can only come in the
\* same tick.
StillWanted ==
    work.label = "authorized" =>
       /\ rows[work.row].type \in ContactActions => optedOutAt \in {NoTime, now}
       /\ rows[work.row].type \in ContactActions \cup RetryActions => promisedAt \in {NoTime, now}

\* History counts the rows before a live one, and no others.
LEMMA HistoryIsEarlier ==
    ASSUME Typed, Ordered, NEW i \in Rows, Live(i), NEW kinds, NEW length, NEW t
    PROVE  /\ Of(History, kinds) = Earlier(i, kinds)
           /\ Within(History, kinds, length, t) = Recent(i, kinds, length, t)
<1>1. /\ DOMAIN History = {k \in Rows : Ended(rows[k])}
      /\ \A k \in DOMAIN History : History[k].type = rows[k].type /\ History[k].at = rows[k].at
  BY DEF History, Dated, Ended
<1>2. Written(i) /\ ~Ended(rows[i])
  BY DEF Live, Ordered, Written
<1>3. \A k \in Rows : Ended(rows[k]) <=> k < i
  <2>1. \A k \in Rows : k < i => Ended(rows[k])
    BY <1>2 DEF Ordered
  <2>2. \A k \in Rows : Ended(rows[k]) => Written(k) /\ k # i /\ ~(i < k)
    BY <1>2 DEF Ordered, Written
  <2> QED BY <2>1, <2>2, LimitsAssumption DEF Rows
<1>4. Of(History, kinds) = Earlier(i, kinds)
  BY <1>1, <1>3 DEF Of, Earlier
<1> QED BY <1>1, <1>3, <1>4 DEF Within, Recent, Of, Earlier

\* Rows are finitely many.
LEMMA RowSetsFinite ==
    ASSUME NEW S \in SUBSET Rows
    PROVE  IsFiniteSet(S) /\ Cardinality(S) \in Nat
<1>1. IsFiniteSet(Rows)
  BY LimitsAssumption, FS_Interval DEF Rows
<1> QED BY <1>1, FS_Subset, FS_CardinalityType

\* The worker's recheck lets a row pass only within the limits, and not to a
\* customer who has opted out or promised to pay.
LEMMA AuthorizedWithin ==
    ASSUME Typed, Ordered, NEW i \in Rows, Live(i), Authorized(i)
    PROVE  /\ WithinLimits(i, now)
           /\ rows[i].type \in ContactActions => optedOutAt = NoTime
           /\ rows[i].type \in ContactActions \cup RetryActions => promisedAt = NoTime
<1> DEFINE candidate == [action |-> rows[i].type, nerv |-> rows[i].nerv]
           ctx == Context
<1>1. DenyReasons(ctx, candidate, "ALLOW", now) = {}
  BY DEF Authorized, PolicyDecision
<1>2. /\ ctx.recent = History /\ ctx.merchant = merchant
      /\ ctx.optedOut = (optedOutAt # NoTime) /\ ctx.promised = (promisedAt # NoTime)
  BY ContextFields
<1>3. merchant \in Merchants
  BY DEF Typed, TypeOK
<1> HIDE DEF ctx
<1>4. rows[i].type \in ContactActions \cup RetryActions => promisedAt = NoTime
  BY <1>1, <1>2 DEF DenyReasons
<1>5. ASSUME rows[i].type \in ContactActions
      PROVE  /\ optedOutAt = NoTime
             /\ Cardinality(Recent(i, ContactActions, DayLength, now)) < Max(DailyLimits)
             /\ Cardinality(Recent(i, ContactActions, WeekLength, now)) < Max(WeeklyLimits)
  <2>1. ContactDenials(ctx, now) = {}
    BY <1>1, <1>5 DEF DenyReasons
  <2>2. /\ ~ctx.optedOut
        /\ ~(Cardinality(Within(History, ContactActions, DayLength, now)) >= merchant.maxPerDay)
        /\ ~(Cardinality(Within(History, ContactActions, WeekLength, now)) >= merchant.maxPerWeek)
    BY <2>1, <1>2 DEF ContactDenials
  <2> DEFINE d == Recent(i, ContactActions, DayLength, now)
             w == Recent(i, ContactActions, WeekLength, now)
  <2>3. ~(Cardinality(d) >= merchant.maxPerDay) /\ ~(Cardinality(w) >= merchant.maxPerWeek)
    BY <2>2, HistoryIsEarlier
  <2>4. Cardinality(d) \in Nat /\ Cardinality(w) \in Nat
    <3>1. d \in SUBSET Rows /\ w \in SUBSET Rows
      BY DEF Recent, Earlier
    <3> QED BY <3>1, RowSetsFinite
  <2> HIDE DEF d, w
  <2>5. Cardinality(d) < Max(DailyLimits) /\ Cardinality(w) < Max(WeeklyLimits)
    BY <1>3, <2>3, <2>4, Limits
  <2> QED BY <1>2, <2>2, <2>5 DEF d, w
<1>6. ASSUME rows[i].type \in RetryActions
      PROVE  Cardinality(Earlier(i, RetryActions)) < Max(RetryLimits)
  <2>1. RetryDenials(ctx, now) = {}
    BY <1>1, <1>6 DEF DenyReasons
  <2>2. ~(Cardinality(Of(History, RetryActions)) >= merchant.maxRetries)
    BY <2>1, <1>2 DEF RetryDenials
  <2> DEFINE e == Earlier(i, RetryActions)
  <2>3. ~(Cardinality(e) >= merchant.maxRetries)
    BY <2>2, HistoryIsEarlier
  <2>4. Cardinality(e) \in Nat
    BY RowSetsFinite DEF Earlier
  <2> HIDE DEF e
  <2>5. Cardinality(e) < Max(RetryLimits)
    BY <1>3, <2>3, <2>4, Limits
  <2> QED BY <2>5 DEF e
<1> QED BY <1>4, <1>5, <1>6 DEF WithinLimits

\* Work that is authorized after a step was so before, in the same tick, or
\* was claimed by the step.
LEMMA AuthorizedStep ==
    ASSUME Typed, [Next]_vars, work'.label = "authorized"
    PROVE  \/ /\ work' = work /\ work.label = "authorized" /\ now' = now /\ work.row \in Rows
              /\ optedOutAt' \in {optedOutAt, now} /\ promisedAt' \in {promisedAt, NoTime, now}
           \/ /\ work'.row \in Rows /\ Live(work'.row) /\ Authorized(work'.row)
              /\ now' = now /\ UNCHANGED customerVars
<1>1. work = NoWork => work.label = "idle"
  BY DEF NoWork
<1>2. CASE Claim
  <2>1. PICK i \in Rows :
           /\ Live(i)
           /\ \/ work' = NoWork
              \/ Authorized(i) /\ work' = [NoWork EXCEPT !.row = i, !.label = "authorized"]
    BY <1>2 DEF Claim
  <2>2. work' # NoWork
    BY DEF NoWork
  <2>3. Authorized(i) /\ work'.row = i
    BY <2>1, <2>2 DEF NoWork
  <2>4. now' = now /\ UNCHANGED customerVars
    BY <1>2 DEF Claim
  <2> QED BY <2>1, <2>3, <2>4
<1>3. CASE Execute
  <2>1. work'.label = "answered"
    BY <1>3, ExecuteEffect DEF Leaves, Typed, WorkTyped, NoWork
  <2> QED BY <2>1
<1>4. CASE Complete \/ Crash \/ Observe \/ Tick
  BY <1>1, <1>4 DEF Complete, Crash, Observe, Tick, NoWork
<1>5. CASE Decide \/ ApproveReview \/ Respond \/ PromiseMade \/ PromiseEnds \/ Payment \/ ChangePolicy
           \/ UNCHANGED vars
  <2>1. work' = work /\ now' = now
    BY <1>5 DEF Decide, ApproveReview, Respond, PromiseMade, PromiseEnds, Payment, ChangePolicy, vars
  <2>2. optedOutAt' \in {optedOutAt, now}
    BY <1>5 DEF Decide, ApproveReview, Respond, PromiseMade, PromiseEnds, Payment, ChangePolicy, vars,
                customerVars
  <2>3. promisedAt' \in {promisedAt, NoTime, now}
    BY <1>5 DEF Decide, ApproveReview, Respond, PromiseMade, PromiseEnds, Payment, ChangePolicy, vars,
                customerVars
  <2>4. work.row \in Rows
    BY <1>1, <2>1 DEF Typed, WorkTyped
  <2> QED BY <2>1, <2>2, <2>3, <2>4
<1> QED BY <1>2, <1>3, <1>4, <1>5 DEF Next

\* What is counted before a row does not change any more.
LEMMA WithinLimitsKept ==
    ASSUME Typed, Ordered, [Next]_vars, NEW i \in Rows, Written(i), NEW t, WithinLimits(i, t)
    PROVE  WithinLimits(i, t)'
<1>1. \A j \in Rows : KeepsRow(j)
  BY RowsStep
<1>2. \A j \in Rows : j < i => Written(j)
  BY DEF Ordered
<1>3. \A j \in Rows : j < i => rows'[j].type = rows[j].type /\ rows'[j].at = rows[j].at
  BY <1>1, <1>2 DEF KeepsRow
<1>4. rows'[i].type = rows[i].type
  BY <1>1 DEF KeepsRow
<1>5. \A kinds : Earlier(i, kinds)' = Earlier(i, kinds)
  BY <1>3 DEF Earlier
<1>6. \A kinds, length : Recent(i, kinds, length, t)' = Recent(i, kinds, length, t)
  BY <1>3 DEF Recent, Earlier
<1> QED BY <1>4, <1>5, <1>6 DEF WithinLimits

\* Only a row that was written is sent.
LEMMA SentIsWritten ==
    ASSUME Typed, NEW i \in Rows, rows[i].sentAt # NoTime
    PROVE  Written(i) /\ rows[i].sentAt \in Times
BY DEF Typed, TypeOK, RowType, RowsTyped, Written, NoRow

\* Every step keeps the count: what is sent now was authorized within the
\* limits, and what was counted before it stays.
LEMMA CountedStep == Typed /\ Ordered /\ Counted /\ [Next]_vars => Counted'
<1> SUFFICES ASSUME Typed, Ordered, Counted, [Next]_vars PROVE Counted'
  OBVIOUS
<1>1. ASSUME NEW i \in Rows, rows'[i].sentAt # NoTime
      PROVE  WithinLimits(i, rows[i].sentAt)' 
  <2>0. KeepsRow(i)
    BY RowsStep
  <2>1. CASE rows'[i].sentAt = rows[i].sentAt
    <3>1. Written(i) /\ WithinLimits(i, rows[i].sentAt)
      BY <1>1, <2>1, SentIsWritten DEF Counted
    <3> DEFINE t == rows[i].sentAt
    <3>2. t' = t
      BY <2>1
    <3> HIDE DEF t
    <3>3. WithinLimits(i, t)
      BY <3>1 DEF t
    <3>4. \A u : WithinLimits(i, u) => WithinLimits(i, u)'
      BY <3>1, WithinLimitsKept
    <3> QED BY <3>2, <3>3, <3>4 DEF t
  <2>2. CASE work.label = "authorized" /\ work.row = i /\ rows'[i].sentAt = now
    <3>1. WithinLimits(i, now)
      BY <2>2 DEF Counted
    <3>2. Written(i)
      BY <2>2 DEF Typed, WorkTyped, NoWork, Written
    <3> QED BY <2>2, <3>1, <3>2, WithinLimitsKept
  <2> QED BY <2>0, <2>1, <2>2 DEF KeepsRow
<1>2. ASSUME work'.label = "authorized"
      PROVE  WithinLimits(work.row, now)'
  <2>1. CASE work' = work /\ work.label = "authorized" /\ now' = now /\ work.row \in Rows
    <3>1. Written(work.row) /\ WithinLimits(work.row, now)
      BY <2>1 DEF Typed, WorkTyped, NoWork, Written, Counted
    <3> QED BY <2>1, <3>1, WithinLimitsKept
  <2>2. CASE work'.row \in Rows /\ Live(work'.row) /\ Authorized(work'.row) /\ now' = now
    <3> DEFINE i == work'.row
    <3>1. i \in Rows /\ Live(i) /\ Authorized(i)
      BY <2>2
    <3> HIDE DEF i
    <3>2. WithinLimits(i, now) /\ Written(i)
      BY <3>1, AuthorizedWithin DEF Live, Written
    <3> QED BY <2>2, <3>1, <3>2, WithinLimitsKept DEF i
  <2> QED BY <1>2, <2>1, <2>2, AuthorizedStep
<1> QED BY <1>1, <1>2 DEF Counted

\* An opt-out or a promise that meets authorized work comes in the tick of its
\* authorization.
LEMMA StillWantedStep == Typed /\ Ordered /\ StillWanted /\ [Next]_vars => StillWanted'
<1> SUFFICES ASSUME Typed, Ordered, StillWanted, [Next]_vars, work'.label = "authorized"
             PROVE  /\ rows'[work'.row].type \in ContactActions => optedOutAt' \in {NoTime, now'}
                    /\ rows'[work'.row].type \in ContactActions \cup RetryActions =>
                          promisedAt' \in {NoTime, now'}
  BY DEF StillWanted
<1>1. \A i \in Rows : KeepsRow(i)
  BY RowsStep
<1>2. CASE /\ work' = work /\ work.label = "authorized" /\ now' = now /\ work.row \in Rows
           /\ optedOutAt' \in {optedOutAt, now} /\ promisedAt' \in {promisedAt, NoTime, now}
  <2>1. Written(work.row)
    BY <1>2 DEF Typed, WorkTyped, NoWork, Written
  <2>2. rows'[work.row].type = rows[work.row].type
    BY <1>1, <1>2, <2>1 DEF KeepsRow
  <2> QED BY <1>2, <2>2 DEF StillWanted
<1>3. CASE /\ work'.row \in Rows /\ Live(work'.row) /\ Authorized(work'.row)
           /\ now' = now /\ UNCHANGED customerVars
  <2> DEFINE i == work'.row
  <2>1. i \in Rows /\ Live(i) /\ Authorized(i)
    BY <1>3
  <2> HIDE DEF i
  <2>2. Written(i)
    BY <2>1 DEF Live, Written
  <2>3. rows'[i].type = rows[i].type
    BY <1>1, <2>1, <2>2 DEF KeepsRow
  <2>4. /\ rows[i].type \in ContactActions => optedOutAt = NoTime
        /\ rows[i].type \in ContactActions \cup RetryActions => promisedAt = NoTime
    BY <2>1, AuthorizedWithin
  <2> QED BY <1>3, <2>3, <2>4 DEF i, customerVars
<1> QED BY <1>2, <1>3, AuthorizedStep

\* No step but a response or a promise dates the customer's wishes, and to now.
LEMMA CustomerStep ==
    ASSUME [Next]_vars
    PROVE  optedOutAt' \in {optedOutAt, now} /\ promisedAt' \in {promisedAt, NoTime, now}
BY DEF Next, vars, customerVars, Decide, ApproveReview, Claim, Execute, Complete, Crash, Observe,
       Respond, PromiseMade, PromiseEnds, Payment, ChangePolicy, Tick

\* What is sent is sent no later than the opt-out or the promise.
LEMMA StandsDownStep == Typed /\ Ordered /\ StillWanted /\ StandsDown /\ [Next]_vars => StandsDown'
<1> SUFFICES ASSUME Typed, Ordered, StillWanted, StandsDown, [Next]_vars,
                    NEW i \in Rows, rows'[i].sentAt # NoTime
             PROVE  /\ rows'[i].type \in ContactActions /\ optedOutAt' # NoTime =>
                          rows'[i].sentAt <= optedOutAt'
                    /\ rows'[i].type \in ContactActions \cup RetryActions /\ promisedAt' # NoTime =>
                          rows'[i].sentAt <= promisedAt'
  BY DEF StandsDown, Sent
<1>1. KeepsRow(i)
  BY RowsStep
<1>2. optedOutAt' \in {optedOutAt, now} /\ promisedAt' \in {promisedAt, NoTime, now}
  BY CustomerStep
<1>3. now \in Nat
  BY LimitsAssumption DEF Typed, TypeOK, Times
<1>4. CASE rows'[i].sentAt = rows[i].sentAt
  <2>1. Written(i) /\ rows[i].sentAt <= now
    BY <1>4, SentIsWritten DEF Ordered
  <2>2. rows'[i].type = rows[i].type
    BY <1>1, <2>1 DEF KeepsRow
  <2>3. /\ rows[i].type \in ContactActions /\ optedOutAt # NoTime => rows[i].sentAt <= optedOutAt
        /\ rows[i].type \in ContactActions \cup RetryActions /\ promisedAt # NoTime =>
              rows[i].sentAt <= promisedAt
    BY <1>4 DEF StandsDown, Sent
  <2> QED BY <1>2, <1>4, <2>1, <2>2, <2>3
<1>5. CASE work.label = "authorized" /\ work.row = i /\ rows'[i].sentAt = now
  <2>1. Written(i)
    BY <1>5 DEF Typed, WorkTyped, NoWork, Written
  <2>2. rows'[i].type = rows[i].type
    BY <1>1, <2>1 DEF KeepsRow
  <2>3. /\ rows[i].type \in ContactActions => optedOutAt \in {NoTime, now}
        /\ rows[i].type \in ContactActions \cup RetryActions => promisedAt \in {NoTime, now}
    BY <1>5 DEF StillWanted
  <2> QED BY <1>2, <1>3, <1>5, <2>2, <2>3
<1> QED BY <1>1, <1>4, <1>5 DEF KeepsRow

-----------------------------------------------------------------------------
(* The theorems.                                                            *)

OutreachInv == Typed /\ Ordered /\ Counted /\ StillWanted /\ StandsDown

LEMMA OutreachInvInit == Init => OutreachInv
<1> SUFFICES ASSUME Init PROVE OutreachInv
  OBVIOUS
<1>1. \A i \in Rows : /\ rows[i].status = "NONE" /\ rows[i].sentAt = NoTime /\ rows[i].recorded = "NONE"
  BY DEF Init, NoRow
<1>2. work.label = "idle"
  BY DEF Init, NoWork
<1>3. Ordered /\ Counted /\ StillWanted /\ StandsDown
  BY <1>1, <1>2 DEF Ordered, Counted, StillWanted, StandsDown, Sent, Written, Ended
<1> QED BY <1>3, TypedInit DEF OutreachInv

\* The invariant holds in every state.
LEMMA OutreachInvariant == Spec => []OutreachInv
<1>1. OutreachInv /\ [Next]_vars => OutreachInv'
  BY TypedStep, OrderedStep, CountedStep, StillWantedStep, StandsDownStep DEF OutreachInv
<1> QED BY <1>1, OutreachInvInit, PTL DEF Spec

\* Once the customer has opted out, or while a promise is active, nothing more
\* is sent, however long ago it was decided and however many crashes and retries
\* lie between (the worker's recheck of the case before it calls the executor).
THEOREM StandsDownAlways == Spec => []StandsDown
<1>1. OutreachInv => StandsDown
  BY DEF OutreachInv
<1> QED BY <1>1, OutreachInvariant, PTL

\* A set grows by one at most when a member is added.
LEMMA OneMore ==
    ASSUME NEW S, IsFiniteSet(S), NEW x
    PROVE  /\ IsFiniteSet(S \cup {x}) /\ Cardinality(S \cup {x}) \in Nat
           /\ Cardinality(S \cup {x}) <= Cardinality(S) + 1
<1>1. Cardinality(S) \in Nat
  BY FS_CardinalityType
<1>2. /\ IsFiniteSet(S \cup {x})
      /\ Cardinality(S \cup {x}) = IF x \in S THEN Cardinality(S) ELSE Cardinality(S) + 1
  BY FS_AddElement
<1> QED BY <1>1, <1>2

\* Of several rows one is the last and one the first.
LEMMA FirstAndLast ==
    ASSUME NEW S \in SUBSET Rows, S # {}
    PROVE  \E m, n \in S : \A i \in S : n <= i /\ i <= m
<1>1. S \in SUBSET Nat
  BY LimitsAssumption DEF Rows
<1>2. PICK n \in S : \A i \in S : n <= i
  BY <1>1, LeastElement
<1>3. PICK m \in S : \A i \in S : i <= m
  BY <1>1, RowSetsFinite, FiniteHasGreatest
<1> QED BY <1>2, <1>3

\* The contacts in a window: all but the first and the last were counted
\* when the last was checked.
LEMMA WindowBound ==
    ASSUME Typed, Ordered, NEW length \in Nat, NEW limit \in Nat, NEW t \in Times,
           \A i \in Sent(ContactActions) :
              Cardinality(Recent(i, ContactActions, length, rows[i].sentAt)) < limit
    PROVE  Cardinality({i \in Sent(ContactActions) : rows[i].sentAt \in t .. t + length}) <= limit + 1
<1> DEFINE W == {i \in Sent(ContactActions) : rows[i].sentAt \in t .. t + length}
<1>1. W \in SUBSET Rows
  BY DEF Sent
<1>2. CASE W = {}
  <2> HIDE DEF W
  <2>1. Cardinality(W) = 0
    BY <1>2, FS_EmptySet
  <2> QED BY <2>1 DEF W
<1>3. CASE W # {}
  <2>1. PICK m \in W, n \in W : \A i \in W : n <= i /\ i <= m
    BY <1>1, <1>3, FirstAndLast
  <2> DEFINE R == Recent(m, ContactActions, length, rows[m].sentAt)
  <2>2. W \subseteq (R \cup {m}) \cup {n}
    <3>1. SUFFICES ASSUME NEW i \in W, i # m, i # n
                   PROVE  i \in R
      OBVIOUS
    <3>2. i \in Rows /\ m \in Rows /\ n \in Rows /\ i \in Nat /\ m \in Nat /\ n \in Nat
      BY <1>1, LimitsAssumption DEF Rows
    <3>3. n < i /\ i < m
      BY <2>1, <3>1, <3>2
    <3>4. Written(i) /\ rows[i].at \in Nat /\ rows[i].type \in ContactActions
      BY <3>2, SentIsWritten DEF Sent, Typed, RowsTyped, Times
    <3>5. rows[n].sentAt # NoTime /\ rows[n].sentAt <= rows[i].at
      BY <3>2, <3>3, <3>4 DEF Sent, Ordered
    <3>6. /\ rows[n].sentAt \in Nat /\ rows[m].sentAt \in Nat /\ t \in Nat
          /\ t <= rows[n].sentAt /\ rows[m].sentAt <= t + length
      BY LimitsAssumption DEF Times
    <3>7. rows[m].sentAt - rows[i].at <= length
      BY <3>4, <3>5, <3>6
    <3> QED BY <3>2, <3>3, <3>4, <3>7 DEF Recent, Earlier
  <2>3. Cardinality(R) < limit
    BY <2>1
  <2>4. IsFiniteSet(R) /\ Cardinality(R) \in Nat
    <3>1. R \in SUBSET Rows
      BY DEF Recent, Earlier
    <3> QED BY <3>1, RowSetsFinite
  <2> HIDE DEF R, W
  <2>5. /\ IsFiniteSet(R \cup {m}) /\ Cardinality(R \cup {m}) \in Nat
        /\ Cardinality(R \cup {m}) <= Cardinality(R) + 1
    BY <2>4, OneMore
  <2>6. /\ IsFiniteSet((R \cup {m}) \cup {n}) /\ Cardinality((R \cup {m}) \cup {n}) \in Nat
        /\ Cardinality((R \cup {m}) \cup {n}) <= Cardinality(R \cup {m}) + 1
    BY <2>5, OneMore
  <2>7. Cardinality(W) <= Cardinality((R \cup {m}) \cup {n})
    BY <2>2, <2>6, FS_Subset
  <2>8. Cardinality(W) \in Nat
    BY <1>1, RowSetsFinite
  <2> QED BY <2>3, <2>4, <2>5, <2>6, <2>7, <2>8 DEF W
<1> QED BY <1>2, <1>3

\* In any window of a day or a week, at most one contact more is sent than the
\* largest limit of any version of the merchant's policy, for any limits, number
\* of rows, retries, crashes and late workers (policy's contact counts and the
\* worker's recheck).
THEOREM ContactsCapped == Spec => []ContactCap
<1>1. ASSUME OutreachInv
      PROVE  ContactCap
  <2> USE DEF OutreachInv
  <2>1. merchant \in Merchants /\ Max(DailyLimits) \in Nat /\ Max(WeeklyLimits) \in Nat
    BY <1>1, Limits DEF Typed, TypeOK
  <2>2. DayLength \in Nat /\ WeekLength \in Nat
    BY ClockAssumption
  <2>3. \A i \in Sent(ContactActions) :
          /\ Cardinality(Recent(i, ContactActions, DayLength, rows[i].sentAt)) < Max(DailyLimits)
          /\ Cardinality(Recent(i, ContactActions, WeekLength, rows[i].sentAt)) < Max(WeeklyLimits)
    BY <1>1 DEF Sent, Counted, WithinLimits
  <2> QED BY <1>1, <2>1, <2>2, <2>3, WindowBound DEF ContactCap
<1> QED BY <1>1, OutreachInvariant, PTL

\* Retries are requested no more often than the largest limit of any version
\* of the merchant's policy, however attempts fail and decisions repeat
\* (policy's retry count and the worker's recheck).
THEOREM RetriesCapped == Spec => []RetryCap
<1>1. ASSUME OutreachInv
      PROVE  RetryCap
  <2> USE DEF OutreachInv
  <2> DEFINE S == Sent(RetryActions)
             limit == Max(RetryLimits)
  <2>1. limit \in Nat
    BY <1>1, Limits DEF Typed, TypeOK
  <2>2. S \in SUBSET Rows
    BY DEF Sent
  <2>3. CASE S = {}
    BY <2>1, <2>3, FS_EmptySet DEF RetryCap
  <2>4. CASE S # {}
    <3>1. PICK m \in S : \A i \in S : i <= m
      BY <2>2, <2>4, FirstAndLast
    <3> DEFINE E == Earlier(m, RetryActions)
    <3>2. S \subseteq E \cup {m}
      <4>1. \A i \in S : i \in Nat
        BY <2>2, LimitsAssumption DEF Rows
      <4> QED BY <2>2, <3>1, <4>1 DEF Earlier, Sent
    <3>3. Cardinality(E) < limit
      BY <1>1, <3>1 DEF Sent, Counted, WithinLimits
    <3>4. IsFiniteSet(E) /\ Cardinality(E) \in Nat
      <4>1. E \in SUBSET Rows
        BY DEF Earlier
      <4> QED BY <4>1, RowSetsFinite
    <3>5. Cardinality(S) \in Nat
      BY <2>2, RowSetsFinite
    <3> HIDE DEF E, S, limit
    <3>6. /\ IsFiniteSet(E \cup {m}) /\ Cardinality(E \cup {m}) \in Nat
          /\ Cardinality(E \cup {m}) <= Cardinality(E) + 1
      BY <3>4, OneMore
    <3>7. Cardinality(S) <= Cardinality(E \cup {m})
      BY <3>2, <3>6, FS_Subset
    <3>8. Cardinality(S) <= limit
      BY <2>1, <3>3, <3>4, <3>5, <3>6, <3>7
    <3> QED BY <3>8 DEF RetryCap, S, limit
  <2> QED BY <2>3, <2>4
<1> QED BY <1>1, OutreachInvariant, PTL
=============================================================================
