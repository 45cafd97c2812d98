---------------------------- MODULE DecisionRules ----------------------------
(***************************************************************************)
(* The pure rules a decision passes through, in their order: the diagnosis *)
(* of a failure, the eligibility filter, the optimizer's ranking, the      *)
(* economic gate and the merchant policy.  Each is a function of the       *)
(* decision context; nothing here has state.                               *)
(*                                                                         *)
(* Times are counted in ticks, DayLength of them a day and WeekLength a    *)
(* week; the clock time of tick t is t % DayLength.  Probabilities are     *)
(* counted in Scale-ths (the code's 1_000_000), rates in basis points.     *)
(***************************************************************************)
EXTENDS Integers, FiniteSets, MinorUnits

CONSTANTS
    DayLength,   \* ticks in 24 hours
    WeekLength,  \* ticks in 7 days (shortened in TLC's instances)
    Scale        \* probabilities are Scale-ths

ASSUME ClockAssumption ==
    /\ DayLength \in Nat \ {0} /\ WeekLength \in Nat /\ DayLength <= WeekLength
    /\ Scale \in Nat \ {0}

-----------------------------------------------------------------------------
(* Actions.                                                                 *)

RetryActions == {"RETRY_NOW", "RETRY_LATER"}

ContactActions ==
    {"SEND_REMINDER", "SEND_PAYMENT_LINK", "SEND_CHECKOUT_RECOVERY_LINK",
     "REQUEST_PAYMENT_METHOD_UPDATE", "SUGGEST_ALTERNATE_METHOD",
     "WAIT_FOR_PROMISE_TO_PAY", "RETENTION_ACTION"}

Actions == RetryActions \cup ContactActions \cup {"WAIT", "ESCALATE_TO_HUMAN", "STOP"}

\* Only actions a worker can execute may be ranked.
Scoreable == RetryActions \cup (ContactActions \ {"WAIT_FOR_PROMISE_TO_PAY", "RETENTION_ACTION"})

\* Go compares action names as strings; the order of the ranked ones.
NameOrder == <<"REQUEST_PAYMENT_METHOD_UPDATE", "RETRY_LATER", "RETRY_NOW",
               "SEND_CHECKOUT_RECOVERY_LINK", "SEND_PAYMENT_LINK", "SEND_REMINDER",
               "SUGGEST_ALTERNATE_METHOD", "WAIT">>

NameRank(action) == CHOOSE i \in DOMAIN NameOrder : NameOrder[i] = action

-----------------------------------------------------------------------------
(* Diagnosis.                                                               *)

\* Failure categories after their aliases are normalised; confidence in
\* percent.  A category the code does not know is UNRECOGNISED.
Diagnose(category) ==
    CASE category \in {"TEMPORARY_BANK_FAILURE", "INSUFFICIENT_FUNDS", "PAYMENT_FAILURE",
                       "PAYMENT_FRICTION", "DELAYED_INTENT"}
           -> [recoverability |-> "TEMPORARY", confidence |-> 90]
      [] category \in {"PAYMENT_METHOD_INVALID", "MANDATE_FAILURE",
                       "PAYMENT_METHOD_MISMATCH", "PRICE_OR_VALUE_HESITATION"}
           -> [recoverability |-> "PERSISTENT", confidence |-> 86]
      [] category = "HARD_DECLINE" -> [recoverability |-> "NON_RECOVERABLE", confidence |-> 94]
      [] category \in {"CUSTOMER_INTENT_OR_UNKNOWN", "UNKNOWN_ABANDONMENT"}
           -> [recoverability |-> "UNKNOWN", confidence |-> 50]
      [] OTHER -> [recoverability |-> "UNKNOWN", confidence |-> 40]

-----------------------------------------------------------------------------
(* The recent actions of a context: records [type, at], one per row.        *)

Of(recent, kinds) == {i \in DOMAIN recent : recent[i].type \in kinds}

Within(recent, kinds, length, t) == {i \in Of(recent, kinds) : t - recent[i].at <= length}

\* Some action of these kinds was created less than interval ago.
Cooling(recent, kinds, interval, t) ==
    \E i \in Of(recent, kinds) : t - recent[i].at < interval

\* Quiet hours [from, until) on the clock, wrapping around midnight; none
\* when they are not configured.
InQuiet(quiet, clock) ==
    IF quiet.from <= quiet.until THEN quiet.from <= clock /\ clock < quiet.until
    ELSE quiet.from <= clock \/ clock < quiet.until

Quiet(quiet, offset, t) == quiet.set /\ InQuiet(quiet, (t + offset) % DayLength)

-----------------------------------------------------------------------------
(* Eligibility.                                                             *)

SubscriptionOnly == RetryActions \cup {"REQUEST_PAYMENT_METHOD_UPDATE", "WAIT_FOR_PROMISE_TO_PAY"}

Compatible(leak, action) ==
    /\ action \in SubscriptionOnly => leak = "FAILED_SUBSCRIPTION"
    /\ action = "SEND_CHECKOUT_RECOVERY_LINK" => leak = "CHECKOUT_ABANDONMENT"

\* Mutant of Unreachable: the opt-out is left to policy.
Unreachable_Channels(ctx) == ctx.merchant.channels \cap ctx.available = {}

Unreachable(ctx) == ctx.optedOut \/ ctx.merchant.channels \cap ctx.available = {}

\* Eligibility reads the clock of the evaluation, which is UTC.
ContactBarred(ctx, action) ==
    /\ action \in ContactActions
    /\ \/ Unreachable(ctx)
       \/ Quiet(ctx.merchant.quiet, 0, ctx.at)
       \/ Cardinality(Within(ctx.recent, ContactActions, DayLength, ctx.at)) >= ctx.merchant.maxPerDay
       \/ Cardinality(Within(ctx.recent, ContactActions, WeekLength, ctx.at)) >= ctx.merchant.maxPerWeek
       \/ Cooling(ctx.recent, {action}, ctx.merchant.interval, ctx.at)

RetryBarred(ctx, action) ==
    /\ action \in RetryActions
    /\ \/ Cardinality(Of(ctx.recent, RetryActions)) >= ctx.merchant.maxRetries
       \/ ctx.mandate \in {"REVOKED", "FAILED"}
       \/ ctx.category = "PAYMENT_METHOD_INVALID"
       \/ Cooling(ctx.recent, {action}, ctx.merchant.interval, ctx.at)

\* Mutant of Fits: the leak type is left to the executors.
Fits_AnyLeak(ctx, action) ==
    action \in {"STOP", "ESCALATE_TO_HUMAN", "WAIT"} \/ action \in ctx.merchant.actions

\* The leak and the merchant allow the action.
Fits(ctx, action) ==
    /\ Compatible(ctx.leak, action)
    /\ action \in {"STOP", "ESCALATE_TO_HUMAN", "WAIT"} \/ action \in ctx.merchant.actions

Excluded(ctx, action) ==
    IF ctx.recovered \/ ctx.deadline <= ctx.at THEN action # "STOP"
    ELSE \/ ~Fits(ctx, action)
         \/ /\ ctx.promised /\ action \in RetryActions \cup ContactActions
            /\ action # "WAIT_FOR_PROMISE_TO_PAY"
         \/ ContactBarred(ctx, action)
         \/ RetryBarred(ctx, action)

EligibleActions(ctx) == {action \in Actions : ~Excluded(ctx, action)}

-----------------------------------------------------------------------------
(* Optimizer.                                                               *)

ChannelCost(action) == IF action \in ContactActions \ {"WAIT_FOR_PROMISE_TO_PAY"} THEN 25 ELSE 0

OperationalCost(action) ==
    CASE action \in RetryActions \cup {"REQUEST_PAYMENT_METHOD_UPDATE"} -> 35
      [] action \in {"SEND_PAYMENT_LINK", "SEND_CHECKOUT_RECOVERY_LINK"} -> 45
      [] action = "SUGGEST_ALTERNATE_METHOD" -> 30
      [] OTHER -> 0

\* What is lost to fatigue (80 basis points at full fatigue) and to an
\* uncertain diagnosis (50 at no confidence); fatigue and confidence in percent.
FatiguePenalty(ctx, action) ==
    IF action \in ContactActions THEN MulDiv(ctx.amount, (ctx.fatigue * 80 + 50) \div 100, 10000) ELSE 0

RiskPenalty(ctx, action) ==
    IF action = "WAIT" THEN 0
    ELSE MulDiv(ctx.amount, ((100 - Diagnose(ctx.category).confidence) * 50 + 50) \div 100, 10000)

\* objectiveScore.  A merchant with an optimization profile weighs the parts
\* itself (weights in basis points; the contact weight is on the amount).
Score(ctx, gross, nerv, cost, fatigue, risk) ==
    LET w == ctx.merchant.weights IN
    CASE ctx.merchant.objective = "PROFILE" ->
           MulDiv(gross, w.revenue, 10000) + MulDiv(gross - risk, w.retention, 10000)
           - (IF fatigue > 0 THEN MulDiv(ctx.amount, w.contact, 10000) ELSE 0)
           - MulDiv(cost, w.cost, 10000) - MulDiv(fatigue, w.fatigue, 10000)
           - MulDiv(risk, w.risk, 10000)
      [] ctx.merchant.objective = "MINIMIZE_CONTACT" -> nerv - fatigue * 2
      [] ctx.merchant.objective = "MINIMIZE_RECOVERY_COST" -> nerv - cost
      [] ctx.merchant.objective = "MAXIMIZE_RETENTION" -> nerv - risk
      [] ctx.merchant.objective = "BALANCED" -> nerv - (fatigue + risk) \div 2
      [] OTHER -> nerv

\* A candidate of the ranking, given its predicted recovery probability.
Candidate(ctx, action, probability) ==
    LET gross   == MulDiv(ctx.amount, probability - ctx.natural, Scale)
        cost    == ChannelCost(action) + OperationalCost(action)
        fatigue == FatiguePenalty(ctx, action)
        risk    == RiskPenalty(ctx, action)
        nerv    == gross - cost - fatigue - risk
    IN [action |-> action, nerv |-> nerv,
        score |-> Score(ctx, gross, nerv, cost, fatigue, risk)]

\* WAIT is always ranked, at the natural recovery probability.
Ranked(ctx, predicted) ==
    {Candidate(ctx, a, predicted[a]) : a \in DOMAIN predicted \ {"WAIT"}}
        \cup {Candidate(ctx, "WAIT", ctx.natural)}

Before(c, d) ==
    \/ c.score > d.score
    \/ c.score = d.score /\ c.nerv > d.nerv
    \/ c.score = d.score /\ c.nerv = d.nerv /\ NameRank(c.action) < NameRank(d.action)

\* The candidate the order puts first, as the only member of a set.
Selected(ctx, predicted) ==
    {c \in Ranked(ctx, predicted) : \A d \in Ranked(ctx, predicted) \ {c} : Before(c, d)}

-----------------------------------------------------------------------------
(* Economic gate and policy.                                                *)

\* Mutant of Gate: the objective's score is compared, not the value.
Gate_Score(candidate, threshold) ==
    IF candidate.action # "WAIT" /\ candidate.score < threshold THEN "BLOCK" ELSE "ALLOW"

\* WAIT is free; anything else must be worth its cost and the threshold.
Gate(candidate, threshold) ==
    IF candidate.action # "WAIT" /\ (candidate.nerv < 0 \/ candidate.nerv < threshold)
    THEN "BLOCK" ELSE "ALLOW"

\* Policy reads the merchant's local clock and counts all contacts, or all
\* retries, for its intervals; an empty list of actions allows every action.
StopReasons(ctx, t) ==
    {r \in {"PAYMENT_ALREADY_RECOVERED", "TERMINAL_CASE_STATE", "SUBSCRIPTION_CANCELLED",
            "RECOVERY_WINDOW_EXPIRED"} :
       \/ r = "PAYMENT_ALREADY_RECOVERED" /\ ctx.recovered
       \/ r = "TERMINAL_CASE_STATE" /\ ctx.terminal
       \/ r = "SUBSCRIPTION_CANCELLED" /\ ctx.cancelled
       \/ r = "RECOVERY_WINDOW_EXPIRED" /\ ctx.deadline <= t}

RetryDenials(ctx, t) ==
    LET m == ctx.merchant IN
    (IF Cardinality(Of(ctx.recent, RetryActions)) >= m.maxRetries THEN {"MAX_RETRIES"} ELSE {})
    \cup (IF Diagnose(ctx.category).recoverability = "NON_RECOVERABLE"
          THEN {"KNOWN_PERMANENT_FAILURE"} ELSE {})
    \cup (IF Cooling(ctx.recent, RetryActions, m.interval, t) THEN {"RETRY_COOLDOWN"} ELSE {})
    \cup (IF ctx.mandate \in {"REVOKED", "FAILED"} THEN {"MANDATE_INVALID"} ELSE {})
    \cup (IF ctx.category = "PAYMENT_METHOD_INVALID" THEN {"PAYMENT_METHOD_INVALID"} ELSE {})

ContactDenials(ctx, t) ==
    LET m == ctx.merchant IN
    (IF m.channels = {} THEN {"CHANNEL_NOT_ALLOWED"} ELSE {})
    \cup (IF ctx.available = {} THEN {"CHANNEL_UNAVAILABLE"} ELSE {})
    \cup (IF ctx.optedOut THEN {"CUSTOMER_OPT_OUT"} ELSE {})
    \cup (IF Cardinality(Within(ctx.recent, ContactActions, DayLength, t)) >= m.maxPerDay
          THEN {"MAX_CONTACTS_PER_DAY"} ELSE {})
    \cup (IF Cardinality(Within(ctx.recent, ContactActions, WeekLength, t)) >= m.maxPerWeek
          THEN {"MAX_CONTACTS_PER_WEEK"} ELSE {})
    \cup (IF Cooling(ctx.recent, ContactActions, m.interval, t) THEN {"MIN_CONTACT_INTERVAL"} ELSE {})
    \cup (IF Quiet(m.quiet, m.offset, t) THEN {"QUIET_HOURS"} ELSE {})

DenyReasons(ctx, candidate, gate, t) ==
    LET a == candidate.action IN
    (IF gate # "ALLOW" THEN {"ECONOMIC_GATE_BLOCKED"} ELSE {})
    \cup (IF ctx.merchant.actions # {} /\ a \notin ctx.merchant.actions
          THEN {"ACTION_NOT_ALLOWED"} ELSE {})
    \cup (IF ctx.promised /\ a \in ContactActions \cup RetryActions
          THEN {"ACTIVE_PROMISE_TO_PAY"} ELSE {})
    \cup (IF a \in RetryActions THEN RetryDenials(ctx, t) ELSE {})
    \cup (IF a \in ContactActions THEN ContactDenials(ctx, t) ELSE {})

Escalates(ctx) ==
    \/ ctx.merchant.highValue > 0 /\ ctx.amount >= ctx.merchant.highValue
    \/ Diagnose(ctx.category).confidence < ctx.merchant.lowConfidence

PolicyDecision(ctx, candidate, gate, t) ==
    IF StopReasons(ctx, t) # {} THEN "STOP"
    ELSE IF DenyReasons(ctx, candidate, gate, t) # {} THEN "DENY"
    ELSE IF Escalates(ctx) THEN "ESCALATE" ELSE "APPROVE"
=============================================================================
