----------------------------- MODULE MCOutreach -----------------------------
(***************************************************************************)
(* A TLC instance of Outreach: two ticks a day, a week of three, amounts   *)
(* of a few hundred minor units and probabilities in thousandths.          *)
(***************************************************************************)
EXTENDS OutreachProperties

Case(leak, category, deadline) ==
    [leak |-> leak, category |-> category, amount |-> 1000, natural |-> 200, fatigue |-> 50,
     mandate |-> "ACTIVE", deadline |-> deadline, cancelled |-> FALSE]

SomeFacts == {Case("FAILED_SUBSCRIPTION", "INSUFFICIENT_FUNDS", 3),
              Case("FAILED_SUBSCRIPTION", "HARD_DECLINE", 1),
              Case("CHECKOUT_ABANDONMENT", "UNKNOWN_ABANDONMENT", 4)}

NoWeights == [revenue |-> 0, retention |-> 0, contact |-> 0, cost |-> 0, fatigue |-> 0, risk |-> 0]

\* Two kinds of each action and a long interval.
Careful == [channels |-> {"EMAIL"}, available |-> {"EMAIL"},
            actions |-> {"RETRY_NOW", "RETRY_LATER", "SEND_PAYMENT_LINK", "SEND_CHECKOUT_RECOVERY_LINK"},
            maxRetries |-> 2, maxPerDay |-> 1, maxPerWeek |-> 2, interval |-> 4,
            quiet |-> [set |-> FALSE, from |-> 0, until |-> 0], offset |-> 0,
            objective |-> "MAXIMIZE_REVENUE", weights |-> NoWeights, threshold |-> 10,
            highValue |-> 0, lowConfidence |-> 0]

\* No interval, approval of high values, and a profile that may rank a
\* loss first.
Profiled == [Careful EXCEPT !.actions = {"WAIT", "SEND_PAYMENT_LINK"}, !.interval = 0,
                            !.objective = "PROFILE", !.highValue = 1000,
                            !.weights = [NoWeights EXCEPT !.revenue = 5000, !.retention = 5000]]

\* Quiet from tick 1 of its own day, which begins a tick before UTC's.
Abroad == [Profiled EXCEPT !.actions = {"SEND_PAYMENT_LINK"}, !.offset = 1,
                           !.quiet = [set |-> TRUE, from |-> 1, until |-> 0]]

SomeMerchants == {Careful, Profiled, Abroad}
TwoLevels == {210, 900}
=============================================================================
