----------------------------- MODULE MCApiServices -----------------------------
(***************************************************************************)
(* An instance of the services beside the workflow: two requests in flight *)
(* at each of them, two merchants, a checkout, a subscription with a       *)
(* webhook, three responses, two models of one type and a portfolio of up  *)
(* to four cases.                                                          *)
(***************************************************************************)
EXTENDS ServiceProperties, TLC

CONSTANTS c1, c2, m1, m2, shop1, shop2, cart, plan, e1, e2, r1, r2, r3

\* One webhook reports a failure of the plan, the other one a success.
RiskOfEvent(e) == IF e = e1 THEN [shop |-> shop1, source |-> plan, deadline |-> 2] ELSE Unusable

\* Two promises, one that cannot be understood, and a method issue.
TypeOfReply(r) == IF r = r3 THEN "PAYMENT_METHOD_ISSUE" ELSE "PROMISE_TO_PAY"

ClearReply(r) == r # r2

OneType == [m \in Models |-> "retry"]

\* Clients are alike, and so are models.
Alike == Permutations(Callers) \cup Permutations(Models)

Candidate(case, action, nerv, hours, recoverability, arrival) ==
    [case |-> case, action |-> action, nerv |-> nerv, hours |-> hours,
     recoverability |-> recoverability, arrival |-> arrival]

\* Urgency and recoverability turn the order of the net values around, the
\* oldest case is not the most valuable one, and a decision may have left a
\* negative value or a free action first.
SmallPortfolio ==
    {Candidate(1, "SEND_REMINDER", 400, 48, 9000, 2),
     Candidate(1, "RETRY_NOW", 700, 6, 12000, 2),
     Candidate(1, "WAIT", 0, 48, 5000, 2),
     Candidate(2, "SEND_REMINDER", 300, 1, 9000, 3),
     Candidate(2, "RETENTION_ACTION", 900, 24, 9000, 3),
     Candidate(3, "SEND_PAYMENT_LINK", 900, 1, 500, 1),
     Candidate(3, "SEND_REMINDER", -40, 6, 9000, 1),
     Candidate(3, "ESCALATE_TO_HUMAN", 500, 24, -5, 1),
     Candidate(4, "SEND_PAYMENT_LINK", 1000, 48, 9000, 2),
     Candidate(4, "RETRY_LATER", 200, 6, 9000, 2)}

Limits(spend, contacts, retries, discount, reviews) ==
    [k \in Kinds |-> CASE k = "spend" -> spend [] k = "contacts" -> contacts
                       [] k = "retries" -> retries [] k = "discount" -> discount
                       [] k = "reviews" -> reviews]

SomeLimits ==
    {Limits(95, 2, 1, 3000, 1), Limits(140, 1, 2, 0, 0), Limits(1000, 3, 0, 2999, 1), Limits(0, 0, 0, 0, 0)}
=============================================================================
