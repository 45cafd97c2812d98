-------------------------- MODULE ServiceProperties --------------------------
(***************************************************************************)
(* What the services beside the workflow promise.                          *)
(***************************************************************************)
EXTENDS ApiServices

-----------------------------------------------------------------------------
(* Types.                                                                   *)

DetectionTypeOK ==
    /\ cases \in [Shops \X Sources -> Nat \cup {NoCase}]
    /\ sessions \in [Checkouts -> Sessions \cup {NoSession}]
    /\ riskEvent \in [RiskEvents -> {"absent", "RECEIVED", "PROCESSED", "FAILED"}]

ResponsesTypeOK ==
    /\ heard \subseteq saved /\ saved \subseteq Replies /\ waits \in 0 .. MaxWaits
    /\ promiseOf \in [Replies -> {"NONE", "ACTIVE", "SETTLED"}]

RegistryTypeOK ==
    /\ statusEvents \subseteq [entry : Models, status : Statuses, stamp : Nat, done : Nat]
    /\ \A v, w \in statusEvents : v.entry = w.entry /\ v.stamp = w.stamp => v = w
    /\ \A c \in Callers :
         ~Idle(c) => /\ transition[c].entry \in Models /\ transition[c].to \in Statuses
                     /\ transition[c].stamp < ticks

ProfilesTypeOK ==
    /\ profiles \in [Merchants -> SUBSET [version : Nat \ {0}, author : Editors]]
    /\ refused \subseteq Editors

BudgetTypeOK ==
    \A run \in budgetRuns :
        /\ run.algorithm \in Algorithms /\ run.limits \in LimitChoices
        /\ run.totals \in [Kinds -> Nat]
        /\ run.included \subseteq DOMAIN run.ordered

\* The rows of every service have their type; a client only hears of responses
\* that are saved, and a registry entry has one event per stamp.
TypeOK == DetectionTypeOK /\ ResponsesTypeOK /\ RegistryTypeOK /\ ProfilesTypeOK /\ BudgetTypeOK

-----------------------------------------------------------------------------
(* Detection.                                                               *)

\* A checkout has one case, for the merchant that started it first, whatever
\* starts are delivered for it later: the merchant is part of the unique key
\* of a case, so two merchants would be two cases (UpsertCheckout, CreateCase).
OneCasePerCheckout ==
    \A c \in Checkouts, shop \in Shops :
        cases[<<shop, c>>] # NoCase => sessions[c] # NoSession /\ sessions[c].shop = shop

\* No later report, and no second creation that raced the first, replaces a
\* case or moves its deadline (Detect, CreateCase).
CaseKept ==
    [][\A k \in Shops \X Sources : cases[k] # NoCase => cases'[k] = cases[k]]_detectionVars

\* A webhook marked PROCESSED has its case: what is not in a case can still be
\* told by its status (Ingest, finish).
ProcessedHasCase ==
    \A e \in RiskEvents : riskEvent[e] = "PROCESSED" =>
        RiskOf(e) # Unusable /\ cases[<<RiskOf(e).shop, RiskOf(e).source>>] # NoCase

\* A checkout that no two handlers held at once is valid until what the last
\* start said: the other events write back what they loaded (Normalize,
\* UpsertCheckout).
SessionKept ==
    \A c \in Checkouts \ mixed : sessions[c] # NoSession => sessions[c].until = lastStart[c]

-----------------------------------------------------------------------------
(* Customers' responses.                                                    *)

\* A response ends one wait at most, however often it is delivered, and a
\* promise or an acknowledgement ends none (SaveCustomerResponse).
ResponseActsOnce ==
    \A r \in Replies : endedBy[r] # {} =>
        /\ Cardinality(endedBy[r]) = 1 /\ r \in saved
        /\ ReplyType(r) \notin {"ACKNOWLEDGEMENT", "PROMISE_TO_PAY"}

\* A saved promise reply has its promise, or a request at work on it, unless
\* it was refused or its request was lost; no promise is without its reply and
\* no two are active (Ingest and CreatePromise are two transactions).
PromiseReplyKept ==
    /\ \A r \in saved : ReplyType(r) = "PROMISE_TO_PAY" =>
         \/ promiseOf[r] # "NONE" \/ r \in dropped
         \/ \E d \in Desks : desk[d].pc = "promising" /\ desk[d].reply = r
    /\ \A r \in Replies : promiseOf[r] # "NONE" => r \in saved /\ ReplyType(r) = "PROMISE_TO_PAY"
    /\ \A r, q \in Replies : promiseOf[r] = "ACTIVE" /\ promiseOf[q] = "ACTIVE" => r = q

-----------------------------------------------------------------------------
(* Model registry.                                                          *)

Overlap(v, w) == v.stamp < w.done /\ w.stamp < v.done

Latest(m) == CHOOSE v \in EventsOf(m) : \A w \in EventsOf(m) : w.stamp <= v.stamp

\* An activation retires the model of its type that was active before it:
\* two models of a type are active only when the requests that made them so
\* overlapped (store/model_registry.go's scan and its RETIRED events).
OneActive ==
    \A m, n \in {k \in Models : Registered(k) /\ Status(k) = "ACTIVE"} :
        m # n /\ TypeOf[m] = TypeOf[n] => Overlap(Latest(m), Latest(n))

\* The moves a model's life cycle allows.
LifeCycle ==
    {<<"CANDIDATE", "APPROVED">>, <<"CANDIDATE", "REJECTED">>, <<"APPROVED", "ACTIVE">>,
     <<"APPROVED", "REJECTED">>, <<"ACTIVE", "RETIRED">>}

\* The status of a model moves along its life cycle, whoever wrote its events,
\* unless some of the requests that wrote them overlapped (the
\* status the transaction decides by was read before it held the lock).
SequentialHistory ==
    \A m \in Models :
        (\A v, w \in EventsOf(m) : v # w => ~Overlap(v, w)) =>
            \A v \in EventsOf(m) : v.status # "CANDIDATE" =>
                \E u \in EventsOf(m) :
                    /\ u.stamp < v.stamp /\ <<u.status, v.status>> \in LifeCycle
                    /\ \A w \in EventsOf(m) : ~(u.stamp < w.stamp /\ w.stamp < v.stamp)

-----------------------------------------------------------------------------
(* Merchant profiles.                                                       *)

\* The profiles of a merchant are numbered without a gap, each one by one
\* request, and no request fails because another took its number
\* (store/merchant_profiles.go locks the merchant before it numbers).
ProfilesNumbered ==
    /\ \A m \in Merchants : Versions(m) = 1 .. Cardinality(profiles[m])
    /\ refused = {}

-----------------------------------------------------------------------------
(* Budget allocation.                                                       *)

UsesOf(run, i) == Resources(run.ordered[i].action)

Charge(run, i, k) == IF i \in run.included THEN UsesOf(run, i)[k] ELSE 0

\* What the items a run includes use of a kind, added up along its order.
Spent(run, k) ==
    LET sum[i \in 0 .. Len(run.ordered)] == IF i = 0 THEN 0 ELSE sum[i - 1] + Charge(run, i, k)
    IN sum[Len(run.ordered)]

\* What a saved run funds stays within each of the limits the request
\* carried, and its recorded totals are what it funds (budget.go's walk).
BudgetKept ==
    \A run \in budgetRuns, k \in Kinds :
        run.totals[k] = Spent(run, k) /\ Spent(run, k) <= run.limits[k]

\* No money is left on the table: nothing a run excluded would have fitted in
\* beside all that it included, whatever came after it in the order.
NothingFitsLeft ==
    \A run \in budgetRuns : \A i \in DOMAIN run.ordered \ run.included :
        ~Fits(run.totals, UsesOf(run, i), run.limits)

\* What an algorithm prefers: the more valuable case, or the older one.
Better(algorithm, a, b) ==
    IF algorithm = "budget-greedy-v1" THEN a.nerv > b.nerv ELSE a.arrival < b.arrival

\* Between two cases that need the same action, a run never funds the worse
\* one alone: the greedy run by net value and not by urgency, the
\* first-come-first-served run by arrival.
FairAmongEquals ==
    \A run \in budgetRuns : \A i, j \in DOMAIN run.ordered :
        /\ run.ordered[i].action = run.ordered[j].action
        /\ Better(run.algorithm, run.ordered[i], run.ordered[j])
        /\ j \in run.included
        => i \in run.included
=============================================================================
