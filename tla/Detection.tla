------------------------------- MODULE Detection -------------------------------
(***************************************************************************)
(* How a revenue risk becomes a recovery case.  Risks are reported by      *)
(* checkout events, by normalized subscription events, and by signed       *)
(* webhooks of the payment provider.  A report is handled in transactions  *)
(* of its own, between which the handler holds what it read: the checkout  *)
(* session is loaded, changed in memory and written back; the case of the  *)
(* source is looked up and, when there is none, created; a webhook's row   *)
(* is reserved before all this and marked after it.                        *)
(*                                                                         *)
(* A source is a checkout or a subscription.  A merchant stands for what a *)
(* CHECKOUT_STARTED alone can set: merchant, customer, amount, currency.   *)
(***************************************************************************)
EXTENDS Integers, FiniteSets

CONSTANTS
    Handlers,      \* API requests in flight
    Shops,         \* merchants
    Checkouts, Subscriptions,  \* sources
    RiskEvents,    \* webhook event ids
    RiskOf(_),     \* what a webhook reports: a risk, or Unusable
    Window,        \* default length of a checkout and of a recovery window
    MaxTime,       \* bounds the clock
    MaxReports,    \* bounds the reports that are taken up
    NoRisk, Unusable, NoCase, NoSession

Sources == Checkouts \cup Subscriptions

Risks == [shop : Shops, source : Sources, deadline : Nat]

Sessions == [shop : Shops, until : Nat]

\* A webhook's risk is about a subscription, or a payment without one.
ASSUME DetectionAssumption ==
    /\ Checkouts \cap Subscriptions = {}
    /\ Window \in Nat \ {0} /\ MaxTime \in Nat /\ MaxReports \in Nat
    /\ \A e \in RiskEvents :
         RiskOf(e) # Unusable => RiskOf(e) \in Risks /\ RiskOf(e).source \in Subscriptions
    /\ NoCase \notin Nat /\ NoSession \notin Sessions /\ NoRisk \notin RiskEvents

VARIABLES
    cases,     \* recovery_cases: the deadline of the case of a shop's source
    sessions,  \* checkout_sessions
    riskEvent, \* webhook_events.status, "absent" before the insert
    report,    \* the report each handler works on
    now,
    reports,   \* reports taken up so far
    lastStart, \* history: valid_until of the last start saved, per checkout
    mixed      \* history: the checkouts two handlers ever held at once

startVars == <<lastStart, mixed>>
detectionVars == <<cases, sessions, riskEvent, report, now, reports, startVars>>

Free == [pc |-> "free"]

\* A handler's report once its risk is known; event is the webhook's id.
Looking(pc, risk, event) == [pc |-> pc, risk |-> risk, event |-> event]

DetectionInit ==
    /\ cases = [s \in Shops \X Sources |-> NoCase]
    /\ sessions = [c \in Checkouts |-> NoSession]
    /\ riskEvent = [e \in RiskEvents |-> "absent"]
    /\ report = [h \in Handlers |-> Free]
    /\ now = 0 /\ reports = 0
    /\ lastStart = [c \in Checkouts |-> NoSession]
    /\ mixed = {}

TakeUp(h) ==
    /\ report[h] = Free
    /\ reports < MaxReports
    /\ reports' = reports + 1

Set(h, r) == report' = [report EXCEPT ![h] = r]

-----------------------------------------------------------------------------
(* Checkout events.                                                         *)

Hold(c) ==
    mixed' = IF \E g \in Handlers : report[g].pc = "loaded" /\ report[g].checkout = c
             THEN mixed \cup {c} ELSE mixed

\* A start carries the whole session.  Its valid_until may be later than the
\* default, when the shop redelivers a start to extend the checkout.
StartCheckout(h, c, shop, until) ==
    /\ TakeUp(h)
    /\ Set(h, [pc |-> "loaded", checkout |-> c, kind |-> "STARTED", at |-> now,
               session |-> [shop |-> shop, until |-> until]])
    /\ Hold(c)
    /\ UNCHANGED <<cases, sessions, riskEvent, now, lastStart>>

\* Any other event is about a session that must exist.  at is when it
\* happened, perhaps before it was delivered.
ContinueCheckout(h, c, kind, at) ==
    /\ TakeUp(h)
    /\ sessions[c] # NoSession
    /\ Set(h, [pc |-> "loaded", checkout |-> c, kind |-> kind, at |-> at, session |-> sessions[c]])
    /\ Hold(c)
    /\ UNCHANGED <<cases, sessions, riskEvent, now, lastStart>>

\* Mutants of Upserted: every column is taken from the event; none is.
Upserted_EveryColumn(c, session) == session

Upserted_Nothing(c, session) == IF sessions[c] = NoSession THEN session ELSE sessions[c]

\* ON CONFLICT leaves merchant, customer, amount and currency as they were.
Upserted(c, session) ==
    IF sessions[c] = NoSession THEN session ELSE [sessions[c] EXCEPT !.until = session.until]

\* The session is written; a failure or an abandonment that happened before
\* the session in memory expired is a risk, with that session's merchant.
SaveCheckout(h) ==
    LET r == report[h]
        risk == [shop |-> r.session.shop, source |-> r.checkout, deadline |-> r.session.until]
    IN /\ r.pc = "loaded"
       /\ sessions' = [sessions EXCEPT ![r.checkout] = Upserted(r.checkout, r.session)]
       /\ Set(h, IF r.kind \in {"FAILED", "ABANDONED"} /\ r.at < r.session.until
                 THEN Looking("looking", risk, NoRisk) ELSE Free)
       /\ lastStart' = IF r.kind = "STARTED" THEN [lastStart EXCEPT ![r.checkout] = r.session.until] ELSE lastStart
       /\ UNCHANGED <<cases, riskEvent, now, reports, mixed>>

-----------------------------------------------------------------------------
(* Subscription events and webhooks.                                        *)

ReportSubscription(h, shop, s, at) ==
    /\ TakeUp(h)
    /\ Set(h, Looking("looking", [shop |-> shop, source |-> s, deadline |-> at + Window], NoRisk))
    /\ UNCHANGED <<cases, sessions, riskEvent, now, startVars>>

\* The event id is reserved.  An event without notes, or one that reports a
\* success, ends as a failure.  A duplicate is answered and changes nothing.
ReserveRisk(h, e) ==
    /\ TakeUp(h)
    /\ riskEvent[e] = "absent"
    /\ riskEvent' = [riskEvent EXCEPT ![e] = "RECEIVED"]
    /\ Set(h, IF RiskOf(e) = Unusable THEN Looking("failed", NoRisk, e)
              ELSE Looking("looking", RiskOf(e), e))
    /\ UNCHANGED <<cases, sessions, now, startVars>>

-----------------------------------------------------------------------------
(* From a risk to a case.                                                   *)

Key(h) == <<report[h].risk.shop, report[h].risk.source>>

\* GetCaseBySource: the case is returned in whatever state it is, closed ones
\* included.
LookUpCase(h) ==
    /\ report[h].pc = "looking"
    /\ Set(h, [report[h] EXCEPT !.pc = IF cases[Key(h)] # NoCase THEN "found" ELSE "missing"])
    /\ UNCHANGED <<cases, sessions, riskEvent, now, reports, startVars>>

\* Mutant of Creatable: UNIQUE(merchant_id, source_reference) is not there.
Creatable_NotUnique(h) == report[h].risk.deadline > now

Creatable(h) == report[h].risk.deadline > now /\ cases[Key(h)] = NoCase

\* The unique key refuses the second of two concurrent creations, and the
\* service a deadline that is not ahead; both are errors to the reporter.
CreateCase(h) ==
    /\ report[h].pc = "missing"
    /\ IF Creatable(h)
       THEN /\ cases' = [cases EXCEPT ![Key(h)] = report[h].risk.deadline]
            /\ Set(h, [report[h] EXCEPT !.pc = "found"])
       ELSE /\ Set(h, [report[h] EXCEPT !.pc = "failed"])
            /\ UNCHANGED cases
    /\ UNCHANGED <<sessions, riskEvent, now, reports, startVars>>

\* Mutant of Mark: the mark does not depend on the outcome.
Mark_Always(pc) == "PROCESSED"

Mark(pc) == IF pc = "found" THEN "PROCESSED" ELSE "FAILED"

\* The webhook is marked and the reporter answered.
AnswerReport(h) ==
    /\ report[h].pc \in {"found", "failed"}
    /\ riskEvent' = IF report[h].event = NoRisk THEN riskEvent
                    ELSE [riskEvent EXCEPT ![report[h].event] = Mark(report[h].pc)]
    /\ Set(h, Free)
    /\ UNCHANGED <<cases, sessions, now, reports, startVars>>

\* The process dies, or the mark fails.
LoseReport(h) ==
    /\ report[h] # Free
    /\ Set(h, Free)
    /\ UNCHANGED <<cases, sessions, riskEvent, now, reports, startVars>>

PassTime ==
    /\ now < MaxTime
    /\ now' = now + 1
    /\ UNCHANGED <<cases, sessions, riskEvent, report, reports, startVars>>

DetectionNext ==
    \/ \E h \in Handlers :
         \/ \E c \in Checkouts :
              \/ \E shop \in Shops, extra \in {0, 1} : StartCheckout(h, c, shop, now + Window + extra)
              \/ \E kind \in {"SELECTED", "FAILED", "ABANDONED"}, at \in 0 .. now :
                    ContinueCheckout(h, c, kind, at)
         \/ \E shop \in Shops, s \in Subscriptions, at \in 0 .. now : ReportSubscription(h, shop, s, at)
         \/ \E e \in RiskEvents : ReserveRisk(h, e)
         \/ SaveCheckout(h) \/ LookUpCase(h) \/ CreateCase(h) \/ AnswerReport(h) \/ LoseReport(h)
    \/ PassTime

DetectionSpec == DetectionInit /\ [][DetectionNext]_detectionVars
=============================================================================
