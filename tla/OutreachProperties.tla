-------------------------- MODULE OutreachProperties --------------------------
(***************************************************************************)
(* What DecisionRules and Outreach guarantee together: the limits a        *)
(* merchant sets hold for what really goes out, although they are counted  *)
(* when a row is created and checked before it is sent.                    *)
(***************************************************************************)
EXTENDS Outreach, FiniteSetsExt

Times == 0 .. MaxTime

RowType ==
    [type : Actions \cup {"NONE"}, at : Times \cup {NoTime}, due : Nat \cup {NoTime},
     status : {"NONE", "PENDING", "CLAIMED", "EXECUTING", "RETRY_PENDING", "OBSERVATION_PENDING",
               "OBSERVED", "FAILED", "SUPERSEDED"},
     recorded : {"NONE", "SCHEDULED", "EXECUTED", "FAILED"}, attempt : Nat, human : BOOLEAN,
     nerv : Int, sentAt : Times \cup {NoTime},
     links : Nat, saved : BOOLEAN]

\* Every variable has its type, a row in the hands of the worker is in an
\* attempt, and only rows of this case's type of leak exist.
TypeOK ==
    /\ now \in Times /\ facts \in Facts /\ merchant \in Merchants /\ policies \in Nat
    /\ caseState \in Terminal \cup {"ACTION_PENDING", "ESCALATED", "SCHEDULED", "EXECUTING",
                                    "WAITING_OUTCOME"}
    /\ optedOutAt \in Times \cup {NoTime} /\ promisedAt \in Times \cup {NoTime}
    /\ rows \in [Rows -> RowType]
    /\ work.row \in Rows \cup {0}
    /\ work # NoWork => rows[work.row].status \in {"CLAIMED", "EXECUTING"}
    /\ \A i \in Rows : rows[i].status # "NONE" => Compatible(facts.leak, rows[i].type)

-----------------------------------------------------------------------------
Sent(kinds) == {i \in Rows : rows[i].type \in kinds /\ rows[i].sentAt # NoTime}

\* What the versions of the merchant's policy allow.
DailyLimits == {m.maxPerDay : m \in Merchants}
WeeklyLimits == {m.maxPerWeek : m \in Merchants}
RetryLimits == {m.maxRetries : m \in Merchants}

\* The contacts sent within 24 hours, or within a week, exceed the merchant's
\* limit by one at most.  By one they can: contacts count from the creation of
\* their row, so that one which a worker sends late has left the window when
\* the next is decided.  Failed attempts that reached the customer count.
ContactCap ==
    \A t \in Times :
       /\ Cardinality({i \in Sent(ContactActions) : rows[i].sentAt \in t .. t + DayLength})
             <= Max(DailyLimits) + 1
       /\ Cardinality({i \in Sent(ContactActions) : rows[i].sentAt \in t .. t + WeekLength})
             <= Max(WeeklyLimits) + 1

\* Retries are never requested more often than the merchant's limit, however
\* many attempts fail, decisions repeat or policies change.
RetryCap == Cardinality(Sent(RetryActions)) <= Max(RetryLimits)

\* Once the customer has opted out, or while a promise is active, nothing
\* more is sent, however long ago it was decided: what goes out in the same
\* tick had passed the worker's check before.
StandsDown ==
    /\ \A i \in Sent(ContactActions) : optedOutAt # NoTime => rows[i].sentAt <= optedOutAt
    /\ \A i \in Sent(ContactActions \cup RetryActions) : promisedAt # NoTime =>
          rows[i].sentAt <= promisedAt

\* The two places that know the merchant's rules agree: what eligibility lets
\* pass and the optimizer selects is denied by policy for these reasons only.
\* Policy alone knows the gate, permanent failures, intervals between actions
\* of different types, and the merchant's own clock; and only policy wants
\* WAIT to be among the merchant's actions.
DenialsExplained ==
    caseState = "ACTION_PENDING" =>
       \A e \in Evaluations :
          /\ e.denials \subseteq {"ECONOMIC_GATE_BLOCKED", "KNOWN_PERMANENT_FAILURE", "RETRY_COOLDOWN",
                                  "MIN_CONTACT_INTERVAL", "QUIET_HOURS", "ACTION_NOT_ALLOWED"}
          /\ "ACTION_NOT_ALLOWED" \in e.denials => e.candidate.action = "WAIT"
          /\ "QUIET_HOURS" \in e.denials => merchant.offset # 0

\* Nothing is scheduled at a loss, whatever the objective or the weights of
\* the merchant's profile rank first.
WorthIt == \A i \in Rows : rows[i].status # "NONE" => rows[i].nerv >= 0

\* Once the reference of a payment link is stored, no attempt of its row
\* creates another link.
LinkIsReused ==
    [][\A i \in Rows : rows[i].saved => rows'[i].saved /\ rows'[i].links = rows[i].links]_vars
=============================================================================
