--------------------------- MODULE MerchantProfiles ---------------------------
(***************************************************************************)
(* A merchant's optimization profiles.  A profile is never changed: every  *)
(* request writes a new one with the merchant's next configuration         *)
(* version, and the highest version is the one in force.  The transaction  *)
(* locks the merchant's row in one statement and reads the highest version *)
(* in the next, which therefore sees what the previous holder committed.   *)
(***************************************************************************)
EXTENDS Integers, FiniteSets

CONSTANTS
    Editors,     \* the API's clients, one request of each in flight
    Merchants,
    MaxProfiles  \* bounds the profiles of a merchant

VARIABLES
    profiles,  \* merchant_optimization_profiles: the versions, per merchant
    draft,     \* the request each caller has in flight
    refused    \* requests the UNIQUE(merchant_id, configuration_version) failed

profileVars == <<profiles, draft, refused>>

NoDraft == [pc |-> "none"]

Versions(m) == {p.version : p \in profiles[m]}

\* The profile a decision context reads.
InForce(m) == {p \in profiles[m] : \A q \in profiles[m] : q.version <= p.version}

ProfilesInit ==
    /\ profiles = [m \in Merchants |-> {}]
    /\ draft = [c \in Editors |-> NoDraft]
    /\ refused = {}

-----------------------------------------------------------------------------
\* A valid request: the profile's weights are the caller's, so the profile
\* is told apart by its author alone.
ReceiveProfile(c, m) ==
    /\ draft[c].pc = "none"
    /\ Cardinality(profiles[m]) < MaxProfiles
    /\ draft' = [draft EXCEPT ![c] = [pc |-> "received", merchant |-> m]]
    /\ UNCHANGED <<profiles, refused>>

\* Mutant of MerchantLocked: the merchant's row is read and not locked.
MerchantLocked_Unlocked(m, c) == FALSE

MerchantLocked(m, c) ==
    \E d \in Editors \ {c} : draft[d].pc \in {"locked", "numbered"} /\ draft[d].merchant = m

LockMerchant(c) ==
    /\ draft[c].pc = "received"
    /\ ~MerchantLocked(draft[c].merchant, c)
    /\ draft' = [draft EXCEPT ![c].pc = "locked"]
    /\ UNCHANGED <<profiles, refused>>

\* COALESCE(MAX(configuration_version),0)+1
NextVersion(m) == (CHOOSE n \in Versions(m) \cup {0} : \A k \in Versions(m) : k <= n) + 1

NumberProfile(c) ==
    /\ draft[c].pc = "locked"
    /\ draft' = [draft EXCEPT ![c] =
         [pc |-> "numbered", merchant |-> @.merchant, version |-> NextVersion(@.merchant)]]
    /\ UNCHANGED <<profiles, refused>>

CommitProfile(c) ==
    LET m == draft[c].merchant IN
    /\ draft[c].pc = "numbered"
    /\ draft' = [draft EXCEPT ![c] = NoDraft]
    /\ IF draft[c].version \in Versions(m)
       THEN refused' = refused \cup {c} /\ UNCHANGED profiles
       ELSE /\ profiles' = [profiles EXCEPT ![m] = @ \cup {[version |-> draft[c].version, author |-> c]}]
            /\ UNCHANGED refused

RollbackProfile(c) ==
    /\ draft[c].pc # "none"
    /\ draft' = [draft EXCEPT ![c] = NoDraft]
    /\ UNCHANGED <<profiles, refused>>

ProfilesNext ==
    \E c \in Editors :
        \/ \E m \in Merchants : ReceiveProfile(c, m)
        \/ LockMerchant(c) \/ NumberProfile(c) \/ CommitProfile(c) \/ RollbackProfile(c)

ProfilesSpec == ProfilesInit /\ [][ProfilesNext]_profileVars
=============================================================================
