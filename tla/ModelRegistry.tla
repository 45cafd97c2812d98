----------------------------- MODULE ModelRegistry -----------------------------
(***************************************************************************)
(* The registry of prediction models.  An entry has no status of its own:  *)
(* its status is that of its latest status event, by the time the request  *)
(* that wrote it was received.  A transition is one READ COMMITTED         *)
(* transaction of several statements:                                      *)
(*                                                                         *)
(*   read    the statement's snapshot gives the entry's status, then       *)
(*   lock    FOR UPDATE waits for the entry's row.  Nothing ever updates   *)
(*           the row, so the status is not read again after the wait;      *)
(*   scan    (activations) the other ACTIVE entries of the type;           *)
(*   commit  the events, RETIRED ones first; their foreign key waits for   *)
(*           whoever has locked the entries they name.                     *)
(*                                                                         *)
(* stamp is the time a request was received, which all its events carry;   *)
(* done is when it committed and is kept only to state properties.         *)
(***************************************************************************)
EXTENDS Integers

CONSTANTS
    Callers,  \* the API's clients, one request of each in flight
    Models,   \* registry entries
    TypeOf,   \* model type of an entry
    MaxTicks  \* bounds the requests received and committed

VARIABLES
    statusEvents,  \* model_registry_status_events
    transition,    \* the request each caller has in flight
    ticks          \* the clock; it moves whenever something is stamped

registryVars == <<statusEvents, transition, ticks>>

Statuses == {"CANDIDATE", "APPROVED", "REJECTED", "ACTIVE", "RETIRED"}

NoTransition == [pc |-> "none"]

Idle(c) == transition[c].pc = "none"

EventsOf(m) == {v \in statusEvents : v.entry = m}

Registered(m) == EventsOf(m) # {}

\* The status of an entry: that of its event with the latest stamp.
Status(m) == (CHOOSE v \in EventsOf(m) : \A w \in EventsOf(m) : w.stamp <= v.stamp).status

\* Mutant of Allowed: a rejected model may be approved after all.
Allowed_Revives(from, to) ==
    \/ from \in {"CANDIDATE", "REJECTED"} /\ to \in {"APPROVED", "REJECTED"}
    \/ from = "APPROVED" /\ to \in {"ACTIVE", "REJECTED"}
    \/ from = "ACTIVE" /\ to = "RETIRED"

Allowed(from, to) ==
    \/ from = "CANDIDATE" /\ to \in {"APPROVED", "REJECTED"}
    \/ from = "APPROVED" /\ to \in {"ACTIVE", "REJECTED"}
    \/ from = "ACTIVE" /\ to = "RETIRED"

Locked(m, c) == \E d \in Callers \ {c} : transition[d].pc \in {"locked", "decided"} /\ transition[d].entry = m

RegistryInit ==
    /\ statusEvents = {}
    /\ transition = [c \in Callers |-> NoTransition]
    /\ ticks = 0

-----------------------------------------------------------------------------
\* Registering an entry writes it with its first event.
RegisterModel(m) ==
    /\ ~Registered(m)
    /\ statusEvents' = statusEvents \cup
         {[entry |-> m, status |-> "CANDIDATE", stamp |-> ticks, done |-> ticks]}
    /\ ticks' = ticks + 1
    /\ UNCHANGED transition

\* The service stamps the request before the transaction begins.
ReceiveTransition(c, m, to) ==
    /\ Idle(c) /\ Registered(m)
    /\ ticks < MaxTicks
    /\ transition' = [transition EXCEPT ![c] = [pc |-> "received", entry |-> m, to |-> to, stamp |-> ticks]]
    /\ ticks' = ticks + 1
    /\ UNCHANGED statusEvents

ReadStatus(c) ==
    /\ transition[c].pc = "received"
    /\ transition' = [transition EXCEPT ![c] =
         [pc |-> "read", entry |-> @.entry, to |-> @.to, stamp |-> @.stamp, from |-> Status(@.entry)]]
    /\ UNCHANGED <<statusEvents, ticks>>

Deciding(r, retires) ==
    [pc |-> "decided", entry |-> r.entry, to |-> r.to, stamp |-> r.stamp, retires |-> retires]

\* The lock is granted, and the status of the snapshot decides.  Only an
\* activation has a further statement before it writes.
LockEntry(c) ==
    LET r == transition[c] IN
    /\ r.pc = "read"
    /\ ~Locked(r.entry, c)
    /\ transition' = [transition EXCEPT ![c] =
         IF ~Allowed(r.from, r.to) THEN NoTransition
         ELSE IF r.to = "ACTIVE" THEN [r EXCEPT !.pc = "locked"] ELSE Deciding(r, {})]
    /\ UNCHANGED <<statusEvents, ticks>>

\* Mutant of OthersActive: the active model is left as it is.
OthersActive_Kept(m) == {}

\* Mutant of OthersActive: the entry being activated is not left out.
OthersActive_WithItself(m) ==
    {n \in Models : TypeOf[n] = TypeOf[m] /\ Registered(n) /\ Status(n) = "ACTIVE"}

\* The other entries of the type whose status is ACTIVE.
OthersActive(m) ==
    {n \in Models \ {m} : TypeOf[n] = TypeOf[m] /\ Registered(n) /\ Status(n) = "ACTIVE"}

ScanActive(c) ==
    LET r == transition[c] IN
    /\ r.pc = "locked"
    /\ transition' = [transition EXCEPT ![c] = Deciding(r, OthersActive(r.entry))]
    /\ UNCHANGED <<statusEvents, ticks>>

CommitTransition(c) ==
    LET r == transition[c]
        event(m, status) == [entry |-> m, status |-> status, stamp |-> r.stamp, done |-> ticks]
    IN /\ r.pc = "decided"
       /\ \A m \in r.retires : ~Locked(m, c)
       /\ statusEvents' = statusEvents \cup {event(r.entry, r.to)} \cup {event(m, "RETIRED") : m \in r.retires}
       /\ transition' = [transition EXCEPT ![c] = NoTransition]
       /\ ticks' = ticks + 1

\* The caller's connection, or a deadlock, ends the transaction.
RollbackTransition(c) ==
    /\ ~Idle(c)
    /\ transition' = [transition EXCEPT ![c] = NoTransition]
    /\ UNCHANGED <<statusEvents, ticks>>

RegistryNext ==
    \/ \E m \in Models : RegisterModel(m)
    \/ \E c \in Callers :
         \/ \E m \in Models, to \in Statuses \ {"CANDIDATE"} : ReceiveTransition(c, m, to)
         \/ ReadStatus(c) \/ LockEntry(c) \/ ScanActive(c) \/ CommitTransition(c)
         \/ RollbackTransition(c)

RegistrySpec == RegistryInit /\ [][RegistryNext]_registryVars
=============================================================================
