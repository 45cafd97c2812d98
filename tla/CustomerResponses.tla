--------------------------- MODULE CustomerResponses ---------------------------
(***************************************************************************)
(* Customers' responses to one case, from their delivery to what they do.  *)
(* A response is saved, under the lock of the case, with all it does to    *)
(* the case; the promise of a PROMISE_TO_PAY response is created in a      *)
(* second transaction, by the request that saved it.  A client repeats a   *)
(* response until it is answered with success; the repetition is known by  *)
(* its correlation id and does nothing.                                    *)
(*                                                                         *)
(* The workflow (module RecoveryWorkflow) and the settling of promises     *)
(* (module PromiseLifecycle) appear as steps of the environment.           *)
(***************************************************************************)
EXTENDS Integers, FiniteSets

CONSTANTS
    Desks,       \* API requests in flight
    Replies,     \* correlation ids
    ReplyType(_),
    Clear(_),    \* a promise whose text or date can be understood
    MaxWaits     \* bounds the waits of the case

ReplyTypes ==
    {"ACKNOWLEDGEMENT", "INTENT_TO_PAY", "PROMISE_TO_PAY", "OPT_OUT", "PAYMENT_METHOD_ISSUE", "UNRESOLVED"}

ASSUME RepliesAssumption ==
    /\ MaxWaits \in Nat
    /\ \A r \in Replies : ReplyType(r) \in ReplyTypes /\ Clear(r) \in BOOLEAN

VARIABLES
    waiting,     \* the case is WAITING_OUTCOME
    waits,       \* its waits so far
    optedOut,    \* customers.opted_out
    saved,       \* customer_responses
    promiseOf,   \* promises_to_pay.status by source_response_id, "NONE" without a row
    otherActive, \* a promise made through the promise API is ACTIVE
    desk,        \* the request each desk handles
    heard,       \* the replies whose client has been answered with success
    endedBy,     \* history: the waits each reply ended
    dropped      \* history: the promise replies refused, or lost with their desk

responseVars ==
    <<waiting, waits, optedOut, saved, promiseOf, otherActive, desk, heard, endedBy, dropped>>

FreeDesk == [pc |-> "free"]

ResponsesInit ==
    /\ waiting = FALSE /\ waits = 0
    /\ optedOut = FALSE
    /\ saved = {}
    /\ promiseOf = [r \in Replies |-> "NONE"]
    /\ otherActive = FALSE
    /\ desk = [d \in Desks |-> FreeDesk]
    /\ heard = {}
    /\ endedBy = [r \in Replies |-> {}]
    /\ dropped = {}

\* The wait ends for a decision; a promise holds it, an acknowledgement does
\* not touch it.
EndsWait(r) == waiting /\ ReplyType(r) \notin {"ACKNOWLEDGEMENT", "PROMISE_TO_PAY"}

Serve(d, r, pc) ==
    /\ desk[d] = FreeDesk
    /\ r \notin heard
    /\ desk' = [desk EXCEPT ![d] = [pc |-> pc, reply |-> r]]

\* Mutant of Known: the correlation id of an earlier delivery is not looked at.
Known_Never(r) == FALSE

Known(r) == r \in saved

\* SaveCustomerResponse, of a correlation id that is new.
SaveResponse(d, r) ==
    /\ ~Known(r)
    /\ Serve(d, r, IF ReplyType(r) = "PROMISE_TO_PAY" THEN "promising" ELSE "done")
    /\ saved' = saved \cup {r}
    /\ optedOut' = (optedOut \/ ReplyType(r) = "OPT_OUT")
    /\ waiting' = (waiting /\ ~EndsWait(r))
    /\ endedBy' = IF EndsWait(r) THEN [endedBy EXCEPT ![r] = @ \cup {waits}] ELSE endedBy
    /\ UNCHANGED <<waits, promiseOf, otherActive, heard, dropped>>

\* SaveCustomerResponse, of one that has a row: nothing else is done.
RepeatResponse(d, r) ==
    /\ Known(r)
    /\ Serve(d, r, "done")
    /\ UNCHANGED <<waiting, waits, optedOut, saved, promiseOf, otherActive, heard, endedBy, dropped>>

ActivePromise == otherActive \/ \E r \in Replies : promiseOf[r] = "ACTIVE"

\* CreateFromResponse: the row is the reply's, and the only active one.
CreateFromResponse(d) ==
    /\ desk[d].pc = "promising"
    /\ Clear(desk[d].reply) /\ ~ActivePromise
    /\ promiseOf[desk[d].reply] = "NONE"
    /\ promiseOf' = [promiseOf EXCEPT ![desk[d].reply] = "ACTIVE"]
    /\ desk' = [desk EXCEPT ![d].pc = "done"]
    /\ UNCHANGED <<waiting, waits, optedOut, saved, otherActive, heard, endedBy, dropped>>

\* Mutant of RefusePromise: the refusal is not told to anybody.
RefusePromise_Silent(d) ==
    /\ desk[d].pc = "promising"
    /\ ~Clear(desk[d].reply) \/ ActivePromise
    /\ desk' = [desk EXCEPT ![d].pc = "done"]
    /\ UNCHANGED <<waiting, waits, optedOut, saved, promiseOf, otherActive, heard, endedBy, dropped>>

\* The text is not understood, or one_active_promise_per_case_idx refuses the
\* row; the client gets an error for a response that stays saved.
RefusePromise(d) ==
    /\ desk[d].pc = "promising"
    /\ ~Clear(desk[d].reply) \/ ActivePromise
    /\ desk' = [desk EXCEPT ![d] = FreeDesk]
    /\ dropped' = dropped \cup {desk[d].reply}
    /\ UNCHANGED <<waiting, waits, optedOut, saved, promiseOf, otherActive, heard, endedBy>>

AnswerResponse(d) ==
    /\ desk[d].pc = "done"
    /\ heard' = heard \cup {desk[d].reply}
    /\ desk' = [desk EXCEPT ![d] = FreeDesk]
    /\ UNCHANGED <<waiting, waits, optedOut, saved, promiseOf, otherActive, endedBy, dropped>>

\* The request is lost, before or after its promise.
LoseDesk(d) ==
    /\ desk[d] # FreeDesk
    /\ desk' = [desk EXCEPT ![d] = FreeDesk]
    /\ dropped' = IF desk[d].pc = "promising" THEN dropped \cup {desk[d].reply} ELSE dropped
    /\ UNCHANGED <<waiting, waits, optedOut, saved, promiseOf, otherActive, heard, endedBy>>

\* The workflow takes the case to its next wait, or ends one.
BeginWait ==
    /\ ~waiting /\ waits < MaxWaits
    /\ waiting' = TRUE /\ waits' = waits + 1
    /\ UNCHANGED <<optedOut, saved, promiseOf, otherActive, desk, heard, endedBy, dropped>>

ObserveWait ==
    /\ waiting
    /\ waiting' = FALSE
    /\ UNCHANGED <<waits, optedOut, saved, promiseOf, otherActive, desk, heard, endedBy, dropped>>

PromiseByAPI ==
    /\ ~ActivePromise
    /\ otherActive' = TRUE
    /\ UNCHANGED <<waiting, waits, optedOut, saved, promiseOf, desk, heard, endedBy, dropped>>

SettlePromise ==
    /\ ActivePromise
    /\ otherActive' = FALSE
    /\ promiseOf' = [r \in Replies |-> IF promiseOf[r] = "ACTIVE" THEN "SETTLED" ELSE promiseOf[r]]
    /\ UNCHANGED <<waiting, waits, optedOut, saved, desk, heard, endedBy, dropped>>

ResponsesNext ==
    \/ \E d \in Desks :
         \/ \E r \in Replies : SaveResponse(d, r) \/ RepeatResponse(d, r)
         \/ CreateFromResponse(d) \/ RefusePromise(d) \/ AnswerResponse(d) \/ LoseDesk(d)
    \/ BeginWait \/ ObserveWait \/ PromiseByAPI \/ SettlePromise

ResponsesSpec == ResponsesInit /\ [][ResponsesNext]_responseVars
=============================================================================
