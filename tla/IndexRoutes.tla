----------------------------- MODULE IndexRoutes -----------------------------
(***************************************************************************)
(* How a transaction is asked for over HTTP: POST /api/v1/index-requests   *)
(* and POST /api/v1/admin/index (apps/indexer/src/api/routes.ts), the      *)
(* daemon's requestIndex and indexAndWait behind them, its own jobs beside *)
(* them, and the store they answer from.                                   *)
(*                                                                         *)
(* The queue is CoalescedJobs, which WorkQueue implements.  The public     *)
(* route answers in the step that reads its request.  The administrative   *)
(* route waits for the job it made or joined; its answer is sent when that *)
(* job settles.  Malformed and unauthorized requests change nothing and    *)
(* are left out.                                                           *)
(***************************************************************************)
EXTENDS CoalescedJobs, RateLimiter

CONSTANTS
  Requested,    \* the transactions the clients ask for, among all the daemon's
  AdminCalls,   \* the calls of the administrative route under way at once
  Outcomes      \* how jobs end: verification statuses, or "thrown"

ASSUME RoutesAssumption == Requested \subseteq Txids

VARIABLES
  accepts,      \* acceptsExternalIndexRequests(): the daemon runs and does not stop
  activeRows,   \* store: those requested whose row is active
  records,      \* store: those requested with a verification record
  call,         \* call[c]: the state of an administrative call
  told          \* history: those a client was told 200 for, until the daemon
                \*   takes the row back

storeVars == <<activeRows, records>>
routeVars == <<jobVars, limiterVars, accepts, storeVars, call, told>>

Free == [state |-> "free"]
Waiting(t) == [state |-> "waiting", txid |-> t]
Answer(code) == [state |-> "answered", code |-> code]

Init ==
  /\ JobsInit
  /\ LimiterInit
  /\ accepts \in BOOLEAN
  /\ activeRows = {}
  /\ records = {}
  /\ call = [c \in AdminCalls |-> Free]
  /\ told = {}

Live(t) == t \in waiting \cup running
Saturated == slots = 0 /\ room = 0
AlreadyIndexed(t) == t \in activeRows /\ t \in records

(* A request for a job: it joins the one there is, makes one, or finds the *)
(* queue full.                                                             *)
JoinOrSubmit(t) ==
  \/ Live(t) /\ UNCHANGED jobVars
  \/ Submit(t)

(* 202 with already_indexed, queued or already_queued; 503 with            *)
(* INDEXER_NOT_READY or INDEX_QUEUE_FULL; each has used up a request of    *)
(* its address.                                                            *)
PublicRequest(a, t) ==
  /\ LetIn(a)
  /\ IF ~AlreadyIndexed(t) /\ accepts /\ (Live(t) \/ ~Saturated)
       THEN JoinOrSubmit(t)
       ELSE UNCHANGED jobVars
  /\ UNCHANGED <<accepts, storeVars, call, told>>

PublicRefused(a) ==
  /\ Refuse(a)
  /\ UNCHANGED <<jobVars, accepts, storeVars, call, told>>

(* An administrative call is refused, or waits for the job it joins or     *)
(* makes.                                                                  *)
Unavailable(c, t) ==
  /\ ~accepts \/ (~Live(t) /\ Saturated)
  /\ call' = [call EXCEPT ![c] = Answer(503)]
  /\ UNCHANGED jobVars

AdminRequest(c, t) ==
  /\ call[c].state # "waiting"
  /\ \/ Unavailable(c, t)
     \/ /\ accepts
        /\ JoinOrSubmit(t)
        /\ call' = [call EXCEPT ![c] = Waiting(t)]
  /\ UNCHANGED <<limiterVars, accepts, storeVars, told>>

(* mapVerificationResult: the statuses whose result carries the            *)
(* transaction, and those for which a record is made.                      *)
WithTransaction == {"VERIFIED", "VERIFIED_TM1", "UNAUTHORIZED", "NO_MEMO", "INVALID_MEMO",
                    "INVALID_TM1", "MULTIPLE_MEMOS", "MEMPOOL_TIP_REQUIRED",
                    "INVALID_VERIFICATION_CONTEXT"}

(* Mutant: the case of TM1 that is not valid makes no record. *)
WithRecordOfTm0 == {"VERIFIED", "VERIFIED_TM1", "UNAUTHORIZED", "NO_MEMO", "INVALID_MEMO",
                    "MULTIPLE_MEMOS"}

WithRecord == {"VERIFIED", "VERIFIED_TM1", "UNAUTHORIZED", "NO_MEMO", "INVALID_MEMO",
               "INVALID_TM1", "MULTIPLE_MEMOS"}

(* persistIndexingResult: the upsert of a transaction makes its row        *)
(* active; a result without a record leaves the earlier one.               *)
Persist(t, status) ==
  /\ activeRows' = IF status \in WithTransaction THEN activeRows \cup ({t} \cap Requested)
                                                 ELSE activeRows
  /\ records' = IF status \in WithTransaction \cap WithRecord
                  THEN records \cup ({t} \cap Requested) ELSE records

(* httpStatusForVerificationStatus; a job that throws is a 500.            *)
HttpStatus(status) ==
  CASE status \in {"VERIFIED", "VERIFIED_TM1", "UNAUTHORIZED", "NO_MEMO", "INVALID_MEMO",
                   "INVALID_TM1", "MULTIPLE_MEMOS"} -> 200
    [] status \in {"MEMPOOL_TIP_REQUIRED", "INVALID_VERIFICATION_CONTEXT"} -> 422
    [] status = "INVALID_TXID" -> 400
    [] status = "TRANSACTION_NOT_FOUND" -> 404
    [] status = "CHRONIK_UNAVAILABLE" -> 503
    [] status = "INVALID_CHRONIK_RESPONSE" -> 502
    [] OTHER -> 500

(* Mutant: a job that failed settles no promise. *)
AnsweredIfSeen(t, status) ==
  [c \in AdminCalls |->
     IF call[c] = Waiting(t) /\ status \in WithTransaction THEN Answer(HttpStatus(status))
                                                     ELSE call[c]]

Answered(t, status) ==
  [c \in AdminCalls |->
     IF call[c] = Waiting(t) THEN Answer(HttpStatus(status)) ELSE call[c]]

(* A job writes what it found and settles: every call that waits for its   *)
(* transaction is answered before any other event is handled.              *)
JobEnds(t, status) ==
  /\ Settle(t)
  /\ Persist(t, status)
  /\ call' = Answered(t, status)
  /\ told' = IF HttpStatus(status) = 200 /\ \E c \in AdminCalls : call[c] = Waiting(t)
               THEN told \cup ({t} \cap Requested) ELSE told
  /\ UNCHANGED <<limiterVars, accepts>>

(* The daemon around the routes: its own jobs, the rows its live events    *)
(* and reconciliations take back, and its state.                           *)
DaemonSubmits(t) ==
  /\ Submit(t)
  /\ UNCHANGED <<limiterVars, accepts, storeVars, call, told>>

MarkInactive(t) ==
  /\ t \in activeRows
  /\ activeRows' = activeRows \ {t}
  /\ told' = told \ {t}
  /\ UNCHANGED <<jobVars, limiterVars, accepts, records, call>>

DaemonMoves ==
  /\ accepts' = ~accepts
  /\ UNCHANGED <<jobVars, limiterVars, storeVars, call, told>>

Tick ==
  /\ ClockTicks
  /\ UNCHANGED <<jobVars, accepts, storeVars, call, told>>

Public(a) == PublicRefused(a) \/ \E t \in Requested : PublicRequest(a, t)

Next ==
  \/ \E a \in Addresses : Public(a)
  \/ \E c \in AdminCalls, t \in Requested : AdminRequest(c, t)
  \/ \E t \in Txids, status \in Outcomes : JobEnds(t, status)
  \/ \E t \in Txids : DaemonSubmits(t) \/ MarkInactive(t)
  \/ DaemonMoves
  \/ Tick

Spec == Init /\ [][Next]_routeVars

(* A waiting job starts. *)
Turn(t) ==
  /\ t \in waiting
  /\ \E u \in Txids, status \in Outcomes : JobEnds(u, status)
  /\ t \in running'

(***************************************************************************)
(* Jobs end and the clock goes on; a client that is refused tries again.   *)
(* Which waiting job gets a free slot is left open by CoalescedJobs: that  *)
(* the queue is first in, first out is the strong fairness of its turn.    *)
(***************************************************************************)
FairSpec ==
  /\ Spec
  /\ WF_routeVars(Tick)
  /\ \A a \in Addresses : WF_routeVars(a \in refused /\ Public(a))
  /\ \A t \in Txids :
       /\ WF_routeVars(\E status \in Outcomes : JobEnds(t, status))
       /\ SF_routeVars(Turn(t))

-----------------------------------------------------------------------------
(***************************************************************************)
(* Every call of the administrative route is answered, also when it joined *)
(* a job of the daemon or the daemon stops accepting requests meanwhile.   *)
(***************************************************************************)
AdminAnswered == \A c \in AdminCalls : call[c].state = "waiting" ~> call[c].state = "answered"

(***************************************************************************)
(* What a client was told 200 for has a record and an active row, and      *)
(* keeps them through every later job, also one that fails, finds nothing  *)
(* or cannot be evaluated, until the daemon takes the row back: the page   *)
(* shows it and the public route calls it already_indexed.  The statuses   *)
(* that the mapper makes a record for and those that errors.ts answers     *)
(* with 200 are written down separately.                                   *)
(***************************************************************************)
SuccessIsDurable == \A t \in told : AlreadyIndexed(t)
=============================================================================
