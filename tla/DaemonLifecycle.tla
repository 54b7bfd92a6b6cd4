--------------------------- MODULE DaemonLifecycle ---------------------------
(***************************************************************************)
(* How the indexer daemon starts, reconciles, reports itself ready and     *)
(* shuts down (start, stop, the callbacks of the live connection and the   *)
(* periodic timer in apps/indexer/src/daemon/daemon.ts), with the process  *)
(* around it (apps/indexer/src/cli/run.ts).                                *)
(*                                                                         *)
(* Reconciliations are chained on one promise, reconciliationTail: here a  *)
(* sequence of tasks whose head runs.  What one of them does is the        *)
(* subject of Backfill and LiveSync, what the connection does of           *)
(* LiveConnection, what the queue does of WorkQueue; here a task has the   *)
(* phases at which the daemon or its callers notice it.                    *)
(***************************************************************************)
EXTENDS Integers, Sequences, FiniteSets

CONSTANTS
  MaxTail      \* bound on the reconciliations scheduled at once

ASSUME LifecycleAssumption == MaxTail \in Nat \ {0}

VARIABLES
  state,              \* as in the code
  stopping,           \* as in the code: never reset
  websocketConnected, \* as in the code
  link,               \* the live connection: "none", "down", "up", "stopped"
  starting,           \* where startInternal is
  tail,               \* the reconciliations not settled, the head running
  periodicTimer,      \* TRUE while armed
  backfill,           \* what getStatus shows of the confirmed backfill
  busy,               \* the queue has work
  accepting,          \* the queue accepts work
  awaited,            \* an administrative call waits for its job in the queue
  closing,            \* where shutdown is
  late,               \* the shutdown deadline cut a wait short
  calm                \* nothing fails any more and no signal comes

vars == <<state, stopping, websocketConnected, link, starting, tail, periodicTimer,
          backfill, busy, accepting, awaited, closing, late, calm>>

(* awaiters: who waits for the task, besides the task behind it.           *)
Task == [kind : {"initial", "connect", "periodic", "reorg"},
         phase : {"waiting", "confirmed", "unconfirmed", "rows"},
         awaiters : SUBSET {"start", "stop"}]

NewTask(kind, awaiters) == [kind |-> kind, phase |-> "waiting", awaiters |-> awaiters]

Schedule(kind, awaiters) == tail' = Append(tail, NewTask(kind, awaiters))

Room == Len(tail) < MaxTail

Init ==
  /\ state = "stopped"
  /\ stopping = FALSE
  /\ websocketConnected = FALSE
  /\ link = "none"
  /\ starting = "no"
  /\ tail = <<>>
  /\ periodicTimer = FALSE
  /\ backfill = [state |-> "idle", complete |-> FALSE, ended |-> FALSE, failing |-> FALSE]
  /\ busy = FALSE
  /\ accepting = TRUE
  /\ awaited = FALSE
  /\ closing = "no"
  /\ late = FALSE
  /\ calm = FALSE

-----------------------------------------------------------------------------
(* start and startInternal.                                                *)

(* The process calls it when it listens: also when a signal has come       *)
(* meanwhile.                                                              *)
Start ==
  /\ starting = "no"
  /\ closing # "closed"
  /\ state = "stopped"
  /\ state' = "starting"
  /\ starting' = "connecting"
  /\ link' = "down"
  /\ UNCHANGED <<stopping, websocketConnected, tail, periodicTimer, backfill, busy,
                 accepting, awaited, closing, late, calm>>

(* connection.start() ends once the first attempt has: in a connection     *)
(* (handleConnect has scheduled a reconciliation), in an outage that will  *)
(* be retried (handleReconnect), or closed by stop.                        *)
FirstAttempt ==
  /\ starting = "connecting"
  /\ starting' = "reconciling"
  /\ \/ /\ link = "down"
        /\ link' = "up"
        /\ websocketConnected' = TRUE
        /\ Schedule("connect", {"start"})
        /\ UNCHANGED state
     \/ /\ link = "down"
        /\ ~calm
        /\ state' = "reconnecting"
        /\ websocketConnected' = FALSE
        /\ Schedule("initial", {"start"})
        /\ UNCHANGED link
     \/ /\ link = "stopped"
        /\ Schedule("initial", {"start"})
        /\ UNCHANGED <<state, websocketConnected, link>>
  /\ UNCHANGED <<stopping, periodicTimer, backfill, busy, accepting, awaited, closing,
                 late, calm>>

-----------------------------------------------------------------------------
(* The callbacks of the live connection, the timer and the API.            *)

HandleConnect ==
  /\ link = "down"
  /\ starting # "connecting"
  /\ Room
  /\ link' = "up"
  /\ websocketConnected' = TRUE
  /\ Schedule("connect", {})
  /\ UNCHANGED <<state, stopping, starting, periodicTimer, backfill, busy, accepting,
                 awaited, closing, late, calm>>

(* Also what a heartbeat timeout comes to.                                 *)
HandleReconnect ==
  /\ ~calm
  /\ link = "up"
  /\ link' = "down"
  /\ websocketConnected' = FALSE
  /\ state' = "reconnecting"
  /\ UNCHANGED <<stopping, starting, tail, periodicTimer, backfill, busy, accepting,
                 awaited, closing, late, calm>>

(* A transaction to index or a block that left the chain.                  *)
HandleLiveEvent ==
  /\ ~calm
  /\ link = "up"
  /\ \/ /\ busy' = (busy \/ accepting)
        /\ UNCHANGED tail
     \/ /\ Room
        /\ Schedule("reorg", {})
        /\ UNCHANGED busy
  /\ UNCHANGED <<state, stopping, websocketConnected, link, starting, periodicTimer,
                 backfill, accepting, awaited, closing, late, calm>>

(* POST of an index request.  The public route answers at once, the        *)
(* administrative one when the job ends.  An API that closes takes none.   *)
RequestIndex ==
  /\ ~calm
  /\ closing = "no"
  /\ ~stopping
  /\ state = "running"
  /\ busy' = (busy \/ accepting)
  /\ awaited' \in {awaited, busy'}
  /\ UNCHANGED <<state, stopping, websocketConnected, link, starting, tail,
                 periodicTimer, backfill, accepting, closing, late, calm>>

JobsDone ==
  /\ busy
  /\ busy' = FALSE
  /\ awaited' = FALSE
  /\ UNCHANGED <<state, stopping, websocketConnected, link, starting, tail,
                 periodicTimer, backfill, accepting, closing, late, calm>>

(* The administrative calls end while there is other work: their jobs have *)
(* ended, or their clients have hung up.                                   *)
CallsEnd ==
  /\ awaited
  /\ awaited' = FALSE
  /\ UNCHANGED <<state, stopping, websocketConnected, link, starting, tail,
                 periodicTimer, backfill, busy, accepting, closing, late, calm>>

TimerFires ==
  /\ periodicTimer
  /\ Room
  /\ periodicTimer' = FALSE
  /\ Schedule("periodic", {})
  /\ UNCHANGED <<state, stopping, websocketConnected, link, starting, backfill, busy,
                 accepting, awaited, closing, late, calm>>

-----------------------------------------------------------------------------
(* A reconciliation ends.  Its own continuation decides about the state,   *)
(* then those of startInternal and stop, if they wait for it.              *)

(* Mutant: a periodic success leaves the state as it is. *)
ContinuedOnConnectOnly(task, ok) ==
  IF ok /\ ~stopping /\ task.kind = "connect" THEN "running" ELSE state

Continued(task, ok) ==
  IF ok /\ ~stopping /\ (task.kind = "connect" \/ (task.kind = "periodic" /\ websocketConnected))
    THEN "running" ELSE state

(* Mutant: every reconciliation arms the timer. *)
RearmedByAll(task) == ~stopping /\ state # "stopped"

Rearmed(task) == task.kind = "periodic" /\ ~stopping /\ state # "stopped"

Settle(ok) ==
  LET task == Head(tail)
  IN  /\ tail' = Tail(tail)
      /\ \/ /\ "start" \notin task.awaiters
            /\ state' = Continued(task, ok)
            /\ periodicTimer' = (periodicTimer \/ Rearmed(task))
            /\ UNCHANGED starting
         \/ /\ "start" \in task.awaiters /\ ok /\ ~stopping
            /\ state' = "running"
            /\ periodicTimer' = TRUE
            /\ starting' = "done"
         \/ /\ "start" \in task.awaiters /\ ok /\ stopping
            /\ starting' = "done"
            /\ UNCHANGED <<state, periodicTimer>>
         \/ /\ "start" \in task.awaiters /\ ~ok
            /\ state' = "failed"
            /\ starting' = "failed"
            /\ UNCHANGED periodicTimer
      /\ closing' = IF "stop" \in task.awaiters /\ closing = "tail" THEN "queue" ELSE closing
      /\ accepting' = (accepting /\ closing' # "queue")

Advance(phase) ==
  /\ tail' = [tail EXCEPT ![1].phase = phase]
  /\ UNCHANGED <<state, starting, periodicTimer, accepting, closing>>

InPhase(phase) == tail # <<>> /\ Head(tail).phase = phase

BeginTask ==
  /\ InPhase("waiting")
  /\ \/ /\ Head(tail).kind = "reorg"
        /\ Advance("rows")
        /\ UNCHANGED backfill
     \/ /\ Head(tail).kind # "reorg"
        /\ ~stopping
        /\ Advance("confirmed")
        /\ backfill' = [backfill EXCEPT !.state = "running"]
     \/ /\ Head(tail).kind # "reorg"
        /\ stopping
        /\ Settle(TRUE)
        /\ UNCHANGED backfill
  /\ UNCHANGED <<stopping, websocketConnected, link, busy, awaited, late, calm>>

(* reconcileConfirmed.  One whose requests are answered after stop is      *)
(* given up without a trace.                                               *)
EndConfirmed ==
  /\ InPhase("confirmed")
  /\ \/ /\ ~stopping
        /\ \E complete \in BOOLEAN :
             /\ calm => complete
             /\ backfill' = [state |-> "succeeded", complete |-> complete, ended |-> TRUE,
                             failing |-> FALSE]
        /\ Advance("unconfirmed")
     \/ /\ ~calm
        /\ backfill' = [backfill EXCEPT !.state = "failed", !.ended = TRUE, !.failing = TRUE]
        /\ Settle(FALSE)
     \/ /\ stopping
        /\ Settle(TRUE)
        /\ UNCHANGED backfill
  /\ UNCHANGED <<stopping, websocketConnected, link, busy, awaited, late, calm>>

(* reconcileUnconfirmed leaves its jobs to the queue.                      *)
EndUnconfirmed ==
  /\ InPhase("unconfirmed")
  /\ \/ /\ ~stopping
        /\ busy' = (busy \/ accepting)
        /\ Settle(TRUE)
     \/ /\ ~calm
        /\ UNCHANGED busy
        /\ Settle(FALSE)
     \/ /\ stopping
        /\ UNCHANGED busy
        /\ Settle(TRUE)
  /\ UNCHANGED <<stopping, websocketConnected, link, backfill, awaited, late, calm>>

(* The revalidation after a disconnected block does not look at stopping.  *)
EndRows ==
  /\ InPhase("rows")
  /\ \E ok \in BOOLEAN : (calm => ok) /\ Settle(ok)
  /\ UNCHANGED <<stopping, websocketConnected, link, backfill, busy, awaited, late,
                 calm>>

-----------------------------------------------------------------------------
(* stop, called once by the process: on a signal, or when start failed.    *)

Stop ==
  /\ closing = "no"
  /\ state # "stopped"
  /\ ~calm \/ starting = "failed"
  /\ stopping' = TRUE
  /\ state' = "stopping"
  /\ websocketConnected' = FALSE
  /\ periodicTimer' = FALSE
  /\ link' = "stopped"
  /\ \/ /\ tail = <<>>
        /\ closing' = "queue"
        /\ accepting' = FALSE
        /\ UNCHANGED tail
     \/ /\ tail # <<>>
        /\ closing' = "tail"
        /\ tail' = [tail EXCEPT ![Len(tail)].awaiters = @ \cup {"stop"}]
        /\ UNCHANGED accepting
  /\ UNCHANGED <<starting, backfill, busy, awaited, late, calm>>

(* shutdown before start, on a signal or because listen failed: stop       *)
(* returns at once, and what is left is to close the API and the database. *)
StopBeforeStart ==
  /\ closing = "no"
  /\ state = "stopped"
  /\ ~calm
  /\ closing' = "stopped"
  /\ UNCHANGED <<state, stopping, websocketConnected, link, starting, tail,
                 periodicTimer, backfill, busy, accepting, awaited, late, calm>>

(* The one deadline of both waits passes while the first one lasts: then   *)
(* the second has no time left.                                            *)
(* Mutant: only the wait for the queue has a deadline. *)
DeadlineOfQueue ==
  /\ closing = "queue"
  /\ busy
  /\ closing' = "stopped"
  /\ accepting' = FALSE
  /\ state' = "stopped"
  /\ late' = TRUE
  /\ UNCHANGED <<stopping, websocketConnected, link, starting, tail, periodicTimer,
                 backfill, busy, awaited, calm>>

Deadline ==
  /\ closing \in {"tail", "queue"}
  /\ closing = "queue" => busy
  /\ closing' = "stopped"
  /\ accepting' = FALSE
  /\ state' = "stopped"
  /\ late' = TRUE
  /\ UNCHANGED <<stopping, websocketConnected, link, starting, tail, periodicTimer,
                 backfill, busy, awaited, calm>>

(* Mutant: stop does not wait for the jobs under way. *)
DrainedAtOnce ==
  /\ closing = "queue"
  /\ closing' = "stopped"
  /\ state' = "stopped"
  /\ UNCHANGED <<stopping, websocketConnected, link, starting, tail, periodicTimer,
                 backfill, busy, accepting, awaited, late, calm>>

Drained ==
  /\ closing = "queue"
  /\ ~busy
  /\ closing' = "stopped"
  /\ state' = "stopped"
  /\ UNCHANGED <<stopping, websocketConnected, link, starting, tail, periodicTimer,
                 backfill, busy, accepting, awaited, late, calm>>

(* closeIndexerResources: the API, then the database, whatever stop threw. *)
(* app.close() ends when the last call is answered; nothing limits it.     *)
CloseDatabase ==
  /\ closing = "stopped"
  /\ ~awaited
  /\ closing' = "closed"
  /\ UNCHANGED <<state, stopping, websocketConnected, link, starting, tail,
                 periodicTimer, backfill, busy, accepting, awaited, late, calm>>

Calm ==
  /\ ~calm
  /\ calm' = TRUE
  /\ UNCHANGED <<state, stopping, websocketConnected, link, starting, tail,
                 periodicTimer, backfill, busy, accepting, awaited, closing, late>>

Reconcile == BeginTask \/ EndConfirmed \/ EndUnconfirmed \/ EndRows

Next ==
  \/ Start \/ FirstAttempt
  \/ HandleConnect \/ HandleReconnect \/ HandleLiveEvent
  \/ RequestIndex \/ JobsDone \/ CallsEnd
  \/ TimerFires
  \/ Reconcile
  \/ Stop \/ StopBeforeStart \/ Deadline \/ Drained \/ CloseDatabase
  \/ Calm

Spec == Init /\ [][Next]_vars

(***************************************************************************)
(* Timers fire and code that waits for nothing runs.  Requests, jobs and   *)
(* handshakes may hang for ever until calm, if it ever comes; from then on *)
(* they end, and a connection that is down comes up (LiveConnection).      *)
(***************************************************************************)
Fairness ==
  /\ WF_vars(TimerFires)
  /\ WF_vars(BeginTask)
  /\ WF_vars(Stop /\ starting = "failed")
  /\ WF_vars(Deadline \/ Drained)
  /\ WF_vars(CloseDatabase)
  /\ WF_vars(calm /\ FirstAttempt)
  /\ WF_vars(calm /\ HandleConnect)
  /\ WF_vars(calm /\ JobsDone)
  /\ WF_vars(calm /\ Reconcile)

-----------------------------------------------------------------------------
TypeOK ==
  /\ state \in {"stopped", "starting", "running", "reconnecting", "stopping", "failed"}
  /\ stopping \in BOOLEAN
  /\ websocketConnected \in BOOLEAN
  /\ link \in {"none", "down", "up", "stopped"}
  /\ starting \in {"no", "connecting", "reconciling", "done", "failed"}
  /\ tail \in Seq(Task)
  /\ periodicTimer \in BOOLEAN
  /\ backfill \in [state : {"idle", "running", "succeeded", "failed"},
                   complete : BOOLEAN, ended : BOOLEAN, failing : BOOLEAN]
  /\ busy \in BOOLEAN
  /\ accepting \in BOOLEAN
  /\ awaited \in BOOLEAN
  /\ closing \in {"no", "tail", "queue", "stopped", "closed"}
  /\ late \in BOOLEAN
  /\ calm \in BOOLEAN
  /\ websocketConnected => link = "up"

(***************************************************************************)
(* docs/indexer-daemon.md: "Routine periodic scans are single-flight".     *)
(* There is never more than one, armed, scheduled or running; and a daemon *)
(* that has started never loses its last one, whatever failed.             *)
(***************************************************************************)
Periodic == {i \in DOMAIN tail : tail[i].kind = "periodic"}

OnePeriodic ==
  /\ periodicTimer => Periodic = {}
  /\ Cardinality(Periodic) <= 1
  /\ starting = "done" /\ ~stopping => periodicTimer \/ Periodic # {}

(***************************************************************************)
(* docs/indexer-daemon.md: "Shutdown order is daemon, Fastify, then        *)
(* SQLite".  The database of a daemon that was stopped is closed under no  *)
(* reconciliation and no job, unless the deadline passed.  What is still   *)
(* scheduled will return at once.                                          *)
(***************************************************************************)
QuietWhenClosed ==
  closing = "closed" /\ stopping /\ ~late =>
    /\ ~busy
    /\ \A i \in DOMAIN tail : tail[i].phase = "waiting" /\ tail[i].kind # "reorg"

(***************************************************************************)
(* What GET /ready answers, while the checkpoints lag no further behind    *)
(* than allowed.                                                           *)
(***************************************************************************)
HealthyBackfill == backfill.complete /\ backfill.ended /\ backfill.state # "failed"

Ready == state = "running" /\ websocketConnected /\ HealthyBackfill

(***************************************************************************)
(* docs/indexer-daemon.md: GET /ready "returns 503 unless ... the last     *)
(* backfill succeeded".  failing says that backfillConsecutiveFailures is  *)
(* positive.                                                               *)
(***************************************************************************)
ReadyAfterSuccess == Ready => ~backfill.failing

(***************************************************************************)
(* However requests, jobs and handshakes hang, a shutdown ends with the    *)
(* database closed, or with the process, or waits for nothing but an       *)
(* administrative call whose job outlasted the deadline.  Once no call     *)
(* waits any more the database is closed.                                  *)
(***************************************************************************)
HeldByCall == closing = "stopped" /\ late /\ busy /\ awaited

ShutdownEnds == closing # "no" ~> closing \in {"closed", "no"} \/ HeldByCall

(***************************************************************************)
(* docs/indexer-daemon.md: "a stuck external request cannot extend SIGTERM *)
(* shutdown indefinitely".  Not kept: a job that never returns holds the   *)
(* administrative call that waits for it, which holds app.close().         *)
(***************************************************************************)
ShutdownBounded == closing # "no" ~> closing \in {"closed", "no"}
=============================================================================
