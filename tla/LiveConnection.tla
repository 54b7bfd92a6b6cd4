--------------------------- MODULE LiveConnection ---------------------------
(***************************************************************************)
(* The supervised WebSocket connection to Chronik                          *)
(* (ChronikClientLiveConnection in packages/chronik/src/live/client.ts)    *)
(* with its heartbeat (live/heartbeat.ts), and what the daemon is told.    *)
(*                                                                         *)
(* Each attempt to connect makes a new endpoint.  connect() is suspended   *)
(* while it waits for the endpoint to open; everything else runs to        *)
(* completion, so an action is one callback, timer or resumption.          *)
(***************************************************************************)
EXTENDS Integers, FiniteSets

CONSTANTS
  Endpoints,    \* endpoints; one whose last callback came is made anew
  NoEndpoint,
  MaxFailures   \* 5: from there on the delay of a retry no longer grows

ASSUME ConnectionAssumption ==
  /\ NoEndpoint \notin Endpoints
  /\ MaxFailures \in Nat

VARIABLES
  stopped,       \* as in the code
  endpoint,      \* the current endpoint
  retryTimer,    \* TRUE while a retry is scheduled
  retryFailures, \* exponent of the next delay, counted up to MaxFailures
  reconnecting,  \* an outage was reported and is not over
  beat,          \* the heartbeat: the socket it watches, a pong is overdue
  opening,       \* endpoints whose connect() waits for waitForOpen
  socket,        \* socket[e]: what became of the endpoint's socket
  subscribed,    \* subscribed[e]: how often it subscribed to its topics
  connected,     \* the daemon's websocketConnected
  calm           \* nothing fails and nobody stops the connection any more

vars == <<stopped, endpoint, retryTimer, retryFailures, reconnecting, beat,
          opening, socket, subscribed, connected, calm>>

NoBeat == [socket |-> NoEndpoint, overdue |-> FALSE]

Init ==
  /\ stopped = TRUE
  /\ endpoint = NoEndpoint
  /\ retryTimer = FALSE
  /\ retryFailures = 0
  /\ reconnecting = FALSE
  /\ beat = NoBeat
  /\ opening = {}
  /\ socket = [e \in Endpoints |-> "unused"]
  /\ subscribed = [e \in Endpoints |-> 0]
  /\ connected = FALSE
  /\ calm = FALSE

(* Mutant: any endpoint of a running connection counts as current. *)
IsCurrentAny(e) == ~stopped

IsCurrent(e) == ~stopped /\ endpoint = e

Closed(e) == socket[e] \in {"failed", "ended", "closed", "terminated"}

-----------------------------------------------------------------------------
(* connect up to waitForOpen.  Making the endpoint may itself fail.        *)

(* Mutant: only the first failure of an outage schedules a retry. *)
ScheduleRetryOnce(scheduled) ==
  IF stopped \/ scheduled \/ reconnecting
    THEN retryTimer' = scheduled /\ UNCHANGED retryFailures
    ELSE /\ retryTimer' = TRUE
         /\ retryFailures' = IF retryFailures < MaxFailures THEN retryFailures + 1
                                                           ELSE retryFailures

ScheduleRetry(scheduled) ==
  IF stopped \/ scheduled
    THEN retryTimer' = scheduled /\ UNCHANGED retryFailures
    ELSE /\ retryTimer' = TRUE
         /\ retryFailures' = IF retryFailures < MaxFailures THEN retryFailures + 1
                                                           ELSE retryFailures

(* onReconnect, once per outage: the daemon notes that it has no           *)
(* connection.                                                             *)
ReportOutage(known) ==
  /\ reconnecting' = TRUE
  /\ connected' = (known /\ reconnecting)

Connect ==
  \/ \E e \in Endpoints :
       /\ socket[e] = "unused" \/ (socket[e] = "ended" /\ e \notin opening /\ e # endpoint)
       /\ endpoint' = e
       /\ socket' = [socket EXCEPT ![e] = "dialing"]
       /\ subscribed' = [subscribed EXCEPT ![e] = 0]
       /\ opening' = opening \cup {e}
       /\ retryTimer' = FALSE
       /\ UNCHANGED <<retryFailures, reconnecting, connected>>
  \/ /\ ~calm
     /\ ReportOutage(connected)
     /\ retryTimer' = TRUE
     /\ retryFailures' = IF retryFailures < MaxFailures THEN retryFailures + 1
                                                       ELSE retryFailures
     /\ UNCHANGED <<endpoint, socket, subscribed, opening>>

Start ==
  /\ stopped
  /\ stopped' = FALSE
  /\ Connect
  /\ UNCHANGED <<beat, calm>>

RetryFires ==
  /\ retryTimer
  /\ IF stopped \/ endpoint # NoEndpoint
       THEN /\ retryTimer' = FALSE
            /\ UNCHANGED <<endpoint, retryFailures, reconnecting, opening, socket,
                           subscribed, connected>>
       ELSE Connect
  /\ UNCHANGED <<stopped, beat, calm>>

Stop ==
  /\ ~calm
  /\ ~stopped
  /\ stopped' = TRUE
  /\ beat' = NoBeat
  /\ retryTimer' = FALSE
  /\ endpoint' = NoEndpoint
  /\ socket' = IF endpoint = NoEndpoint THEN socket
               ELSE [socket EXCEPT ![endpoint] = IF Closed(endpoint) THEN @ ELSE "closed"]
  /\ connected' = FALSE
  /\ UNCHANGED <<retryFailures, reconnecting, opening, subscribed, calm>>

-----------------------------------------------------------------------------
(* handleDisconnect, for the current endpoint only.                        *)
(* Mutant: the heartbeat goes on watching the lost socket. *)
DisconnectKeepsBeat(e, known) ==
  IF IsCurrent(e)
    THEN /\ UNCHANGED beat
         /\ endpoint' = NoEndpoint
         /\ ReportOutage(known)
         /\ ScheduleRetry(retryTimer)
    ELSE /\ connected' = known
         /\ UNCHANGED <<beat, endpoint, reconnecting, retryTimer, retryFailures>>

Disconnect(e, known) ==
  IF IsCurrent(e)
    THEN /\ beat' = NoBeat
         /\ endpoint' = NoEndpoint
         /\ ReportOutage(known)
         /\ ScheduleRetry(retryTimer)
    ELSE /\ connected' = known
         /\ UNCHANGED <<beat, endpoint, reconnecting, retryTimer, retryFailures>>

(* The rest of connect once waitForOpen has settled.                       *)
Established(e) ==
  /\ subscribed' = [subscribed EXCEPT ![e] = @ + 1]
  /\ beat' = [socket |-> e, overdue |-> FALSE]
  /\ retryFailures' = 0
  /\ reconnecting' = FALSE
  /\ connected' = TRUE
  /\ UNCHANGED <<endpoint, retryTimer, socket>>

CloseSocket(e) == socket' = [socket EXCEPT ![e] = IF Closed(e) THEN @ ELSE "closed"]

GiveUp(e) ==
  /\ Disconnect(e, connected)
  /\ CloseSocket(e)

Stale == UNCHANGED <<endpoint, retryTimer, retryFailures, reconnecting, beat, socket,
                     subscribed, connected>>

(* Subscribing or attaching the heartbeat may throw.                       *)
Opened(e) ==
  /\ e \in opening
  /\ socket[e] \in {"open", "dead"}
  /\ opening' = opening \ {e}
  /\ \/ IsCurrent(e) /\ Established(e)
     \/ IsCurrent(e) /\ ~calm /\ GiveUp(e) /\ UNCHANGED subscribed
     \/ ~IsCurrent(e) /\ Stale
  /\ UNCHANGED <<stopped, calm>>

(* A handshake that failed, or whose endpoint was closed meanwhile.        *)
OpenRejected(e) ==
  /\ e \in opening
  /\ Closed(e)
  /\ opening' = opening \ {e}
  /\ \/ IsCurrent(e) /\ GiveUp(e) /\ UNCHANGED subscribed
     \/ ~IsCurrent(e) /\ Stale
  /\ UNCHANGED <<stopped, calm>>

-----------------------------------------------------------------------------
(* The network.                                                            *)

Handshake(e) ==
  /\ socket[e] = "dialing"
  /\ \E result \in {"open", "failed"} :
       /\ calm => result = "open"
       /\ socket' = [socket EXCEPT ![e] = result]
  /\ UNCHANGED <<stopped, endpoint, retryTimer, retryFailures, reconnecting, beat,
                 opening, subscribed, connected, calm>>

(* The peer closes an open socket: onEnd.                                  *)
End(e) ==
  /\ ~calm
  /\ socket[e] \in {"open", "dead"}
  /\ socket' = [socket EXCEPT ![e] = "ended"]
  /\ Disconnect(e, connected)
  /\ UNCHANGED <<stopped, opening, subscribed, calm>>

(* onEnd of a socket that failed to open or was closed from this side may  *)
(* come before or after connect resumes, or while a newer endpoint is used.*)
LateEnd(e) ==
  /\ Closed(e)
  /\ socket[e] # "ended"
  /\ socket' = [socket EXCEPT ![e] = "ended"]
  /\ Disconnect(e, connected)
  /\ UNCHANGED <<stopped, opening, subscribed, calm>>

(* The connection is lost and nobody says so.                              *)
HalfOpen(e) ==
  /\ ~calm
  /\ socket[e] = "open"
  /\ socket' = [socket EXCEPT ![e] = "dead"]
  /\ UNCHANGED <<stopped, endpoint, retryTimer, retryFailures, reconnecting, beat,
                 opening, subscribed, connected, calm>>

Calm ==
  /\ ~calm
  /\ calm' = TRUE
  /\ UNCHANGED <<stopped, endpoint, retryTimer, retryFailures, reconnecting, beat,
                 opening, socket, subscribed, connected>>

-----------------------------------------------------------------------------
(* The heartbeat.  An overdue pong is reported before the outage it is.    *)

Expire ==
  /\ Disconnect(endpoint, FALSE)
  /\ socket' = [socket EXCEPT ![beat.socket] = IF Closed(beat.socket) THEN @ ELSE "terminated"]

(* Mutant: a ping sets no deadline for its pong. *)
SendPingForgotten ==
  /\ beat.socket # NoEndpoint
  /\ ~beat.overdue
  /\ \/ UNCHANGED <<beat, endpoint, retryTimer, retryFailures, reconnecting, socket, connected>>
     \/ /\ ~calm
        /\ Expire
  /\ UNCHANGED <<stopped, opening, subscribed, calm>>

(* ping() throws on a socket that is closing.                              *)
SendPing ==
  /\ beat.socket # NoEndpoint
  /\ ~beat.overdue
  /\ \/ /\ beat' = [beat EXCEPT !.overdue = TRUE]
        /\ UNCHANGED <<endpoint, retryTimer, retryFailures, reconnecting, socket, connected>>
     \/ /\ ~calm
        /\ Expire
  /\ UNCHANGED <<stopped, opening, subscribed, calm>>

HandlePong ==
  /\ beat.overdue
  /\ socket[beat.socket] = "open"
  /\ beat' = [beat EXCEPT !.overdue = FALSE]
  /\ UNCHANGED <<stopped, endpoint, retryTimer, retryFailures, reconnecting, opening,
                 socket, subscribed, connected, calm>>

(* In calm times a pong that comes is in time.                             *)
Deadline ==
  /\ beat.overdue
  /\ calm => socket[beat.socket] # "open"
  /\ Expire
  /\ UNCHANGED <<stopped, opening, subscribed, calm>>

Next ==
  \/ Start \/ Stop \/ RetryFires
  \/ \E e \in Endpoints :
       Opened(e) \/ OpenRejected(e) \/ Handshake(e) \/ End(e) \/ LateEnd(e) \/ HalfOpen(e)
  \/ SendPing \/ HandlePong \/ Deadline
  \/ Calm

Spec == Init /\ [][Next]_vars

(***************************************************************************)
(* Timers fire, handshakes end (the operating system gives up on them, the *)
(* code sets no time limit) and the network is good at some point.         *)
(***************************************************************************)
FairSpec ==
  /\ Spec
  /\ WF_vars(Calm)
  /\ WF_vars(RetryFires)
  /\ WF_vars(SendPing) /\ WF_vars(HandlePong) /\ WF_vars(Deadline)
  /\ \A e \in Endpoints :
       WF_vars(Opened(e)) /\ WF_vars(OpenRejected(e)) /\ WF_vars(Handshake(e)) /\ WF_vars(LateEnd(e))

-----------------------------------------------------------------------------
TypeOK ==
  /\ stopped \in BOOLEAN
  /\ endpoint \in Endpoints \cup {NoEndpoint}
  /\ retryTimer \in BOOLEAN
  /\ retryFailures \in 0 .. MaxFailures
  /\ reconnecting \in BOOLEAN
  /\ beat \in [socket : Endpoints \cup {NoEndpoint}, overdue : BOOLEAN]
  /\ opening \subseteq Endpoints
  /\ socket \in [Endpoints -> {"unused", "dialing", "open", "dead", "failed", "ended",
                               "closed", "terminated"}]
  /\ subscribed \in [Endpoints -> Nat]
  /\ connected \in BOOLEAN
  /\ calm \in BOOLEAN

(***************************************************************************)
(* A running connection has either a current endpoint or a retry under     *)
(* way, never both and never neither: an outage cannot be forgotten, and   *)
(* timers do not pile up.  A stopped one has neither.                      *)
(***************************************************************************)
OneAttempt ==
  /\ ~stopped => (retryTimer <=> endpoint = NoEndpoint)
  /\ stopped => ~retryTimer /\ endpoint = NoEndpoint

(***************************************************************************)
(* The daemon is told that it is connected exactly while the heartbeat     *)
(* watches the socket of the current endpoint and this has subscribed once:*)
(* no half-open connection is unsupervised, nothing is delivered twice.    *)
(***************************************************************************)
ConnectedIsSupervised ==
  /\ connected <=> beat.socket # NoEndpoint
  /\ connected => /\ beat.socket = endpoint
                  /\ subscribed[endpoint] = 1
                  /\ ~reconnecting

(***************************************************************************)
(* Only the current endpoint holds a socket open: those given up, replaced *)
(* or stopped, at whatever moment of their handshake, were closed.         *)
(***************************************************************************)
NoLeakedSocket ==
  \A e \in Endpoints :
    socket[e] \in {"dialing", "open", "dead"} => e = endpoint

(***************************************************************************)
(* One connection at a time, in the making or made: however often a lost   *)
(* connection reports itself it is replaced once, and only once the old    *)
(* socket is closed.                                                       *)
(***************************************************************************)
OneSocket == OneAttempt /\ NoLeakedSocket

(***************************************************************************)
(* After any outage the daemon is connected again, over a socket that      *)
(* works, unless the connection was stopped.                               *)
(***************************************************************************)
Recovers == <>[](stopped \/ (connected /\ socket[endpoint] = "open"))
=============================================================================
