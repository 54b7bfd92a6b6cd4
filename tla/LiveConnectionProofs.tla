------------------------ MODULE LiveConnectionProofs ------------------------
(***************************************************************************)
(* The safety invariants of the live connection, for every number of       *)
(* endpoints whose callbacks are late and every bound on the retry delay.  *)
(***************************************************************************)
EXTENDS LiveConnection, TLAPS

(* An endpoint whose connect is suspended and that is still the current    *)
(* one has not subscribed yet.                                             *)
FirstSubscription ==
  \A e \in opening :
    /\ socket[e] # "unused"
    /\ e = endpoint => subscribed[e] = 0 /\ ~connected

(* A pong is overdue only while a socket is watched.                       *)
Overdue == beat.overdue => beat.socket # NoEndpoint

IInv ==
  /\ TypeOK /\ OneAttempt /\ ConnectedIsSupervised /\ NoLeakedSocket
  /\ FirstSubscription /\ Overdue

LEMMA Initially == Init => IInv
<1> SUFFICES ASSUME Init
             PROVE  IInv
  OBVIOUS
<1> USE ConnectionAssumption DEF ConnectionAssumption, Init, NoBeat
<1>1. TypeOK
  <2>1. beat \in [socket : Endpoints \cup {NoEndpoint}, overdue : BOOLEAN]
    OBVIOUS
  <2>2. /\ socket \in [Endpoints -> {"unused", "dialing", "open", "dead", "failed", "ended",
                                   "closed", "terminated"}]
        /\ subscribed \in [Endpoints -> Nat]
    OBVIOUS
  <2>3. retryFailures \in 0 .. MaxFailures
    OBVIOUS
  <2>4. /\ {stopped, retryTimer, reconnecting, connected, calm} \subseteq BOOLEAN
        /\ endpoint \in Endpoints \cup {NoEndpoint} /\ opening \subseteq Endpoints
    OBVIOUS
  <2>5. QED
    BY <2>1, <2>2, <2>3, <2>4, Zenon DEF TypeOK
<1>2. OneAttempt /\ ConnectedIsSupervised
  BY DEF OneAttempt, ConnectedIsSupervised
<1>3. NoLeakedSocket /\ FirstSubscription
  BY DEF NoLeakedSocket, FirstSubscription
<1>4. Overdue
  BY DEF Overdue
<1>5. QED
  BY <1>1, <1>2, <1>3, <1>4 DEF IInv

-----------------------------------------------------------------------------
(* The delay of a retry (scheduleRetry).                                   *)
LEMMA RetryScheduled ==
  ASSUME TypeOK, ~stopped, ~retryTimer, ScheduleRetry(retryTimer)
  PROVE  retryTimer' = TRUE /\ retryFailures' \in 0 .. MaxFailures
  BY ConnectionAssumption DEF ConnectionAssumption, TypeOK, ScheduleRetry

(* The loss of the current endpoint (handleDisconnect): whatever the       *)
(* daemon knew, it is told.                                                *)
LEMMA OutageReported ==
  ASSUME IInv, NEW e, NEW known \in {connected, FALSE}, IsCurrent(e), e \in Endpoints,
         Disconnect(e, known)
  PROVE  /\ ~stopped /\ endpoint = e
         /\ endpoint' = NoEndpoint /\ beat' = NoBeat
         /\ connected' = FALSE /\ reconnecting' = TRUE
         /\ retryTimer' = TRUE /\ retryFailures' \in 0 .. MaxFailures
<1>1. /\ ~stopped /\ endpoint = e
      /\ endpoint' = NoEndpoint /\ beat' = NoBeat
      /\ reconnecting' = TRUE /\ connected' = (known /\ reconnecting)
      /\ ScheduleRetry(retryTimer)
  BY DEF IsCurrent, Disconnect, ReportOutage
<1>2. ~(known /\ reconnecting)
  BY DEF IInv, ConnectedIsSupervised
<1>3. connected' = FALSE
  BY <1>1, <1>2
<1>4. ~retryTimer
  BY <1>1, ConnectionAssumption DEF IInv, OneAttempt, ConnectionAssumption
<1>5. retryTimer' = TRUE /\ retryFailures' \in 0 .. MaxFailures
  BY <1>1, <1>4, RetryScheduled DEF IInv
<1>6. QED
  BY <1>1, <1>3, <1>5

(* After it the socket of the endpoint is closed, and a retry is under way.*)
LEMMA OutageKeeps ==
  ASSUME IInv, ~stopped, endpoint \in Endpoints,
         NEW end \in {"failed", "ended", "closed", "terminated"},
         socket' = [socket EXCEPT ![endpoint] = end],
         endpoint' = NoEndpoint, beat' = NoBeat,
         connected' = FALSE, reconnecting' = TRUE,
         retryTimer' = TRUE, retryFailures' \in 0 .. MaxFailures,
         opening' \subseteq opening,
         UNCHANGED <<stopped, subscribed, calm>>
  PROVE  IInv'
<1> USE ConnectionAssumption DEF ConnectionAssumption, IInv, NoBeat
<1>1. TypeOK'
  BY DEF TypeOK
<1>2. OneAttempt' /\ ConnectedIsSupervised'
  BY DEF OneAttempt, ConnectedIsSupervised
<1>3. NoLeakedSocket'
  BY DEF NoLeakedSocket, TypeOK
<1>4. FirstSubscription'
  <2> SUFFICES ASSUME NEW e \in opening'
               PROVE  socket'[e] # "unused" /\ e # endpoint'
    BY DEF FirstSubscription
  <2>1. e \in opening /\ e \in Endpoints
    BY DEF TypeOK
  <2>2. QED
    BY <2>1 DEF FirstSubscription, TypeOK
<1>5. Overdue'
  BY DEF Overdue
<1>6. QED
  BY <1>1, <1>2, <1>3, <1>4, <1>5

(* A callback of an endpoint that is not the current one changes nothing   *)
(* but what became of its socket.                                          *)
LEMMA LateKeeps ==
  ASSUME IInv, NEW e \in Endpoints,
         NEW end \in {"failed", "ended", "closed", "terminated"},
         socket' = [socket EXCEPT ![e] = end] \/ socket' = socket,
         opening' \subseteq opening,
         UNCHANGED <<stopped, endpoint, retryTimer, retryFailures, reconnecting, beat,
                     subscribed, connected, calm>>
  PROVE  IInv'
<1> USE DEF IInv
<1>1. TypeOK'
  BY DEF TypeOK
<1>2. OneAttempt' /\ ConnectedIsSupervised'
  BY DEF OneAttempt, ConnectedIsSupervised
<1>3. NoLeakedSocket'
  BY DEF NoLeakedSocket, TypeOK
<1>4. FirstSubscription' /\ Overdue'
  BY DEF FirstSubscription, TypeOK, Overdue
<1>5. QED
  BY <1>1, <1>2, <1>3, <1>4

(* An attempt (connect up to waitForOpen) that starts with no endpoint.    *)
LEMMA ConnectKeeps ==
  ASSUME IInv, endpoint = NoEndpoint, Connect, stopped' = FALSE, UNCHANGED <<beat, calm>>
  PROVE  IInv'
<1> USE ConnectionAssumption DEF ConnectionAssumption, IInv
<1>0. beat.socket = NoEndpoint /\ ~connected
  BY DEF ConnectedIsSupervised, TypeOK
<1>1. ASSUME NEW e \in Endpoints,
             socket[e] = "unused" \/ (socket[e] = "ended" /\ e \notin opening /\ e # endpoint),
             endpoint' = e,
             socket' = [socket EXCEPT ![e] = "dialing"],
             subscribed' = [subscribed EXCEPT ![e] = 0],
             opening' = opening \cup {e},
             retryTimer' = FALSE,
             UNCHANGED <<retryFailures, reconnecting, connected>>
      PROVE  IInv'
  <2>1. TypeOK'
    BY <1>1 DEF TypeOK
  <2>2. OneAttempt' /\ ConnectedIsSupervised'
    BY <1>0, <1>1 DEF OneAttempt, ConnectedIsSupervised
  <2>3. NoLeakedSocket'
    BY <1>1 DEF NoLeakedSocket, TypeOK
  <2>4. FirstSubscription' /\ Overdue'
    BY <1>0, <1>1 DEF FirstSubscription, TypeOK, Overdue
  <2>5. QED
    BY <2>1, <2>2, <2>3, <2>4
<1>2. ASSUME ReportOutage(connected), retryTimer' = TRUE,
             retryFailures' = IF retryFailures < MaxFailures THEN retryFailures + 1
                                                             ELSE retryFailures,
             UNCHANGED <<endpoint, socket, subscribed, opening>>
      PROVE  IInv'
  <2>1. reconnecting' = TRUE /\ connected' = FALSE
    <3>1. connected' = (connected /\ reconnecting) /\ reconnecting' = TRUE
      BY <1>2 DEF ReportOutage
    <3>2. QED
      BY <1>0, <3>1
  <2>2. TypeOK'
    <3>1. retryFailures' \in 0 .. MaxFailures
      BY <1>2 DEF TypeOK
    <3>2. QED
      BY <1>2, <2>1, <3>1 DEF TypeOK
  <2>3. OneAttempt' /\ ConnectedIsSupervised'
    BY <1>0, <1>2, <2>1 DEF OneAttempt, ConnectedIsSupervised
  <2>4. NoLeakedSocket' /\ FirstSubscription' /\ Overdue'
    BY <1>2, <2>1 DEF NoLeakedSocket, FirstSubscription, Overdue
  <2>5. QED
    BY <2>2, <2>3, <2>4
<1>3. QED
  BY <1>1, <1>2 DEF Connect

(* The connection is up (the rest of connect).                             *)
LEMMA EstablishedKeeps ==
  ASSUME IInv, NEW e \in opening, socket[e] \in {"open", "dead"}, IsCurrent(e),
         opening' = opening \ {e}, Established(e), UNCHANGED <<stopped, calm>>
  PROVE  IInv'
<1> USE ConnectionAssumption DEF ConnectionAssumption, IInv, Established, IsCurrent
<1>1. e \in Endpoints /\ subscribed[e] = 0
  BY DEF TypeOK, FirstSubscription
<1>2. TypeOK'
  <2>1. subscribed' \in [Endpoints -> Nat] /\ opening' \subseteq Endpoints
    BY DEF TypeOK
  <2>2. /\ beat' \in [socket : Endpoints \cup {NoEndpoint}, overdue : BOOLEAN]
        /\ retryFailures' \in 0 .. MaxFailures
    BY <1>1
  <2>3. QED
    BY <2>1, <2>2 DEF TypeOK
<1>3. subscribed'[e] = 1
  BY <1>1 DEF TypeOK
<1>4. OneAttempt' /\ ConnectedIsSupervised'
  BY <1>1, <1>3 DEF OneAttempt, ConnectedIsSupervised
<1>5. NoLeakedSocket'
  BY DEF NoLeakedSocket
<1>6. FirstSubscription' /\ Overdue'
  BY <1>1 DEF FirstSubscription, TypeOK, Overdue
<1>7. QED
  BY <1>2, <1>4, <1>5, <1>6

-----------------------------------------------------------------------------
LEMMA Inductive == IInv /\ [Next]_vars => IInv'
<1> SUFFICES ASSUME IInv, [Next]_vars
             PROVE  IInv'
  OBVIOUS
<1>0. \A e \in Endpoints : IsCurrent(e) => ~stopped /\ endpoint = e
  BY DEF IsCurrent
<1>1. CASE Start
  <2>1. endpoint = NoEndpoint
    BY <1>1 DEF Start, IInv, OneAttempt
  <2>2. QED
    BY <1>1, <2>1, ConnectKeeps DEF Start
<1>2. CASE RetryFires
  <2>1. retryTimer /\ ~stopped /\ endpoint = NoEndpoint
    BY <1>2 DEF RetryFires, IInv, OneAttempt
  <2>2. Connect /\ UNCHANGED <<stopped, beat, calm>>
    BY <1>2, <2>1 DEF RetryFires
  <2>3. stopped' = FALSE
    BY <2>1, <2>2 DEF IInv, TypeOK
  <2>4. QED
    BY <2>1, <2>2, <2>3, ConnectKeeps
<1>3. CASE Stop
  <2> USE ConnectionAssumption DEF ConnectionAssumption, IInv, Stop, Closed, NoBeat
  <2>1. TypeOK'
    <3>1. beat' \in [socket : Endpoints \cup {NoEndpoint}, overdue : BOOLEAN]
      BY <1>3
    <3>2. socket' \in [Endpoints -> {"unused", "dialing", "open", "dead", "failed", "ended",
                                    "closed", "terminated"}]
      BY <1>3 DEF TypeOK
    <3>3. QED
      BY <1>3, <3>1, <3>2 DEF TypeOK
  <2>2. OneAttempt' /\ ConnectedIsSupervised'
    BY <1>3 DEF OneAttempt, ConnectedIsSupervised
  <2>3. NoLeakedSocket'
    BY <1>3 DEF NoLeakedSocket, TypeOK
  <2>4. FirstSubscription' /\ Overdue'
    BY <1>3 DEF FirstSubscription, TypeOK, Overdue
  <2>5. QED
    BY <2>1, <2>2, <2>3, <2>4
<1>4. ASSUME NEW e \in Endpoints, Opened(e)
      PROVE  IInv'
  <2>1. /\ e \in opening /\ socket[e] \in {"open", "dead"}
        /\ opening' = opening \ {e}
        /\ UNCHANGED <<stopped, calm>>
    BY <1>4 DEF Opened
  <2>2. CASE IsCurrent(e) /\ Established(e)
    BY <2>1, <2>2, EstablishedKeeps
  <2>3. CASE IsCurrent(e) /\ GiveUp(e) /\ UNCHANGED subscribed
    <3>1. socket' = [socket EXCEPT ![endpoint] = "closed"]
      BY <1>0, <2>1, <2>3 DEF GiveUp, CloseSocket, Closed
    <3>2. Disconnect(e, connected)
      BY <2>3 DEF GiveUp
    <3>3. QED
      BY <2>1, <2>3, <3>1, <3>2, OutageReported, OutageKeeps
  <2>4. CASE Stale
    BY <2>1, <2>4, LateKeeps DEF Stale
  <2>5. QED
    BY <1>4, <2>2, <2>3, <2>4 DEF Opened
<1>5. ASSUME NEW e \in Endpoints, OpenRejected(e)
      PROVE  IInv'
  <2>1. /\ e \in opening /\ Closed(e)
        /\ opening' = opening \ {e}
        /\ UNCHANGED <<stopped, calm>>
    BY <1>5 DEF OpenRejected
  <2>2. CASE IsCurrent(e) /\ GiveUp(e) /\ UNCHANGED subscribed
    <3>1. socket' = [socket EXCEPT ![endpoint] = socket[e]]
      BY <1>0, <2>1, <2>2 DEF GiveUp, CloseSocket, IInv, TypeOK
    <3>2. Disconnect(e, connected)
      BY <2>2 DEF GiveUp
    <3>3. socket[e] \in {"failed", "ended", "closed", "terminated"}
      BY <2>1 DEF Closed
    <3>4. QED
      BY <2>1, <2>2, <3>1, <3>2, <3>3, OutageReported, OutageKeeps
  <2>3. CASE Stale
    BY <2>1, <2>3, LateKeeps DEF Stale
  <2>4. QED
    BY <1>5, <2>2, <2>3 DEF OpenRejected
<1>6. ASSUME NEW e \in Endpoints, Handshake(e) \/ HalfOpen(e)
      PROVE  IInv'
  <2> USE DEF IInv
  <2>1. /\ socket[e] \in {"dialing", "open"}
        /\ \E result \in {"open", "failed", "dead"} : socket' = [socket EXCEPT ![e] = result]
        /\ UNCHANGED <<stopped, endpoint, retryTimer, retryFailures, reconnecting, beat,
                       opening, subscribed, connected, calm>>
    BY <1>6 DEF Handshake, HalfOpen
  <2>2. TypeOK'
    BY <2>1 DEF TypeOK
  <2>3. OneAttempt' /\ ConnectedIsSupervised'
    BY <2>1 DEF OneAttempt, ConnectedIsSupervised
  <2>4. NoLeakedSocket'
    BY <2>1 DEF NoLeakedSocket, TypeOK
  <2>5. FirstSubscription' /\ Overdue'
    BY <2>1 DEF FirstSubscription, TypeOK, Overdue
  <2>6. QED
    BY <2>2, <2>3, <2>4, <2>5
<1>7. ASSUME NEW e \in Endpoints, End(e) \/ LateEnd(e)
      PROVE  IInv'
  <2>1. /\ socket' = [socket EXCEPT ![e] = "ended"]
        /\ Disconnect(e, connected)
        /\ UNCHANGED <<stopped, opening, subscribed, calm>>
    BY <1>7 DEF End, LateEnd
  <2>2. CASE IsCurrent(e)
    BY <1>0, <2>1, <2>2, OutageReported, OutageKeeps
  <2>3. CASE ~IsCurrent(e)
    <3>1. UNCHANGED <<beat, endpoint, reconnecting, retryTimer, retryFailures, connected>>
      BY <2>1, <2>3 DEF Disconnect
    <3>2. QED
      BY <2>1, <3>1, LateKeeps
  <2>4. QED
    BY <2>2, <2>3
<1>8. CASE (SendPing \/ Deadline) /\ Expire
  <2>1. beat.socket # NoEndpoint
    BY <1>8, ConnectionAssumption DEF SendPing, Deadline, IInv, Overdue
  <2>2. /\ connected /\ beat.socket = endpoint /\ endpoint \in Endpoints
        /\ ~stopped
    BY <2>1 DEF IInv, ConnectedIsSupervised, TypeOK, OneAttempt
  <2>3. IsCurrent(endpoint)
    BY <2>2 DEF IsCurrent
  <2>4. Disconnect(endpoint, FALSE) /\ UNCHANGED <<stopped, opening, subscribed, calm>>
    BY <1>8 DEF SendPing, Deadline, Expire
  <2>5. \E end \in {"failed", "ended", "closed", "terminated"} :
          socket' = [socket EXCEPT ![endpoint] = end]
    BY <1>8, <2>2 DEF Expire, Closed
  <2>6. QED
    BY <2>2, <2>3, <2>4, <2>5, OutageReported, OutageKeeps
<1>9. CASE (SendPing /\ beat' = [beat EXCEPT !.overdue = TRUE] /\
            UNCHANGED <<endpoint, retryTimer, retryFailures, reconnecting, socket, connected>>)
           \/ HandlePong
  <2> USE DEF IInv
  <2>1. /\ beat.socket # NoEndpoint
        /\ beat' \in [socket : Endpoints \cup {NoEndpoint}, overdue : BOOLEAN]
        /\ beat'.socket = beat.socket
        /\ UNCHANGED <<stopped, endpoint, retryTimer, retryFailures, reconnecting, opening,
                       socket, subscribed, connected, calm>>
    BY <1>9 DEF SendPing, HandlePong, Overdue, TypeOK
  <2>2. TypeOK'
    BY <2>1 DEF TypeOK
  <2>3. OneAttempt' /\ ConnectedIsSupervised' /\ NoLeakedSocket' /\ FirstSubscription'
    BY <2>1 DEF OneAttempt, ConnectedIsSupervised, NoLeakedSocket, FirstSubscription
  <2>4. Overdue'
    BY <2>1 DEF Overdue
  <2>5. QED
    BY <2>2, <2>3, <2>4
<1>10. CASE Calm \/ UNCHANGED vars
  <2> USE DEF IInv
  <2>1. /\ UNCHANGED <<stopped, endpoint, retryTimer, retryFailures, reconnecting, beat,
                       opening, socket, subscribed, connected>>
        /\ calm' \in BOOLEAN
    BY <1>10 DEF Calm, vars, TypeOK
  <2>2. TypeOK'
    BY <2>1 DEF TypeOK
  <2>3. /\ OneAttempt' /\ ConnectedIsSupervised' /\ NoLeakedSocket' /\ FirstSubscription'
        /\ Overdue'
    BY <2>1 DEF OneAttempt, ConnectedIsSupervised, NoLeakedSocket, FirstSubscription, Overdue
  <2>4. QED
    BY <2>2, <2>3
<1>11. QED
  BY <1>1, <1>2, <1>3, <1>4, <1>5, <1>6, <1>7, <1>8, <1>9, <1>10 DEF Next, SendPing, Deadline

LEMMA Invariant == Spec => []IInv
  BY Initially, Inductive, PTL DEF Spec

(***************************************************************************)
(* For every number of endpoints: a running connection has an endpoint or  *)
(* a retry and never both, and no endpoint that was given up keeps a       *)
(* socket (connect, handleDisconnect, scheduleRetry and stop of            *)
(* ChronikClientLiveConnection).                                           *)
(***************************************************************************)
THEOREM OneConnection == Spec => [](TypeOK /\ OneSocket)
<1>1. IInv => TypeOK /\ OneSocket
  BY DEF IInv, OneSocket
<1>2. QED
  BY Invariant, <1>1, PTL

(***************************************************************************)
(* The daemon is told that it is connected exactly while a heartbeat       *)
(* watches the one socket that has subscribed, so a connection that dies   *)
(* silently is found out (connect, the expire of ChronikWsHeartbeat).      *)
(***************************************************************************)
THEOREM Supervised == Spec => []ConnectedIsSupervised
<1>1. IInv => ConnectedIsSupervised
  BY DEF IInv
<1>2. QED
  BY Invariant, <1>1, PTL
=============================================================================
