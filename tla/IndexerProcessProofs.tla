------------------------ MODULE IndexerProcessProofs ------------------------
(***************************************************************************)
(* What holds of every indexer process, however many others open its file  *)
(* and however many reconciliations are scheduled at once: user_version    *)
(* tells what the file holds, and the timer of the routine scans is one.   *)
(***************************************************************************)
EXTENDS IndexerProcess, SequenceTheorems, FiniteSetTheorems, TLAPS

-----------------------------------------------------------------------------
(***************************************************************************)
(* The strengthening of VersionTellsSchema: a process that migrates is     *)
(* never ahead of the file by more than the migration it is about to run.  *)
(* A process that fell behind finds that migration's object.               *)
(***************************************************************************)
NeverAhead ==
  \A p \in Instances :
    opener[p].phase = "migrating" =>
      /\ opener[p].next <= schema.version + 1
      /\ opener[p].next <= opener[p].release

SchemaIInv == SchemaTypeOK /\ VersionTellsSchema /\ NeverAhead

(***************************************************************************)
(* A migration (runMigrations) keeps the version and the objects of the    *)
(* file in step, and a version is never taken back by it.                  *)
(***************************************************************************)
LEMMA MigrateMoves ==
  ASSUME SchemaIInv, NEW p \in Instances, Migrate(p)
  PROVE  /\ schema.version <= schema'.version
         /\ schema'.version = opener[p].next
         /\ schema'.objects = schema.objects \cup {opener[p].next}
         /\ opener[p].next \in 1 .. CURRENT_SCHEMA_VERSION
         /\ opener[p].next <= schema.version + 1
<1>1. /\ opener[p].phase = "migrating"
      /\ opener[p].next \in schema.objects => opener[p].next = 5
      /\ schema' = [version |-> opener[p].next, objects |-> schema.objects \cup {opener[p].next}]
  BY DEF Migrate, Applied, Idempotent
<1>2. /\ opener[p].next \in 1 .. 6
      /\ opener[p].release \in 1 .. 5
      /\ schema.version \in 0 .. 5
      /\ schema.objects \subseteq 1 .. 5
  BY DEF SchemaIInv, SchemaTypeOK, Releases, CURRENT_SCHEMA_VERSION
<1>3. opener[p].next <= schema.version + 1 /\ opener[p].next <= opener[p].release
  BY <1>1 DEF SchemaIInv, NeverAhead
<1>4. 1 .. schema.version \subseteq schema.objects
  BY DEF SchemaIInv, VersionTellsSchema
<1>5. schema.version <= opener[p].next
  <2>1. CASE opener[p].next \in schema.objects
    BY <2>1, <1>1, <1>2
  <2>2. CASE opener[p].next \notin schema.objects
    <3>1. opener[p].next \notin 1 .. schema.version
      BY <2>2, <1>4
    <3>2. QED
      BY <3>1, <1>2
  <2>3. QED
    BY <2>1, <2>2
<1>6. QED
  BY <1>1, <1>2, <1>3, <1>5 DEF CURRENT_SCHEMA_VERSION

LEMMA SchemaInitially == SchemaInit => SchemaIInv
  BY DEF SchemaInit, SchemaIInv, SchemaTypeOK, VersionTellsSchema, NeverAhead, Closed,
         Releases, CURRENT_SCHEMA_VERSION

LEMMA SchemaInductive == SchemaIInv /\ [SchemaNext]_schemaVars => SchemaIInv'
<1> SUFFICES ASSUME SchemaIInv, [SchemaNext]_schemaVars
             PROVE  SchemaIInv'
  OBVIOUS
<1> USE DEF SchemaIInv
<1>1. CASE UNCHANGED schemaVars
  BY <1>1 DEF schemaVars, SchemaTypeOK, VersionTellsSchema, NeverAhead
<1>2. ASSUME NEW p \in Instances, NEW release \in Releases, Open(p, release)
      PROVE  SchemaIInv'
  BY <1>2 DEF Open, SchemaTypeOK, VersionTellsSchema, NeverAhead, Releases, CURRENT_SCHEMA_VERSION
<1>3. ASSUME NEW p \in Instances, Migrate(p)
      PROVE  SchemaIInv'
  <2> DEFINE m == opener[p].next
  <2>1. /\ schema.version <= schema'.version /\ schema'.version = m
        /\ schema'.objects = schema.objects \cup {m}
        /\ m \in 1 .. 5
        /\ m <= schema.version + 1
    BY <1>3, MigrateMoves DEF CURRENT_SCHEMA_VERSION
  <2>2. opener' = [opener EXCEPT ![p] =
          [phase |-> IF m = opener[p].release THEN "open" ELSE "migrating",
           release |-> opener[p].release, next |-> m + 1]]
    BY <1>3 DEF Migrate
  <2>3. opener[p].phase = "migrating" /\ m <= opener[p].release
    BY <1>3 DEF Migrate, NeverAhead
  <2>4. SchemaTypeOK'
    <3>1. schema' = [version |-> m, objects |-> schema.objects \cup {m}]
      BY <1>3 DEF Migrate, Applied
    <3>2. schema' \in [version : 0 .. CURRENT_SCHEMA_VERSION, objects : SUBSET Releases]
      BY <2>1, <3>1 DEF SchemaTypeOK, Releases, CURRENT_SCHEMA_VERSION
    <3>5. m + 1 \in 1 .. CURRENT_SCHEMA_VERSION + 1
      BY <2>1 DEF CURRENT_SCHEMA_VERSION
    <3>6. opener[p].release \in Releases
      BY DEF SchemaTypeOK
    <3>7. QED
      BY <2>2, <3>2, <3>5, <3>6 DEF SchemaTypeOK
  <2>5. VersionTellsSchema'
    <3>1. 1 .. m \subseteq schema'.objects
      BY <2>1 DEF VersionTellsSchema, SchemaTypeOK, CURRENT_SCHEMA_VERSION
    <3>2. schema'.objects \ (1 .. m) \subseteq {CURRENT_SCHEMA_VERSION}
      BY <2>1 DEF VersionTellsSchema, SchemaTypeOK, CURRENT_SCHEMA_VERSION
    <3>3. ASSUME NEW q \in Instances, opener'[q].phase = "open"
          PROVE  1 .. opener'[q].release \subseteq schema'.objects
      BY <2>1, <2>2, <3>1, <3>3 DEF VersionTellsSchema, SchemaTypeOK
    <3>4. QED
      BY <2>1, <3>1, <3>2, <3>3 DEF VersionTellsSchema
  <2>6. NeverAhead'
    BY <2>1, <2>2, <2>3 DEF NeverAhead, SchemaTypeOK, Releases, CURRENT_SCHEMA_VERSION
  <2>7. QED
    BY <2>4, <2>5, <2>6
<1>4. ASSUME NEW p \in Instances, MigrateFails(p) \/ Leave(p)
      PROVE  SchemaIInv'
  BY <1>4 DEF MigrateFails, Leave, Closed, SchemaTypeOK, VersionTellsSchema, NeverAhead, Releases,
              CURRENT_SCHEMA_VERSION
<1>5. CASE RollBack
  BY <1>5 DEF RollBack, SchemaTypeOK, VersionTellsSchema, NeverAhead, Releases, CURRENT_SCHEMA_VERSION
<1>6. QED
  BY <1>1, <1>2, <1>3, <1>4, <1>5 DEF SchemaNext

(***************************************************************************)
(* user_version tells what the file holds, however many processes of       *)
(* however many releases open it, die in it or migrate it at once          *)
(* (openIndexerDatabase, runMigrations).                                   *)
(***************************************************************************)
THEOREM VersionTells == SchemaSpec => []VersionTellsSchema
<1>1. SchemaIInv => VersionTellsSchema
  BY DEF SchemaIInv
<1>2. QED
  BY SchemaInitially, SchemaInductive, <1>1, PTL DEF SchemaSpec

(* A step of the indexer and of the others is a step of the file, or none. *)
LEMMA ProcessStepsSchema == [ProcessNext]_processVars => [SchemaNext]_schemaVars
<1> SUFFICES ASSUME [ProcessNext]_processVars
             PROVE  [SchemaNext]_schemaVars
  OBVIOUS
<1> USE IndexerAssumption
<1>1. CASE OpenDatabase
  BY <1>1 DEF OpenDatabase, SchemaNext, Releases, CURRENT_SCHEMA_VERSION
<1>2. CASE MigrateDatabase
  BY <1>2 DEF MigrateDatabase, SchemaNext
<1>3. CASE Run
  BY <1>3 DEF Run
<1>4. CASE Exit \/ Crash
  BY <1>4 DEF Exit, Crash, Renewed, SchemaNext
<1>5. CASE OthersDo
  BY <1>5 DEF OthersDo, SchemaNext
<1>6. CASE Calm /\ UNCHANGED schemaVars
  BY <1>6
<1>7. CASE UNCHANGED processVars
  BY <1>7 DEF processVars, schemaVars
<1>8. QED
  BY <1>1, <1>2, <1>3, <1>4, <1>5, <1>6, <1>7 DEF ProcessNext

(* The same of the composition, in which the indexer restarts for ever.    *)
THEOREM ProcessVersionTells == ProcessSpec => []VersionTellsSchema
<1>1. ProcessInit => SchemaInit
  BY DEF ProcessInit
<1>2. QED
  BY <1>1, ProcessStepsSchema, VersionTells, PTL DEF ProcessSpec, SchemaSpec

-----------------------------------------------------------------------------
(***************************************************************************)
(* OnePeriodic.  The reconciliation that start waits for is told apart by  *)
(* its awaiter: until it has succeeded there is no routine scan, and the   *)
(* timer is armed only then or by a routine scan that ends.                *)
(***************************************************************************)
Scan(i) == tail[i].kind = "periodic"

TailOK == tail \in Seq(Task)

OneScan == \A i, j \in DOMAIN tail : Scan(i) /\ Scan(j) => i = j

TimerOrScan == periodicTimer => \A i \in DOMAIN tail : ~Scan(i)

NoScanBeforeStart ==
  starting # "done" => ~periodicTimer /\ \A i \in DOMAIN tail : ~Scan(i)

ScanKept ==
  starting = "done" /\ ~stopping => periodicTimer \/ \E i \in DOMAIN tail : Scan(i)

StartAwaited ==
  \A i \in DOMAIN tail :
    "start" \in tail[i].awaiters =>
      /\ starting = "reconciling"
      /\ \A j \in DOMAIN tail : "start" \in tail[j].awaiters => i = j

StoppedState ==
  /\ state = "stopped" => starting = "no" \/ stopping
  /\ closing \in {"tail", "queue"} => stopping

ScanIInv ==
  /\ TailOK
  /\ OneScan /\ TimerOrScan /\ NoScanBeforeStart /\ ScanKept
  /\ StartAwaited /\ StoppedState

scanVars == <<tail, periodicTimer, starting, stopping, state, closing>>

LEMMA ScanInitially == Init => ScanIInv
  BY DEF Init, ScanIInv, TailOK, OneScan, TimerOrScan, NoScanBeforeStart, ScanKept,
         StartAwaited, StoppedState, Scan

(* What scheduling a reconciliation that is no routine scan keeps.         *)
LEMMA ScheduleKeeps ==
  ASSUME ScanIInv, NEW kind \in {"initial", "connect", "reorg"},
         NEW awaiters \in SUBSET {"start", "stop"},
         Schedule(kind, awaiters),
         "start" \in awaiters => starting # "reconciling" /\ starting' = "reconciling",
         starting = "reconciling" => starting' = "reconciling",
         starting' = "done" <=> starting = "done",
         UNCHANGED <<periodicTimer, stopping>>
  PROVE  /\ TailOK' /\ OneScan' /\ TimerOrScan' /\ NoScanBeforeStart'
         /\ ScanKept' /\ StartAwaited'
<1> DEFINE task == NewTask(kind, awaiters)
<1>1. task \in Task /\ task.kind = kind /\ task.awaiters = awaiters
  BY DEF NewTask, Task
<1>2. /\ tail' \in Seq(Task)
      /\ DOMAIN tail' = 1 .. Len(tail) + 1
      /\ DOMAIN tail = 1 .. Len(tail)
      /\ Len(tail) \in Nat
      /\ \A i \in DOMAIN tail : tail'[i] = tail[i]
      /\ tail'[Len(tail) + 1] = task
  BY <1>1 DEF Schedule, ScanIInv, TailOK
<1>3. \A i \in DOMAIN tail' : (i \in DOMAIN tail /\ tail'[i] = tail[i]) \/ (i = Len(tail) + 1 /\ tail'[i] = task)
  BY <1>2
<1>4. \A i \in DOMAIN tail' : Scan(i)' => i \in DOMAIN tail /\ Scan(i)
  BY <1>1, <1>3 DEF Scan
<1>5. \A i \in DOMAIN tail : i \in DOMAIN tail' /\ (Scan(i) => Scan(i)')
  BY <1>2 DEF Scan
<1>6. TailOK' /\ OneScan' /\ TimerOrScan' /\ NoScanBeforeStart' /\ ScanKept'
  BY <1>2, <1>4, <1>5 DEF ScanIInv, TailOK, OneScan, TimerOrScan, NoScanBeforeStart, ScanKept
<1>7. StartAwaited'
  BY <1>1, <1>3 DEF ScanIInv, StartAwaited
<1>8. QED
  BY <1>6, <1>7

(* What the tail of a sequence of reconciliations is.                      *)
LEMMA TailOfTail ==
  ASSUME TailOK, tail # <<>>
  PROVE  /\ Head(tail) = tail[1]
         /\ 1 \in DOMAIN tail
         /\ tail[1] \in Task
         /\ Tail(tail) \in Seq(Task)
         /\ \A i \in DOMAIN Tail(tail) : /\ i + 1 \in DOMAIN tail
                                         /\ i + 1 # 1
                                         /\ Tail(tail)[i] = tail[i + 1]
         /\ \A i \in DOMAIN tail : i # 1 => /\ i - 1 \in DOMAIN Tail(tail)
                                            /\ Tail(tail)[i - 1] = tail[i]
  BY DEF TailOK

(* The end of a reconciliation (the continuations of runReconciliation, of *)
(* startInternal and of the periodic timer).                               *)
LEMMA SettleKeeps ==
  ASSUME ScanIInv, tail # <<>>, NEW ok \in BOOLEAN, Settle(ok), UNCHANGED stopping
  PROVE  ScanIInv'
<1> USE DEF ScanIInv
<1> DEFINE task == tail[1]
<1>1. /\ Head(tail) = task
      /\ tail' = Tail(tail)
      /\ closing' = IF "stop" \in task.awaiters /\ closing = "tail" THEN "queue" ELSE closing
  BY TailOfTail DEF Settle
<1>2. TailOK'
  BY <1>1, TailOfTail DEF TailOK
<1>3. \A i \in DOMAIN tail' : Scan(i)' => i + 1 \in DOMAIN tail /\ i + 1 # 1 /\ Scan(i + 1)
  BY <1>1, TailOfTail DEF Scan
<1>4. \A i \in DOMAIN tail : Scan(i) => i = 1 \/ (i - 1 \in DOMAIN tail' /\ Scan(i - 1)')
  BY <1>1, TailOfTail DEF Scan
<1>5. \A i \in DOMAIN tail' : i \in Int
  BY <1>2 DEF TailOK
<1>6. OneScan'
  BY <1>3, <1>5 DEF OneScan
<1>7. \A i \in DOMAIN tail' : "start" \in tail'[i].awaiters =>
        i + 1 \in DOMAIN tail /\ i + 1 # 1 /\ "start" \in tail[i + 1].awaiters
  BY <1>1, TailOfTail
<1>8. 1 \in DOMAIN tail
  BY TailOfTail
<1>9. CASE "start" \notin task.awaiters
  <2>1. /\ state' = Continued(task, ok)
        /\ periodicTimer' = (periodicTimer \/ Rearmed(task))
        /\ starting' = starting
    BY <1>1, <1>9 DEF Settle
  <2>2. Rearmed(task) => Scan(1) /\ ~stopping
    BY DEF Rearmed, Scan
  <2>3. Scan(1) => \A i \in DOMAIN tail' : ~Scan(i)'
    BY <1>3, <1>8 DEF OneScan
  <2>4. TimerOrScan'
    BY <1>3, <2>1, <2>2, <2>3 DEF TimerOrScan
  <2>5. NoScanBeforeStart'
    BY <1>3, <1>8, <2>1, <2>2 DEF NoScanBeforeStart
  <2>6. ASSUME starting = "done", ~stopping, Scan(1)
        PROVE  Rearmed(task)
    BY <2>6 DEF Rearmed, Scan, StoppedState
  <2>7. ScanKept'
    <3> SUFFICES ASSUME starting' = "done", ~stopping'
                 PROVE  periodicTimer' \/ \E i \in DOMAIN tail' : Scan(i)'
      BY DEF ScanKept
    <3>1. periodicTimer \/ \E i \in DOMAIN tail : Scan(i)
      BY <2>1 DEF ScanKept
    <3>2. QED
      BY <1>4, <2>1, <2>6, <3>1
  <2>8. StartAwaited'
    BY <1>5, <1>7, <2>1 DEF StartAwaited
  <2>9. state' = "stopped" => state = "stopped"
    BY <2>1 DEF Continued
  <2>10. StoppedState'
    BY <1>1, <2>1, <2>9 DEF StoppedState
  <2>11. QED
    BY <1>2, <1>6, <2>4, <2>5, <2>7, <2>8, <2>10
<1>10. CASE "start" \in task.awaiters
  <2>1. starting = "reconciling"
    BY <1>8, <1>10 DEF StartAwaited
  <2>2. ~periodicTimer /\ \A i \in DOMAIN tail' : ~Scan(i)'
    BY <1>3, <2>1 DEF NoScanBeforeStart
  <2>3. \/ ok /\ ~stopping /\ state' = "running" /\ periodicTimer' = TRUE /\ starting' = "done"
        \/ ok /\ stopping /\ starting' = "done" /\ UNCHANGED <<state, periodicTimer>>
        \/ ~ok /\ state' = "failed" /\ starting' = "failed" /\ UNCHANGED periodicTimer
    BY <1>1, <1>10 DEF Settle
  <2>4. TimerOrScan' /\ NoScanBeforeStart' /\ ScanKept'
    BY <2>2, <2>3 DEF TimerOrScan, NoScanBeforeStart, ScanKept
  <2>5. StoppedState'
    BY <1>1, <2>1, <2>3 DEF StoppedState
  <2>6. \A i \in DOMAIN tail' : "start" \notin tail'[i].awaiters
    BY <1>7, <1>8, <1>10 DEF StartAwaited
  <2>7. QED
    BY <1>2, <1>6, <2>4, <2>5, <2>6 DEF StartAwaited
<1>11. QED
  BY <1>9, <1>10

(* A reconciliation that moves on, or gets one more awaiter.               *)
LEMMA ReshapeKeeps ==
  ASSUME ScanIInv, tail' \in Seq(Task), DOMAIN tail' = DOMAIN tail,
         \A i \in DOMAIN tail :
           /\ tail'[i].kind = tail[i].kind
           /\ "start" \in tail'[i].awaiters => "start" \in tail[i].awaiters,
         starting' = starting,
         periodicTimer' = periodicTimer \/ (periodicTimer' = FALSE /\ stopping'),
         stopping => stopping'
  PROVE  /\ TailOK' /\ OneScan' /\ TimerOrScan' /\ NoScanBeforeStart'
         /\ ScanKept' /\ StartAwaited'
<1>1. \A i \in DOMAIN tail : Scan(i)' <=> Scan(i)
  BY DEF Scan
<1>2. periodicTimer' => periodicTimer
  OBVIOUS
<1>3. TailOK' /\ OneScan' /\ StartAwaited'
  BY <1>1 DEF ScanIInv, TailOK, OneScan, StartAwaited
<1>4. TimerOrScan' /\ NoScanBeforeStart'
  BY <1>1, <1>2 DEF ScanIInv, TimerOrScan, NoScanBeforeStart
<1>5. ScanKept'
  BY <1>1 DEF ScanIInv, ScanKept
<1>6. QED
  BY <1>3, <1>4, <1>5

LEMMA AdvanceShape ==
  ASSUME TailOK, tail # <<>>, NEW phase \in {"rows", "confirmed", "unconfirmed"},
         Advance(phase)
  PROVE  /\ tail' \in Seq(Task)
         /\ DOMAIN tail' = DOMAIN tail
         /\ \A i \in DOMAIN tail : /\ tail'[i].kind = tail[i].kind
                                   /\ tail'[i].awaiters = tail[i].awaiters
                                   /\ i # 1 => tail'[i] = tail[i]
<1>1. tail' = [tail EXCEPT ![1].phase = phase]
  BY DEF Advance
<1>2. DOMAIN tail' = DOMAIN tail /\ DOMAIN tail = 1 .. Len(tail) /\ Len(tail) \in Nat /\ 1 \in DOMAIN tail
  BY <1>1 DEF TailOK
<1>3. \A i \in DOMAIN tail : tail[i] \in Task
  BY DEF TailOK
<1>4. [tail[1] EXCEPT !.phase = phase] \in Task
  BY <1>2, <1>3 DEF Task
<1>5. \A i \in DOMAIN tail : tail'[i] \in Task
  BY <1>1, <1>3, <1>4
<1>6. tail' \in [1 .. Len(tail) -> Task]
  BY <1>1, <1>2, <1>5
<1>7. tail' \in Seq(Task)
  BY <1>2, <1>6, SeqDef
<1>8. tail'[1].kind = tail[1].kind /\ tail'[1].awaiters = tail[1].awaiters
  BY <1>1, <1>2, <1>3 DEF Task
<1>9. \A i \in DOMAIN tail : i # 1 => tail'[i] = tail[i]
  BY <1>1, <1>2
<1>10. QED
  BY <1>2, <1>7, <1>8, <1>9

LEMMA StopShape ==
  ASSUME TailOK, tail # <<>>,
         tail' = [tail EXCEPT ![Len(tail)].awaiters = @ \cup {"stop"}]
  PROVE  /\ tail' \in Seq(Task)
         /\ DOMAIN tail' = DOMAIN tail
         /\ \A i \in DOMAIN tail : /\ tail'[i].kind = tail[i].kind
                                   /\ tail'[i].phase = tail[i].phase
                                   /\ "start" \in tail'[i].awaiters => "start" \in tail[i].awaiters
                                   /\ i # Len(tail) => tail'[i] = tail[i]
<1>1. DOMAIN tail' = DOMAIN tail /\ DOMAIN tail = 1 .. Len(tail) /\ Len(tail) \in Nat /\ Len(tail) \in DOMAIN tail
  BY DEF TailOK
<1>2. \A i \in DOMAIN tail : tail[i] \in Task
  BY DEF TailOK
<1>3. [tail[Len(tail)] EXCEPT !.awaiters = @ \cup {"stop"}] \in Task
  BY <1>1, <1>2 DEF Task
<1>4. \A i \in DOMAIN tail : tail'[i] \in Task
  BY <1>2, <1>3
<1>5. tail' \in [1 .. Len(tail) -> Task]
  BY <1>1, <1>4
<1>6. tail' \in Seq(Task)
  BY <1>1, <1>5, SeqDef
<1>7. /\ tail'[Len(tail)].kind = tail[Len(tail)].kind
      /\ tail'[Len(tail)].phase = tail[Len(tail)].phase
      /\ "start" \in tail'[Len(tail)].awaiters => "start" \in tail[Len(tail)].awaiters
  BY <1>1, <1>2 DEF Task
<1>8. \A i \in DOMAIN tail : i # Len(tail) => tail'[i] = tail[i]
  BY <1>1
<1>9. QED
  BY <1>1, <1>6, <1>7, <1>8

LEMMA ScanInductive == ScanIInv /\ [Next]_vars => ScanIInv'
<1> SUFFICES ASSUME ScanIInv, [Next]_vars
             PROVE  ScanIInv'
  OBVIOUS
<1>1. CASE UNCHANGED scanVars
  BY <1>1 DEF scanVars, ScanIInv, TailOK, OneScan, TimerOrScan, NoScanBeforeStart, ScanKept,
              StartAwaited, StoppedState, Scan
<1>2. CASE Start
  BY <1>2 DEF Start, ScanIInv, TailOK, OneScan, TimerOrScan, NoScanBeforeStart, ScanKept,
              StartAwaited, StoppedState, Scan
<1>3. CASE FirstAttempt
  <2>1. Schedule("connect", {"start"}) \/ Schedule("initial", {"start"})
    BY <1>3 DEF FirstAttempt
  <2>2. starting = "connecting" /\ starting' = "reconciling" /\ UNCHANGED <<periodicTimer, stopping, closing>>
    BY <1>3 DEF FirstAttempt
  <2>3. state' = state \/ state' = "reconnecting"
    BY <1>3 DEF FirstAttempt
  <2>4. StoppedState'
    BY <2>2, <2>3 DEF ScanIInv, StoppedState
  <2>5. QED
    BY <2>1, <2>2, <2>4, ScheduleKeeps DEF ScanIInv
<1>4. CASE HandleConnect
  <2>1. Schedule("connect", {}) /\ UNCHANGED <<state, stopping, starting, periodicTimer, closing>>
    BY <1>4 DEF HandleConnect
  <2>2. QED
    BY <2>1, ScheduleKeeps DEF ScanIInv, StoppedState
<1>5. CASE HandleReconnect
  <2>1. state' = "reconnecting" /\ UNCHANGED <<tail, stopping, starting, periodicTimer, closing>>
    BY <1>5 DEF HandleReconnect
  <2>2. QED
    BY <2>1 DEF ScanIInv, TailOK, OneScan, TimerOrScan, NoScanBeforeStart, ScanKept,
                StartAwaited, StoppedState, Scan
<1>6. CASE HandleLiveEvent
  <2>1. UNCHANGED <<state, stopping, starting, periodicTimer, closing>>
    BY <1>6 DEF HandleLiveEvent
  <2>2. UNCHANGED tail \/ Schedule("reorg", {})
    BY <1>6 DEF HandleLiveEvent
  <2>3. CASE UNCHANGED tail
    BY <2>1, <2>3, <1>1 DEF scanVars
  <2>4. CASE Schedule("reorg", {})
    BY <2>1, <2>4, ScheduleKeeps DEF ScanIInv, StoppedState
  <2>5. QED
    BY <2>2, <2>3, <2>4
<1>7. CASE RequestIndex \/ JobsDone \/ CallsEnd \/ StopBeforeStart \/ CloseDatabase \/ Calm
  <2>1. UNCHANGED <<tail, periodicTimer, starting, stopping, state>>
    BY <1>7 DEF RequestIndex, JobsDone, CallsEnd, StopBeforeStart, CloseDatabase, Calm
  <2>2. closing' = closing \/ closing' \in {"stopped", "closed"}
    BY <1>7 DEF RequestIndex, JobsDone, CallsEnd, StopBeforeStart, CloseDatabase, Calm
  <2>3. QED
    BY <2>1, <2>2 DEF ScanIInv, TailOK, OneScan, TimerOrScan, NoScanBeforeStart, ScanKept,
                      StartAwaited, StoppedState, Scan
<1>8. CASE TimerFires
  <2>1. /\ periodicTimer /\ periodicTimer' = FALSE
        /\ Schedule("periodic", {})
        /\ UNCHANGED <<state, stopping, starting, closing>>
    BY <1>8 DEF TimerFires
  <2> DEFINE task == NewTask("periodic", {})
  <2>2. task \in Task /\ task.kind = "periodic" /\ task.awaiters = {}
    BY DEF NewTask, Task
  <2>3. /\ tail' \in Seq(Task)
        /\ DOMAIN tail' = 1 .. Len(tail) + 1
        /\ DOMAIN tail = 1 .. Len(tail)
        /\ Len(tail) \in Nat
        /\ \A i \in DOMAIN tail : tail'[i] = tail[i]
        /\ tail'[Len(tail) + 1] = task
    BY <2>1, <2>2 DEF Schedule, ScanIInv, TailOK
  <2>4. \A i \in DOMAIN tail' : \/ i \in DOMAIN tail /\ tail'[i] = tail[i]
                                \/ i = Len(tail) + 1 /\ tail'[i] = task
    BY <2>3
  <2>5. \A i \in DOMAIN tail' : Scan(i)' => i = Len(tail) + 1
    BY <2>1, <2>4 DEF ScanIInv, TimerOrScan, Scan
  <2>6. \E i \in DOMAIN tail' : Scan(i)'
    <3>1. Len(tail) + 1 \in DOMAIN tail' /\ tail'[Len(tail) + 1].kind = "periodic"
      BY <2>2, <2>3
    <3>2. QED
      BY <3>1 DEF Scan
  <2>7. TailOK' /\ OneScan' /\ TimerOrScan' /\ ScanKept'
    BY <2>1, <2>3, <2>5, <2>6 DEF TailOK, OneScan, TimerOrScan, ScanKept
  <2>8. NoScanBeforeStart' /\ StoppedState'
    BY <2>1 DEF ScanIInv, NoScanBeforeStart, StoppedState
  <2>9. StartAwaited'
    BY <2>1, <2>2, <2>4 DEF ScanIInv, StartAwaited
  <2>10. QED
    BY <2>7, <2>8, <2>9 DEF ScanIInv
<1>9. CASE Reconcile
  <2>1. UNCHANGED stopping /\ tail # <<>>
    BY <1>9 DEF Reconcile, BeginTask, EndConfirmed, EndUnconfirmed, EndRows, InPhase
  <2>2. \/ \E ok \in BOOLEAN : Settle(ok)
        \/ \E phase \in {"rows", "confirmed", "unconfirmed"} : Advance(phase)
    BY <1>9 DEF Reconcile, BeginTask, EndConfirmed, EndUnconfirmed, EndRows
  <2>3. ASSUME NEW phase \in {"rows", "confirmed", "unconfirmed"}, Advance(phase)
        PROVE  ScanIInv'
    <3>1. UNCHANGED <<state, starting, periodicTimer, closing>>
      BY <2>3 DEF Advance
    <3>2. StoppedState'
      BY <2>1, <3>1 DEF ScanIInv, StoppedState
    <3>3. /\ tail' \in Seq(Task) /\ DOMAIN tail' = DOMAIN tail
          /\ \A i \in DOMAIN tail :
               /\ tail'[i].kind = tail[i].kind
               /\ "start" \in tail'[i].awaiters => "start" \in tail[i].awaiters
      <4>1. TailOK
        BY DEF ScanIInv
      <4>2. /\ tail' \in Seq(Task)
            /\ DOMAIN tail' = DOMAIN tail
            /\ \A i \in DOMAIN tail : /\ tail'[i].kind = tail[i].kind
                                      /\ tail'[i].awaiters = tail[i].awaiters
                                      /\ i # 1 => tail'[i] = tail[i]
        BY <2>1, <2>3, <4>1, AdvanceShape, Zenon
      <4>3. QED
        BY <4>2
    <3>4. /\ TailOK' /\ OneScan' /\ TimerOrScan' /\ NoScanBeforeStart'
          /\ ScanKept' /\ StartAwaited'
      BY <2>1, <3>1, <3>3, ReshapeKeeps
    <3>5. QED
      BY <3>2, <3>4 DEF ScanIInv
  <2>4. QED
    BY <2>1, <2>2, <2>3, SettleKeeps
<1>10. CASE Stop
  <2>1. /\ stopping' = TRUE /\ periodicTimer' = FALSE /\ state' = "stopping"
        /\ UNCHANGED starting
    BY <1>10 DEF Stop
  <2>2. StoppedState'
    BY <2>1 DEF StoppedState
  <2>3. CASE UNCHANGED tail
    BY <2>1, <2>2, <2>3 DEF ScanIInv, TailOK, OneScan, TimerOrScan, NoScanBeforeStart, ScanKept,
                            StartAwaited, Scan
  <2>4. CASE tail # <<>> /\ tail' = [tail EXCEPT ![Len(tail)].awaiters = @ \cup {"stop"}]
    <3>1. /\ tail' \in Seq(Task) /\ DOMAIN tail' = DOMAIN tail
          /\ \A i \in DOMAIN tail :
               /\ tail'[i].kind = tail[i].kind
               /\ "start" \in tail'[i].awaiters => "start" \in tail[i].awaiters
      BY <2>4, StopShape DEF ScanIInv
    <3>2. /\ TailOK' /\ OneScan' /\ TimerOrScan' /\ NoScanBeforeStart'
          /\ ScanKept' /\ StartAwaited'
      BY <2>1, <3>1, ReshapeKeeps
    <3>3. QED
      BY <2>2, <3>2 DEF ScanIInv
  <2>5. QED
    BY <1>10, <2>3, <2>4 DEF Stop
<1>11. CASE Deadline \/ Drained
  <2>1. /\ UNCHANGED <<tail, periodicTimer, starting, stopping>>
        /\ closing \in {"tail", "queue"} /\ closing' = "stopped"
    BY <1>11 DEF Deadline, Drained
  <2>2. QED
    BY <2>1 DEF ScanIInv, TailOK, OneScan, TimerOrScan, NoScanBeforeStart, ScanKept,
                StartAwaited, StoppedState, Scan
<1>12. CASE UNCHANGED vars
  BY <1>1, <1>12 DEF vars, scanVars
<1>13. QED
  BY <1>2, <1>3, <1>4, <1>5, <1>6, <1>7, <1>8, <1>9, <1>10, <1>11, <1>12 DEF Next

LEMMA ScanGivesOnePeriodic == ScanIInv => OnePeriodic
<1> SUFFICES ASSUME ScanIInv
             PROVE  OnePeriodic
  OBVIOUS
<1>1. \A i \in Periodic : i \in DOMAIN tail /\ Scan(i)
  BY DEF Periodic, Scan
<1>2. \A i \in DOMAIN tail : Scan(i) => i \in Periodic
  BY DEF Periodic, Scan
<1>3. periodicTimer => Periodic = {}
  BY <1>1 DEF ScanIInv, TimerOrScan
<1>4. Cardinality(Periodic) <= 1
  <2>1. CASE Periodic = {}
    BY <2>1, FS_EmptySet
  <2>2. CASE Periodic # {}
    <3>1. PICK i \in Periodic : TRUE
      BY <2>2
    <3>2. Periodic = {i}
      BY <1>1, <3>1 DEF ScanIInv, OneScan
    <3>3. Cardinality({i}) = 1
      BY FS_Singleton
    <3>4. QED
      BY <3>2, <3>3
  <2>3. QED
    BY <2>1, <2>2
<1>5. starting = "done" /\ ~stopping => periodicTimer \/ Periodic # {}
  BY <1>2 DEF ScanIInv, ScanKept
<1>6. QED
  BY <1>3, <1>4, <1>5 DEF OnePeriodic

(* What a step of the composition is for the daemon: one of its own, none, *)
(* or a new one that starts as every daemon does.                          *)
LEMMA ProcessStepsDaemon ==
  [ProcessNext]_processVars =>
    \/ [Next]_vars
    \/ /\ tail' = <<>> /\ periodicTimer' = FALSE /\ starting' = "no" /\ stopping' = FALSE
       /\ state' = "stopped" /\ closing' = "no" /\ link' = "none" /\ busy' = FALSE
       /\ late' = FALSE
  BY DEF ProcessNext, OpenDatabase, MigrateDatabase, Run, Exit, Crash, Renewed, OthersDo,
         processVars, Next

(***************************************************************************)
(* However many reconciliations are scheduled at once and however often    *)
(* the process restarts, there is one timer or one routine scan, and a     *)
(* daemon that has started keeps it (schedulePeriodicReconciliation and    *)
(* what startInternal and stop do with its timer).                         *)
(***************************************************************************)
THEOREM ProcessOnePeriodic == ProcessSpec => []OnePeriodic
<1>1. ProcessInit => ScanIInv
  BY ScanInitially DEF ProcessInit
<1>2. ScanIInv /\ [ProcessNext]_processVars => ScanIInv'
  <2> SUFFICES ASSUME ScanIInv, [ProcessNext]_processVars
               PROVE  ScanIInv'
    OBVIOUS
  <2>1. CASE [Next]_vars
    BY <2>1, ScanInductive
  <2>2. CASE /\ tail' = <<>> /\ periodicTimer' = FALSE /\ starting' = "no" /\ stopping' = FALSE
             /\ state' = "stopped" /\ closing' = "no"
    BY <2>2 DEF ScanIInv, TailOK, OneScan, TimerOrScan, NoScanBeforeStart, ScanKept,
                StartAwaited, StoppedState, Scan
  <2>3. QED
    BY <2>1, <2>2, ProcessStepsDaemon
<1>3. QED
  BY <1>1, <1>2, ScanGivesOnePeriodic, PTL DEF ProcessSpec

-----------------------------------------------------------------------------
(***************************************************************************)
(* QuietWhenClosed.  Once stop is called nothing is scheduled but by a     *)
(* start that still waits for its first attempt, and that returns at once. *)
(* So behind the reconciliation stop waits for there is nothing that runs, *)
(* and when it has settled, nothing at all.                                *)
(***************************************************************************)
Quiet(i) == tail[i].phase = "waiting" /\ tail[i].kind # "reorg"

AllQuiet == \A i \in DOMAIN tail : Quiet(i)

QuietBehindStop ==
  closing = "tail" =>
    \A i, j \in DOMAIN tail : "stop" \in tail[i].awaiters /\ i < j => Quiet(j)

StopAwaitedOnce ==
  closing = "no" => \A i \in DOMAIN tail : "stop" \notin tail[i].awaiters

Unplugged == stopping => link \in {"none", "stopped"} /\ ~periodicTimer

QuietAfterTail ==
  stopping /\ ~late /\ closing \in {"queue", "stopped", "closed"} => AllQuiet

IdleAfterDrain ==
  stopping /\ ~late /\ closing \in {"stopped", "closed"} => ~busy

NotStarted ==
  starting = "no" =>
    /\ state = "stopped" /\ ~stopping
    /\ tail = <<>> /\ link = "none" /\ ~periodicTimer

StopIInv ==
  /\ TailOK /\ NotStarted
  /\ QuietBehindStop /\ StopAwaitedOnce /\ Unplugged
  /\ QuietAfterTail /\ IdleAfterDrain
  /\ closing \in {"tail", "queue"} => stopping
  /\ stopping => closing # "no"

stopVars == <<stopping, link, tail, periodicTimer, busy, closing, late, starting, state>>

LEMMA StopInitially == Init => StopIInv
  BY DEF Init, StopIInv, TailOK, NotStarted, QuietBehindStop, StopAwaitedOnce, Unplugged, QuietAfterTail,
         IdleAfterDrain

(* The same tail, or one more reconciliation: it has no "stop" to wait for *)
(* and is quiet if stop has been called.                                   *)
LEMMA ScheduleQuiet ==
  ASSUME StopIInv, NEW kind \in {"initial", "connect", "periodic", "reorg"},
         NEW awaiters \in SUBSET {"start"},
         Schedule(kind, awaiters),
         stopping => kind = "initial",
         link' \in {"none", "stopped"} \/ ~stopping,
         periodicTimer' => periodicTimer,
         starting' # "no",
         UNCHANGED <<stopping, busy, closing, late>>
  PROVE  StopIInv'
<1> DEFINE task == NewTask(kind, awaiters)
<1>1. /\ task \in Task /\ task.kind = kind
      /\ task.awaiters = awaiters /\ task.phase = "waiting"
  BY DEF NewTask, Task
<1>2. /\ tail' \in Seq(Task)
      /\ DOMAIN tail' = 1 .. Len(tail) + 1
      /\ DOMAIN tail = 1 .. Len(tail)
      /\ Len(tail) \in Nat
      /\ \A i \in DOMAIN tail : tail'[i] = tail[i]
      /\ tail'[Len(tail) + 1] = task
  BY <1>1 DEF Schedule, StopIInv, TailOK
<1>3. \A i \in DOMAIN tail' : \/ i \in DOMAIN tail /\ tail'[i] = tail[i]
                              \/ i = Len(tail) + 1 /\ tail'[i] = task
  BY <1>2
<1>4. \A i \in DOMAIN tail' : "stop" \in tail'[i].awaiters =>
                               i \in DOMAIN tail /\ "stop" \in tail[i].awaiters
  BY <1>1, <1>3
<1>5. \A i \in DOMAIN tail' : (i \in DOMAIN tail => Quiet(i)) /\ stopping => Quiet(i)'
  BY <1>1, <1>3 DEF Quiet
<1>6. QuietBehindStop'
  BY <1>4, <1>5 DEF StopIInv, QuietBehindStop
<1>7. StopAwaitedOnce' /\ Unplugged'
  BY <1>4 DEF StopIInv, StopAwaitedOnce, Unplugged
<1>8. QuietAfterTail' /\ IdleAfterDrain'
  BY <1>5 DEF StopIInv, QuietAfterTail, AllQuiet, IdleAfterDrain
<1>9. QED
  BY <1>2, <1>6, <1>7, <1>8 DEF StopIInv, TailOK, NotStarted

(* The end of a reconciliation.                                            *)
LEMMA SettleQuiet ==
  ASSUME StopIInv, tail # <<>>, NEW ok \in BOOLEAN, Settle(ok),
         UNCHANGED <<stopping, link, late>>,
         busy' = busy \/ ~stopping
  PROVE  StopIInv'
<1> DEFINE task == tail[1]
<1>0. TailOK
  BY DEF StopIInv
<1>1. /\ Head(tail) = task
      /\ tail' = Tail(tail)
      /\ closing' = IF "stop" \in task.awaiters /\ closing = "tail" THEN "queue" ELSE closing
  BY <1>0, TailOfTail DEF Settle
<1>2. tail' \in Seq(Task) /\ 1 \in DOMAIN tail
  BY <1>0, <1>1, TailOfTail
<1>3. \A i \in DOMAIN tail' : /\ i + 1 \in DOMAIN tail
                              /\ i \in Nat /\ 1 < i + 1
                              /\ tail'[i] = tail[i + 1]
  <2>1. \A i \in DOMAIN tail' : i \in Nat \ {0}
    BY <1>2
  <2>2. QED
    BY <1>0, <1>1, <2>1, TailOfTail
<1>4. \A i \in DOMAIN tail' : Quiet(i + 1) => Quiet(i)'
  BY <1>3 DEF Quiet
<1>5. stopping => ~periodicTimer'
  BY <1>1 DEF Settle, Rearmed, StopIInv, Unplugged
<1>6. Unplugged'
  BY <1>5 DEF StopIInv, Unplugged
<1>7. QuietBehindStop'
  BY <1>1, <1>3, <1>4 DEF StopIInv, QuietBehindStop
<1>8. StopAwaitedOnce'
  BY <1>1, <1>3 DEF StopIInv, StopAwaitedOnce
<1>9. QuietAfterTail'
  <2>1. CASE "stop" \in task.awaiters /\ closing = "tail"
    BY <1>2, <1>3, <1>4, <2>1 DEF StopIInv, QuietBehindStop, QuietAfterTail, AllQuiet
  <2>2. CASE ~("stop" \in task.awaiters /\ closing = "tail")
    BY <1>1, <1>3, <1>4, <2>2 DEF StopIInv, QuietAfterTail, AllQuiet
  <2>3. QED
    BY <2>1, <2>2
<1>10. IdleAfterDrain'
  BY <1>1 DEF StopIInv, IdleAfterDrain
<1>11. NotStarted'
  BY <1>1 DEF Settle, StopIInv, NotStarted
<1>12. QED
  BY <1>1, <1>2, <1>6, <1>7, <1>8, <1>9, <1>10, <1>11 DEF StopIInv, TailOK

LEMMA StopInductive == StopIInv /\ [Next]_vars => StopIInv'
<1> SUFFICES ASSUME StopIInv, [Next]_vars
             PROVE  StopIInv'
  OBVIOUS
<1>0. TailOK
  BY DEF StopIInv
<1>1. CASE UNCHANGED stopVars
  BY <1>1 DEF stopVars, StopIInv, TailOK, NotStarted, QuietBehindStop, StopAwaitedOnce, Unplugged,
              QuietAfterTail, IdleAfterDrain, AllQuiet, Quiet
<1>2. CASE Start
  BY <1>2 DEF Start, StopIInv, TailOK, NotStarted, QuietBehindStop, StopAwaitedOnce, Unplugged,
              QuietAfterTail, IdleAfterDrain, AllQuiet, Quiet
<1>3. CASE FirstAttempt
  <2>1. /\ starting' = "reconciling"
        /\ UNCHANGED <<stopping, periodicTimer, busy, closing, late>>
    BY <1>3 DEF FirstAttempt
  <2>2. \/ link = "down" /\ Schedule("connect", {"start"})
        \/ link = "down" /\ Schedule("initial", {"start"})
        \/ link = "stopped" /\ Schedule("initial", {"start"}) /\ UNCHANGED link
    BY <1>3 DEF FirstAttempt
  <2>3. link = "down" => ~stopping
    BY DEF StopIInv, Unplugged
  <2>4. QED
    BY <2>1, <2>2, <2>3, ScheduleQuiet
<1>4. CASE HandleConnect
  <2>1. /\ link = "down" /\ Schedule("connect", {})
        /\ UNCHANGED <<stopping, starting, periodicTimer, busy, closing, late>>
    BY <1>4 DEF HandleConnect
  <2>2. ~stopping /\ starting # "no"
    BY <2>1 DEF StopIInv, Unplugged, NotStarted
  <2>3. QED
    BY <2>1, <2>2, ScheduleQuiet
<1>5. CASE HandleReconnect
  <2>1. link = "up" /\ UNCHANGED <<stopping, starting, tail, periodicTimer, busy, closing, late>>
    BY <1>5 DEF HandleReconnect
  <2>2. ~stopping /\ starting # "no"
    BY <2>1 DEF StopIInv, Unplugged, NotStarted
  <2>3. QED
    BY <2>1, <2>2 DEF StopIInv, TailOK, NotStarted, QuietBehindStop, StopAwaitedOnce, Unplugged,
                      QuietAfterTail, IdleAfterDrain, AllQuiet, Quiet
<1>6. CASE HandleLiveEvent
  <2>1. link = "up" /\ UNCHANGED <<stopping, link, starting, periodicTimer, closing, late>>
    BY <1>6 DEF HandleLiveEvent
  <2>2. ~stopping /\ starting # "no"
    BY <2>1 DEF StopIInv, Unplugged, NotStarted
  <2>3. UNCHANGED tail \/ (Schedule("reorg", {}) /\ UNCHANGED busy)
    BY <1>6 DEF HandleLiveEvent
  <2>4. CASE UNCHANGED tail
    BY <2>1, <2>2, <2>4 DEF StopIInv, TailOK, NotStarted, QuietBehindStop, StopAwaitedOnce,
                            Unplugged, QuietAfterTail, IdleAfterDrain, AllQuiet, Quiet
  <2>5. CASE Schedule("reorg", {}) /\ UNCHANGED busy
    BY <2>1, <2>2, <2>5, ScheduleQuiet
  <2>6. QED
    BY <2>3, <2>4, <2>5
<1>7. CASE RequestIndex \/ JobsDone \/ CallsEnd
  <2>1. /\ UNCHANGED <<state, stopping, link, starting, tail, periodicTimer, closing, late>>
        /\ stopping => busy' = busy \/ ~busy'
    BY <1>7 DEF RequestIndex, JobsDone, CallsEnd
  <2>2. QED
    BY <2>1 DEF StopIInv, TailOK, NotStarted, QuietBehindStop, StopAwaitedOnce, Unplugged,
                QuietAfterTail, IdleAfterDrain, AllQuiet, Quiet
<1>8. CASE TimerFires
  <2>1. /\ periodicTimer /\ periodicTimer' = FALSE /\ Schedule("periodic", {})
        /\ UNCHANGED <<stopping, starting, link, busy, closing, late>>
    BY <1>8 DEF TimerFires
  <2>2. ~stopping /\ starting # "no"
    BY <2>1 DEF StopIInv, Unplugged, NotStarted
  <2>3. QED
    BY <2>1, <2>2, ScheduleQuiet
<1>9. CASE Reconcile
  <2>1. UNCHANGED <<stopping, link, late>> /\ tail # <<>>
    BY <1>9 DEF Reconcile, BeginTask, EndConfirmed, EndUnconfirmed, EndRows, InPhase
  <2>2. busy' = busy \/ ~stopping
    BY <1>9 DEF Reconcile, BeginTask, EndConfirmed, EndUnconfirmed, EndRows
  <2>3. \/ \E ok \in BOOLEAN : Settle(ok)
        \/ \E phase \in {"rows", "confirmed", "unconfirmed"} :
             /\ Advance(phase)
             /\ stopping => Head(tail).kind = "reorg" \/ Head(tail).phase # "waiting"
    BY <1>9 DEF Reconcile, BeginTask, EndConfirmed, EndUnconfirmed, EndRows, InPhase
  <2>4. ASSUME NEW phase \in {"rows", "confirmed", "unconfirmed"}, Advance(phase),
               stopping => Head(tail).kind = "reorg" \/ Head(tail).phase # "waiting"
        PROVE  StopIInv'
    <3>1. UNCHANGED <<state, starting, periodicTimer, closing>>
      BY <2>4 DEF Advance
    <3>2. Head(tail) = tail[1] /\ 1 \in DOMAIN tail
      BY <1>0, <2>1, TailOfTail
    <3>3. stopping => ~AllQuiet
      BY <2>4, <3>2 DEF AllQuiet, Quiet
    <3>4. /\ tail' \in Seq(Task)
          /\ DOMAIN tail' = DOMAIN tail
          /\ \A i \in DOMAIN tail : tail'[i].awaiters = tail[i].awaiters
          /\ \A i \in DOMAIN tail : i # 1 => tail'[i] = tail[i]
      BY <1>0, <2>1, <2>4, AdvanceShape
    <3>5. DOMAIN tail = 1 .. Len(tail) /\ Len(tail) \in Nat
      BY <1>0 DEF TailOK
    <3>6. \A i, j \in DOMAIN tail : i < j => j # 1
      BY <3>5
    <3>7. QuietBehindStop'
      BY <3>1, <3>4, <3>6 DEF StopIInv, QuietBehindStop, Quiet
    <3>8. StopAwaitedOnce' /\ Unplugged'
      BY <2>1, <3>1, <3>4 DEF StopIInv, StopAwaitedOnce, Unplugged
    <3>9. QuietAfterTail'
      BY <2>1, <3>1, <3>3 DEF StopIInv, QuietAfterTail
    <3>10. IdleAfterDrain'
      BY <2>1, <2>2, <3>1 DEF StopIInv, IdleAfterDrain
    <3>11. NotStarted'
      BY <2>1, <3>1 DEF StopIInv, NotStarted
    <3>12. QED
      BY <2>1, <3>1, <3>4, <3>7, <3>8, <3>9, <3>10, <3>11 DEF StopIInv, TailOK
  <2>5. QED
    BY <2>1, <2>2, <2>3, <2>4, SettleQuiet
<1>10. CASE Stop
  <2>1. /\ stopping' = TRUE /\ periodicTimer' = FALSE /\ link' = "stopped"
        /\ closing = "no" /\ state # "stopped"
        /\ UNCHANGED <<starting, late>>
    BY <1>10 DEF Stop
  <2>2. NotStarted' /\ Unplugged'
    BY <2>1 DEF StopIInv, NotStarted, Unplugged
  <2>3. CASE tail = <<>> /\ closing' = "queue" /\ UNCHANGED tail
    BY <2>1, <2>2, <2>3 DEF StopIInv, TailOK, QuietBehindStop, StopAwaitedOnce, QuietAfterTail,
                            IdleAfterDrain, AllQuiet
  <2>4. CASE /\ tail # <<>> /\ closing' = "tail"
             /\ tail' = [tail EXCEPT ![Len(tail)].awaiters = @ \cup {"stop"}]
    <3>1. /\ tail' \in Seq(Task)
          /\ DOMAIN tail' = DOMAIN tail
          /\ \A i \in DOMAIN tail : i # Len(tail) => tail'[i] = tail[i]
      BY <1>0, <2>4, StopShape
    <3>2. DOMAIN tail = 1 .. Len(tail) /\ Len(tail) \in Nat
      BY <1>0 DEF TailOK
    <3>3. \A i \in DOMAIN tail : "stop" \notin tail[i].awaiters
      BY <2>1 DEF StopIInv, StopAwaitedOnce
    <3>4. QuietBehindStop'
      BY <3>1, <3>2, <3>3 DEF QuietBehindStop
    <3>5. QED
      BY <2>1, <2>2, <2>4, <3>1, <3>4 DEF StopIInv, TailOK, StopAwaitedOnce, QuietAfterTail,
                                          IdleAfterDrain
  <2>5. QED
    BY <1>10, <2>3, <2>4 DEF Stop
<1>11. CASE Deadline \/ Drained
  <2>1. /\ UNCHANGED <<stopping, link, tail, periodicTimer, starting, busy>>
        /\ closing \in {"tail", "queue"} /\ closing' = "stopped" /\ state' = "stopped"
        /\ late' = TRUE \/ (UNCHANGED late /\ closing = "queue" /\ ~busy)
    BY <1>11 DEF Deadline, Drained
  <2>2. QED
    BY <2>1 DEF StopIInv, TailOK, NotStarted, QuietBehindStop, StopAwaitedOnce, Unplugged,
                QuietAfterTail, IdleAfterDrain, AllQuiet, Quiet
<1>12. CASE StopBeforeStart \/ CloseDatabase
  <2>1. /\ UNCHANGED <<state, stopping, link, tail, periodicTimer, starting, busy, late>>
        /\ \/ closing = "no" /\ closing' = "stopped"
           \/ closing = "stopped" /\ closing' = "closed"
    BY <1>12 DEF StopBeforeStart, CloseDatabase
  <2>2. QED
    BY <2>1 DEF StopIInv, TailOK, NotStarted, QuietBehindStop, StopAwaitedOnce, Unplugged,
                QuietAfterTail, IdleAfterDrain, AllQuiet, Quiet
<1>13. CASE Calm \/ UNCHANGED vars
  BY <1>1, <1>13 DEF Calm, vars, stopVars
<1>14. QED
  BY <1>2, <1>3, <1>4, <1>5, <1>6, <1>7, <1>8, <1>9, <1>10, <1>11, <1>12, <1>13 DEF Next

(***************************************************************************)
(* However many reconciliations were scheduled when stop was called, none  *)
(* and no job runs when the database is closed, unless the deadline has    *)
(* passed (stop, closeIndexerResources).                                   *)
(***************************************************************************)
THEOREM ProcessQuietWhenClosed == ProcessSpec => []QuietWhenClosed
<1>1. ProcessInit => StopIInv
  BY StopInitially DEF ProcessInit
<1>2. StopIInv /\ [ProcessNext]_processVars => StopIInv'
  <2> SUFFICES ASSUME StopIInv, [ProcessNext]_processVars
               PROVE  StopIInv'
    OBVIOUS
  <2>1. CASE [Next]_vars
    BY <2>1, StopInductive
  <2>2. CASE /\ tail' = <<>> /\ periodicTimer' = FALSE /\ starting' = "no" /\ stopping' = FALSE
             /\ state' = "stopped" /\ closing' = "no" /\ link' = "none"
    BY <2>2 DEF StopIInv, TailOK, NotStarted, QuietBehindStop, StopAwaitedOnce, Unplugged,
                QuietAfterTail, IdleAfterDrain
  <2>3. QED
    BY <2>1, <2>2, ProcessStepsDaemon
<1>3. StopIInv => QuietWhenClosed
  BY DEF StopIInv, QuietAfterTail, IdleAfterDrain, AllQuiet, Quiet, QuietWhenClosed
<1>4. QED
  BY <1>1, <1>2, <1>3, PTL DEF ProcessSpec

-----------------------------------------------------------------------------
(***************************************************************************)
(* The type invariants.  Seq(Task) is in StopIInv, and so is that there is *)
(* no connection before start: without it a start could find the daemon    *)
(* connected to a link that it replaces.                                   *)
(***************************************************************************)
States == {"stopped", "starting", "running", "reconnecting", "stopping", "failed"}
Starts == {"no", "connecting", "reconciling", "done", "failed"}
Closings == {"no", "tail", "queue", "stopped", "closed"}
Backfills == [state : {"idle", "running", "succeeded", "failed"},
              complete : BOOLEAN, ended : BOOLEAN, failing : BOOLEAN]

(* TypeOK but for tail and backfill.                                       *)
Flat ==
  /\ state \in States /\ starting \in Starts /\ closing \in Closings
  /\ link \in {"none", "down", "up", "stopped"}
  /\ stopping \in BOOLEAN /\ websocketConnected \in BOOLEAN /\ periodicTimer \in BOOLEAN
  /\ busy \in BOOLEAN /\ accepting \in BOOLEAN /\ awaited \in BOOLEAN
  /\ late \in BOOLEAN /\ calm \in BOOLEAN
  /\ websocketConnected => link = "up"

LEMMA TypeParts == TypeOK <=> Flat /\ tail \in Seq(Task) /\ backfill \in Backfills
  BY Zenon DEF TypeOK, Flat, States, Starts, Closings, Backfills

LEMMA BackfillStates ==
  ASSUME NEW b \in Backfills
  PROVE  /\ [b EXCEPT !.state = "running"] \in Backfills
         /\ [b EXCEPT !.state = "failed", !.ended = TRUE, !.failing = TRUE] \in Backfills
BY DEF Backfills

(* What a reconciliation that moves on or ends may set (runReconciliation  *)
(* and the continuations of those who wait for it).                        *)
LEMMA ReconcileTypes ==
  ASSUME TypeOK, Reconcile
  PROVE  /\ state' \in States /\ starting' \in Starts
         /\ periodicTimer' \in BOOLEAN /\ accepting' \in BOOLEAN /\ busy' \in BOOLEAN
         /\ closing' \in Closings /\ backfill' \in Backfills
         /\ UNCHANGED <<stopping, websocketConnected, link, awaited, late, calm>>
<1>1. UNCHANGED <<stopping, websocketConnected, link, awaited, late, calm>>
  BY DEF Reconcile, BeginTask, EndConfirmed, EndUnconfirmed, EndRows
<1>2. \/ \E ok \in BOOLEAN : Settle(ok)
      \/ UNCHANGED <<state, starting, periodicTimer, accepting, closing>>
  BY DEF Reconcile, BeginTask, EndConfirmed, EndUnconfirmed, EndRows, Advance
<1>3. ASSUME NEW ok \in BOOLEAN, Settle(ok)
      PROVE  /\ state' \in States /\ starting' \in Starts /\ closing' \in Closings
             /\ periodicTimer' \in BOOLEAN /\ accepting' \in BOOLEAN
  <2> DEFINE task == Head(tail)
  <2>1. \/ UNCHANGED starting /\ state' = Continued(task, ok)
             /\ periodicTimer' = (periodicTimer \/ Rearmed(task))
        \/ starting' = "done" /\ state' = "running" /\ periodicTimer' = TRUE
        \/ starting' = "done" /\ UNCHANGED <<state, periodicTimer>>
        \/ starting' = "failed" /\ state' = "failed" /\ UNCHANGED periodicTimer
    BY <1>3 DEF Settle
  <2>2. closing' = "queue" \/ closing' = closing
    BY <1>3 DEF Settle
  <2>3. accepting' = (accepting /\ closing' # "queue")
    BY <1>3 DEF Settle
  <2> HIDE DEF task
  <2>4. Continued(task, ok) \in {"running", state}
    BY DEF Continued
  <2>5. state' \in States /\ starting' \in Starts /\ closing' \in Closings
    BY <2>1, <2>2, <2>4 DEF TypeOK, States, Starts, Closings
  <2>6. periodicTimer' \in BOOLEAN
    BY <2>1, Zenon DEF TypeOK
  <2>7. accepting' \in BOOLEAN
    BY <2>3, Zenon DEF TypeOK
  <2> QED
    BY <2>5, <2>6, <2>7
<1>4. \/ UNCHANGED busy
      \/ busy' = (busy \/ accepting)
  BY DEF Reconcile, BeginTask, EndConfirmed, EndUnconfirmed, EndRows
<1>5. busy' \in BOOLEAN
  BY <1>4, Zenon DEF TypeOK
<1>6. \/ UNCHANGED backfill
      \/ backfill' = [backfill EXCEPT !.state = "running"]
      \/ \E complete \in BOOLEAN :
           backfill' = [state |-> "succeeded", complete |-> complete, ended |-> TRUE,
                        failing |-> FALSE]
      \/ backfill' = [backfill EXCEPT !.state = "failed", !.ended = TRUE, !.failing = TRUE]
  BY DEF Reconcile, BeginTask, EndConfirmed, EndUnconfirmed, EndRows
<1>7. backfill' \in Backfills
  <2>1. backfill \in Backfills
    BY TypeParts
  <2>2. \A complete \in BOOLEAN :
          [state |-> "succeeded", complete |-> complete, ended |-> TRUE,
           failing |-> FALSE] \in Backfills
    BY DEF Backfills
  <2> QED
    BY <1>6, <2>1, <2>2, BackfillStates
<1>8. CASE UNCHANGED <<state, starting, periodicTimer, accepting, closing>>
  BY <1>1, <1>5, <1>7, <1>8 DEF TypeOK, States, Starts, Closings
<1> QED
  BY <1>1, <1>2, <1>3, <1>5, <1>7, <1>8

LEMMA TypeInductive == StopIInv /\ StopIInv' /\ TypeOK /\ [Next]_vars => TypeOK'
<1> SUFFICES ASSUME StopIInv, StopIInv', TypeOK, [Next]_vars
             PROVE  TypeOK'
  OBVIOUS
<1>1. Flat /\ backfill \in Backfills
  BY TypeParts
<1>2. ASSUME Flat', backfill' \in Backfills
      PROVE  TypeOK'
  <2>1. tail' \in Seq(Task)
    BY DEF StopIInv, TailOK
  <2> QED
    BY <1>2, <2>1, Zenon DEF TypeOK, Flat, States, Starts, Closings, Backfills
<1>3. CASE Reconcile
  BY <1>1, <1>2, <1>3, ReconcileTypes DEF Flat
<1>4. ASSUME UNCHANGED backfill
      PROVE  backfill' \in Backfills
  BY <1>1, <1>4
<1> USE DEF Flat, States, Starts, Closings
<1>5. CASE Start \/ StopBeforeStart \/ CloseDatabase \/ Calm
  <2>1. CASE Start
    <3>1. link = "none"
      BY <2>1 DEF Start, StopIInv, NotStarted
    <3> QED
      BY <1>1, <1>2, <1>4, <2>1, <3>1 DEF Start
  <2>2. CASE StopBeforeStart
    BY <1>1, <1>2, <1>4, <2>2 DEF StopBeforeStart
  <2>3. CASE CloseDatabase
    BY <1>1, <1>2, <1>4, <2>3 DEF CloseDatabase
  <2>4. CASE Calm
    BY <1>1, <1>2, <1>4, <2>4 DEF Calm
  <2> QED
    BY <1>5, <2>1, <2>2, <2>3, <2>4
<1>6. CASE FirstAttempt
  BY <1>1, <1>2, <1>4, <1>6 DEF FirstAttempt
<1>7. CASE HandleConnect \/ HandleReconnect \/ TimerFires
  <2>1. CASE HandleConnect
    BY <1>1, <1>2, <1>4, <2>1 DEF HandleConnect
  <2>2. CASE HandleReconnect
    BY <1>1, <1>2, <1>4, <2>2 DEF HandleReconnect
  <2>3. CASE TimerFires
    <3>1. periodicTimer' \in BOOLEAN
      BY <2>3 DEF TimerFires
    <3>2. UNCHANGED <<state, stopping, websocketConnected, link, starting, backfill,
                      busy, accepting, awaited, closing, late, calm>>
      BY <2>3 DEF TimerFires
    <3> QED
      BY <1>1, <1>2, <1>4, <3>1, <3>2
  <2> QED
    BY <1>7, <2>1, <2>2, <2>3
<1>8. CASE HandleLiveEvent \/ RequestIndex \/ JobsDone \/ CallsEnd
  <2>1. busy' = (busy \/ accepting) \/ busy' = busy \/ busy' = FALSE
    BY <1>8 DEF HandleLiveEvent, RequestIndex, JobsDone, CallsEnd
  <2>2. busy' \in BOOLEAN
    BY <1>1, <2>1, Zenon
  <2>3. awaited' \in {awaited, busy', FALSE}
    BY <1>8 DEF HandleLiveEvent, RequestIndex, JobsDone, CallsEnd
  <2>4. awaited' \in BOOLEAN
    BY <1>1, <2>2, <2>3
  <2>5. UNCHANGED <<state, stopping, websocketConnected, link, starting, periodicTimer,
                    backfill, accepting, closing, late, calm>>
    BY <1>8 DEF HandleLiveEvent, RequestIndex, JobsDone, CallsEnd
  <2> QED
    BY <1>1, <1>2, <1>4, <2>2, <2>4, <2>5
<1>9. CASE Stop
  BY <1>1, <1>2, <1>4, <1>9 DEF Stop
<1>10. CASE Deadline \/ Drained
  BY <1>1, <1>2, <1>4, <1>10 DEF Deadline, Drained
<1>11. CASE UNCHANGED vars
  BY <1>1, <1>2, <1>4, <1>11 DEF vars
<1> QED
  BY <1>3, <1>5, <1>6, <1>7, <1>8, <1>9, <1>10, <1>11 DEF Next

(***************************************************************************)
(* Every variable of the daemon and of the file it opens keeps to its      *)
(* values, across every restart, rollback and migration by others; and the *)
(* daemon never takes itself for connected while its connection is down    *)
(* (handleConnect, handleReconnect, stop).                                 *)
(***************************************************************************)
THEOREM ProcessTypeCorrect == ProcessSpec => [](TypeOK /\ SchemaTypeOK)
<1> DEFINE Inv == StopIInv /\ TypeOK /\ SchemaIInv
<1>1. ProcessInit => Inv
  <2>1. ASSUME Init
        PROVE  TypeOK
    <3>1. backfill \in Backfills /\ tail \in Seq(Task)
      BY <2>1 DEF Init, Backfills
    <3>2. Flat
      BY <2>1 DEF Init, Flat, States, Starts, Closings
    <3> QED
      BY <3>1, <3>2, TypeParts
  <2> QED
    BY <2>1, StopInitially, SchemaInitially DEF ProcessInit
<1>2. Inv /\ [ProcessNext]_processVars => Inv'
  <2> SUFFICES ASSUME Inv, [ProcessNext]_processVars
               PROVE  Inv'
    OBVIOUS
  <2>1. SchemaIInv'
    BY ProcessStepsSchema, SchemaInductive
  <2>2. CASE [Next]_vars
    BY <2>1, <2>2, StopInductive, TypeInductive
  <2>3. CASE Renewed
    <3>1. TypeOK'
      <4>1. backfill' \in Backfills /\ tail' \in Seq(Task)
        BY <2>3 DEF Renewed, Backfills
      <4>2. Flat'
        BY <2>3, TypeParts DEF Renewed, Flat, States, Starts, Closings
      <4> QED
        BY <4>1, <4>2, Zenon DEF TypeOK, Flat, States, Starts, Closings, Backfills
    <3>2. StopIInv'
      BY <2>3 DEF Renewed, StopIInv, TailOK, NotStarted, QuietBehindStop, StopAwaitedOnce,
                  Unplugged, QuietAfterTail, IdleAfterDrain
    <3> QED
      BY <2>1, <3>1, <3>2
  <2>4. Renewed \/ [Next]_vars
    BY DEF ProcessNext, OpenDatabase, MigrateDatabase, Run, Exit, Crash, OthersDo,
           processVars, Next
  <2> QED
    BY <2>2, <2>3, <2>4
<1>3. Inv => TypeOK /\ SchemaTypeOK
  BY DEF SchemaIInv
<1>4. QED
  <2> HIDE DEF Inv
  <2> QED
    BY <1>1, <1>2, <1>3, PTL DEF ProcessSpec
=============================================================================
