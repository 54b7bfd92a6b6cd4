-------------------------- MODULE WorkQueueProofs --------------------------
(***************************************************************************)
(* The safety of WorkQueue, for every number of transactions, callers and  *)
(* drains and every size and concurrency of the queue: its invariants,     *)
(* that it implements CoalescedJobs, when drains are answered and the      *)
(* order in which jobs start.                                              *)
(***************************************************************************)
EXTENDS WorkQueue, SequenceTheorems, FiniteSetTheorems, TLAPS

(* What pump leaves behind when at most one job can start. *)
LEMMA PumpStartsOne ==
  ASSUME NEW waiting \in Seq(Job), NEW running, NEW count \in Nat,
         count <= Concurrency,
         count < Concurrency - 1 => Len(waiting) <= 1,
         Pump(waiting, running, count)
  PROVE  \/ /\ waiting = <<>> \/ count = Concurrency
            /\ pending' = waiting
            /\ active' = running
            /\ activeCount' = count
         \/ /\ waiting # <<>>
            /\ count < Concurrency
            /\ pending' = Tail(waiting)
            /\ active' = running \cup {waiting[1]}
            /\ activeCount' = count + 1
            /\ pending' # <<>> => activeCount' = Concurrency
<1> USE QueueAssumption DEF QueueAssumption
<1>1. Len(waiting) \in Nat
  BY LenProperties
<1>2. CASE Startable(waiting, count) = 0
  <2>1. pending' = SubSeq(waiting, 1, Len(waiting))
    BY <1>1, <1>2 DEF Pump
  <2>2. pending' = waiting
    BY <2>1, SubSeqFull
  <2>3. active' = running /\ activeCount' = count
    BY <1>2 DEF Pump
  <2>4. Len(waiting) = 0 \/ count = Concurrency
    BY <1>1, <1>2 DEF Startable
  <2> QED
    BY <2>2, <2>3, <2>4, EmptySeq
<1>3. CASE Startable(waiting, count) # 0
  <2>0. Startable(waiting, count) = 1 /\ Len(waiting) # 0 /\ count < Concurrency
    <3>1. CASE Len(waiting) < Concurrency - count
      <4>1. Startable(waiting, count) = Len(waiting)
        BY <3>1 DEF Startable
      <4> QED
        BY <1>1, <1>3, <3>1, <4>1
    <3>2. CASE ~(Len(waiting) < Concurrency - count)
      <4>1. Startable(waiting, count) = Concurrency - count
        BY <3>2 DEF Startable
      <4> QED
        BY <1>1, <1>3, <3>2, <4>1
    <3> QED
      BY <3>1, <3>2
  <2>1. Startable(waiting, count) = 1 /\ waiting # <<>> /\ count < Concurrency
    BY <2>0, EmptySeq
  <2>2. pending' = SubSeq(waiting, 2, Len(waiting))
    BY <2>1 DEF Pump
  <2>3. pending' = Tail(waiting)
    BY <2>1, <2>2, TailIsSubSeq
  <2>4. active' = running \cup {waiting[1]} /\ activeCount' = count + 1
    BY <2>1 DEF Pump
  <2>5. Len(Tail(waiting)) = Len(waiting) - 1 /\ Tail(waiting) \in Seq(Job)
    BY <2>1, HeadTailProperties
  <2>6. Len(waiting) > 1 => count + 1 = Concurrency
    BY <1>1, <2>1
  <2>7. pending' # <<>> => activeCount' = Concurrency
    BY <1>1, <2>3, <2>4, <2>5, <2>6, EmptySeq
  <2> QED
    BY <2>1, <2>3, <2>4, <2>7
<1> QED
  BY <1>2, <1>3

(* Starting the oldest job moves it from one set to the other. *)
LEMMA StartOldest ==
  ASSUME NEW waiting \in Seq(Job), waiting # <<>>, NEW running,
         Exclusive(waiting, running)
  PROVE  /\ Exclusive(Tail(waiting), running \cup {waiting[1]})
         /\ Range(waiting) = {waiting[1]} \cup Range(Tail(waiting))
         /\ waiting[1] \notin running
         /\ waiting[1] \in Job
<1>1. /\ Tail(waiting) \in Seq(Job)
      /\ Len(Tail(waiting)) = Len(waiting) - 1
      /\ \A i \in 1 .. Len(Tail(waiting)) : Tail(waiting)[i] = waiting[i + 1]
  BY HeadTailProperties
<1>2. /\ Len(waiting) \in Nat \ {0}
      /\ DOMAIN waiting = 1 .. Len(waiting)
      /\ DOMAIN Tail(waiting) = 1 .. Len(waiting) - 1
      /\ \A i \in 1 .. Len(waiting) : waiting[i] \in Job
  BY <1>1, EmptySeq, LenProperties
<1>3. Exclusive(Tail(waiting), running \cup {waiting[1]})
  <2>1. ASSUME NEW i \in DOMAIN Tail(waiting), NEW j \in DOMAIN Tail(waiting),
               Tail(waiting)[i].txid = Tail(waiting)[j].txid
        PROVE  i = j
    BY <1>1, <1>2, <2>1 DEF Exclusive
  <2>2. ASSUME NEW a \in running \cup {waiting[1]}, NEW b \in running \cup {waiting[1]},
               a.txid = b.txid
        PROVE  a = b
    BY <1>2, <2>2 DEF Exclusive
  <2>3. ASSUME NEW i \in DOMAIN Tail(waiting), NEW a \in running \cup {waiting[1]}
        PROVE  Tail(waiting)[i].txid # a.txid
    <3>1. i + 1 \in DOMAIN waiting /\ Tail(waiting)[i] = waiting[i + 1] /\ i + 1 # 1
      BY <1>1, <1>2
    <3>2. 1 \in DOMAIN waiting
      BY <1>2
    <3> QED
      BY <3>1, <3>2 DEF Exclusive
  <2> QED
    BY <2>1, <2>2, <2>3 DEF Exclusive
<1>4. Range(waiting) = {waiting[1]} \cup Range(Tail(waiting))
  <2>1. ASSUME NEW i \in DOMAIN waiting
        PROVE  waiting[i] \in {waiting[1]} \cup Range(Tail(waiting))
    <3>1. CASE i = 1
      BY <3>1
    <3>2. CASE i # 1
      <4>1. i - 1 \in DOMAIN Tail(waiting) /\ Tail(waiting)[i - 1] = waiting[i]
        BY <1>1, <1>2, <3>2
      <4> QED
        BY <4>1 DEF Range
    <3> QED
      BY <3>1, <3>2
  <2>2. ASSUME NEW i \in DOMAIN Tail(waiting)
        PROVE  Tail(waiting)[i] \in Range(waiting)
    <3>1. i + 1 \in DOMAIN waiting /\ Tail(waiting)[i] = waiting[i + 1]
      BY <1>1, <1>2
    <3> QED
      BY <3>1 DEF Range
  <2>3. waiting[1] \in Range(waiting)
    BY <1>2 DEF Range
  <2> QED
    BY <2>1, <2>2, <2>3 DEF Range
<1>5. waiting[1] \notin running
  BY <1>2 DEF Exclusive
<1> QED
  BY <1>2, <1>3, <1>4, <1>5
(***************************************************************************)
(* The inductive invariant: the queue's invariants together.  No drain can *)
(* be waiting on an idle queue because the last job to end wakes them all, *)
(* and that is the last job because no slot is free while a job waits.     *)
(***************************************************************************)
QueueInv ==
  /\ TypeOK
  /\ WorkConserving
  /\ OneJobPerTxid
  /\ PromisesAreLive
  /\ Accounting
  /\ NoLostWakeup

(***************************************************************************)
(* Pump as the two callers use it: the live jobs are the same before and   *)
(* after it, only started or not.                                          *)
(***************************************************************************)
LEMMA PumpKeepsJobs ==
  ASSUME NEW waiting \in Seq(Job), NEW running \in SUBSET Job, NEW count \in Nat,
         IsFiniteSet(running), count = Cardinality(running),
         count <= Concurrency,
         count < Concurrency - 1 => Len(waiting) <= 1,
         Exclusive(waiting, running),
         Pump(waiting, running, count)
  PROVE  /\ pending' \in Seq(Job)
         /\ active' \in SUBSET Job
         /\ activeCount' \in Nat
         /\ IsFiniteSet(active')
         /\ activeCount' = Cardinality(active')
         /\ activeCount' <= Concurrency
         /\ pending' # <<>> => activeCount' = Concurrency
         /\ Len(pending') + activeCount' = Len(waiting) + count
         /\ Len(pending') <= Len(waiting)
         /\ waiting # <<>> /\ count < Concurrency => Len(pending') = Len(waiting) - 1
         /\ Exclusive(pending', active')
         /\ Live' = running \cup Range(waiting)
<1> USE QueueAssumption DEF QueueAssumption
<1>0. Len(waiting) \in Nat
  BY LenProperties
<1>1. CASE /\ waiting = <<>> \/ count = Concurrency
           /\ pending' = waiting
           /\ active' = running
           /\ activeCount' = count
  BY <1>0, <1>1 DEF Live
<1>2. CASE /\ waiting # <<>>
           /\ count < Concurrency
           /\ pending' = Tail(waiting)
           /\ active' = running \cup {waiting[1]}
           /\ activeCount' = count + 1
           /\ pending' # <<>> => activeCount' = Concurrency
  <2>1. Tail(waiting) \in Seq(Job) /\ Len(Tail(waiting)) = Len(waiting) - 1
    BY <1>2, HeadTailProperties
  <2>2. /\ Exclusive(Tail(waiting), running \cup {waiting[1]})
        /\ Range(waiting) = {waiting[1]} \cup Range(Tail(waiting))
        /\ waiting[1] \notin running
        /\ waiting[1] \in Job
    BY <1>2, StartOldest
  <2>3. /\ IsFiniteSet(active')
        /\ Cardinality(active') = count + 1
    BY <1>2, <2>2, FS_AddElement
  <2>4. Live' = running \cup Range(waiting)
    BY <1>2, <2>2 DEF Live
  <2>5. Exclusive(pending', active')
    BY <1>2, <2>2
  <2> QED
    BY <1>0, <1>2, <2>1, <2>2, <2>3, <2>4, <2>5
<1> QED
  BY <1>1, <1>2, PumpStartsOne

(* A job of a transaction that has none can be put at the end. *)
LEMMA AppendExclusive ==
  ASSUME NEW waiting \in Seq(Job), NEW running \in SUBSET Job, NEW job \in Job,
         Exclusive(waiting, running),
         \A other \in running \cup Range(waiting) : other.txid # job.txid
  PROVE  /\ Append(waiting, job) \in Seq(Job)
         /\ Len(Append(waiting, job)) = Len(waiting) + 1
         /\ Exclusive(Append(waiting, job), running)
         /\ Range(Append(waiting, job)) = Range(waiting) \cup {job}
<1> DEFINE longer == Append(waiting, job)
<1>1. /\ longer \in Seq(Job)
      /\ Len(waiting) \in Nat
      /\ Len(longer) = Len(waiting) + 1
      /\ DOMAIN waiting = 1 .. Len(waiting)
      /\ DOMAIN longer = 1 .. Len(waiting) + 1
      /\ \A i \in 1 .. Len(waiting) : longer[i] = waiting[i]
      /\ longer[Len(waiting) + 1] = job
  BY LenProperties
<1>2. \A i \in DOMAIN waiting : waiting[i].txid # job.txid
  BY DEF Range
<1>3. \A i, j \in DOMAIN longer : longer[i].txid = longer[j].txid => i = j
  BY <1>1, <1>2 DEF Exclusive
<1>4. \A i \in DOMAIN longer : \A a \in running : longer[i].txid # a.txid
  BY <1>1 DEF Exclusive
<1>5. Range(longer) = Range(waiting) \cup {job}
  <2>1. \A i \in DOMAIN longer : longer[i] \in Range(waiting) \cup {job}
    BY <1>1 DEF Range
  <2>2. \A i \in DOMAIN waiting : waiting[i] \in Range(longer)
    BY <1>1 DEF Range
  <2>3. job \in Range(longer)
    BY <1>1 DEF Range
  <2> QED
    BY <2>1, <2>2, <2>3 DEF Range
<1> QED
  BY <1>1, <1>3, <1>4, <1>5 DEF Exclusive
LEMMA InitQueueInv == Init => QueueInv
<1> SUFFICES ASSUME Init PROVE QueueInv
  OBVIOUS
<1> USE QueueAssumption DEF QueueAssumption, Init
<1>1. Range(pending) = {} /\ pending \in Seq(Job) /\ Len(pending) = 0
  BY DEF Range
<1>2. TypeOK
  BY <1>1 DEF TypeOK, Reply
<1>3. WorkConserving
  BY <1>1, FS_EmptySet DEF WorkConserving
<1>4. OneJobPerTxid
  BY <1>1 DEF OneJobPerTxid, Exclusive, Live
<1>5. PromisesAreLive /\ Accounting /\ NoLostWakeup
  BY <1>1 DEF PromisesAreLive, HasPromise, NoReply, Accounting, NoLostWakeup
<1> QED
  BY <1>2, <1>3, <1>4, <1>5 DEF QueueInv

(* enqueue, one step for each of its outcomes. *)
LEMMA RejectedQueueInv ==
  ASSUME QueueInv, NEW c \in Callers, reply[c] = NoReply, EnqueueRejected(c),
         UNCHANGED <<accepting, outcome, drains>>
  PROVE  QueueInv'
<1>1. TypeOK'
  BY DEF QueueInv, TypeOK, EnqueueRejected, Reply, Rejected
<1>2. /\ UNCHANGED <<pending, active, activeCount, inFlight, outcome, drains>>
      /\ Live' = Live
      /\ Idle' = Idle
  BY DEF EnqueueRejected, Live, Range, Idle
<1>3. WorkConserving' /\ OneJobPerTxid'
  BY <1>2 DEF QueueInv, WorkConserving, OneJobPerTxid, Exclusive
<1>4. \A d \in Callers : reply'[d].status \in {"queued", "already_queued"} => reply'[d] = reply[d]
  BY DEF QueueInv, TypeOK, EnqueueRejected, Rejected
<1>5. PromisesAreLive'
  BY <1>2, <1>4 DEF QueueInv, PromisesAreLive, HasPromise
<1>6. Accounting' /\ NoLostWakeup'
  BY <1>2 DEF QueueInv, TypeOK, Accounting, NoLostWakeup, EnqueueRejected
<1> QED
  BY <1>1, <1>3, <1>5, <1>6 DEF QueueInv

LEMMA CoalescedQueueInv ==
  ASSUME QueueInv, NEW c \in Callers, NEW t \in Txids, reply[c] = NoReply,
         inFlight[t] # NoCaller, EnqueueCoalesced(c, t),
         UNCHANGED <<accepting, outcome, drains>>
  PROVE  QueueInv'
<1>1. TypeOK'
  BY DEF QueueInv, TypeOK, EnqueueCoalesced, Reply, Promised
<1>2. /\ UNCHANGED <<pending, active, activeCount, inFlight, outcome, drains, activity>>
      /\ Live' = Live
      /\ Idle' = Idle
  BY DEF EnqueueCoalesced, Live, Range, Idle
<1>3. WorkConserving' /\ OneJobPerTxid' /\ Accounting' /\ NoLostWakeup'
  BY <1>2 DEF QueueInv, WorkConserving, OneJobPerTxid, Exclusive, Accounting,
              NoLostWakeup
<1>4. [txid |-> t, owner |-> inFlight[t]] \in Live
  BY DEF QueueInv, OneJobPerTxid
<1>5. /\ reply'[c].txid = t /\ reply'[c].promise = inFlight[t]
      /\ \A d \in Callers \ {c} : reply'[d] = reply[d]
  BY DEF QueueInv, TypeOK, EnqueueCoalesced, Promised
<1>6. PromisesAreLive'
  BY <1>2, <1>4, <1>5 DEF QueueInv, PromisesAreLive, HasPromise
<1> QED
  BY <1>1, <1>3, <1>6 DEF QueueInv

LEMMA AcceptedQueueInv ==
  ASSUME QueueInv, NEW c \in Callers, NEW t \in Txids, reply[c] = NoReply,
         inFlight[t] = NoCaller, Len(pending) < MaxSize, EnqueueAccepted(c, t),
         UNCHANGED <<accepting, outcome, drains>>
  PROVE  QueueInv'
<1> USE QueueAssumption DEF QueueAssumption
<1> DEFINE job == [txid |-> t, owner |-> c]
           longer == Append(pending, job)
<1>1. /\ TypeOK /\ pending \in Seq(Job) /\ active \in SUBSET Job
      /\ job \in Job /\ Len(pending) \in Nat
  BY LenProperties DEF QueueInv, TypeOK, Job
<1>2. \A other \in active \cup Range(pending) : other.txid # t
  <2>1. active \cup Range(pending) \in SUBSET Job
    BY <1>1, LenProperties DEF Range
  <2>2. \A other \in active \cup Range(pending) : inFlight[other.txid] = other.owner
    BY DEF QueueInv, OneJobPerTxid, Live
  <2>3. \A other \in Job : other.owner # NoCaller
    BY DEF Job
  <2> QED
    BY <2>1, <2>2, <2>3
<1>3. /\ longer \in Seq(Job)
      /\ Len(longer) = Len(pending) + 1
      /\ Exclusive(longer, active)
      /\ Range(longer) = Range(pending) \cup {job}
  BY <1>1, <1>2, AppendExclusive DEF QueueInv, OneJobPerTxid
<1>4. activeCount < Concurrency => Len(longer) = 1
  BY <1>1, <1>3, EmptySeq DEF QueueInv, WorkConserving, TypeOK
<1>5. /\ pending' \in Seq(Job)
      /\ active' \in SUBSET Job
      /\ activeCount' \in Nat
      /\ IsFiniteSet(active')
      /\ activeCount' = Cardinality(active')
      /\ activeCount' <= Concurrency
      /\ pending' # <<>> => activeCount' = Concurrency
      /\ Len(pending') + activeCount' = Len(longer) + activeCount
      /\ Len(pending') <= Len(longer)
      /\ Exclusive(pending', active')
      /\ Live' = active \cup Range(longer)
  <2>1. Pump(longer, active, activeCount)
    BY DEF EnqueueAccepted
  <2>2. /\ activeCount \in Nat /\ activeCount <= Concurrency
        /\ IsFiniteSet(active) /\ activeCount = Cardinality(active)
    BY DEF QueueInv, WorkConserving, TypeOK
  <2>3. activeCount < Concurrency - 1 => Len(longer) <= 1
    BY <1>4, <2>2
  <2> HIDE DEF longer
  <2> QED
    BY <1>1, <1>3, <2>1, <2>2, <2>3, PumpKeepsJobs
<1>6. Live' = Live \cup {job}
  BY <1>3, <1>5 DEF Live
<1>7. /\ inFlight' = [inFlight EXCEPT ![t] = c]
      /\ reply' = [reply EXCEPT ![c] = Promised("queued", t, c)]
      /\ activity' = [activity EXCEPT !.accepted = @ + 1]
      /\ UNCHANGED <<accepting, outcome, drains>>
  BY DEF EnqueueAccepted
<1>8. TypeOK'
  BY <1>1, <1>5, <1>7 DEF TypeOK, Reply, Promised
<1>9. WorkConserving'
  BY <1>1, <1>3, <1>5, LenProperties DEF QueueInv, WorkConserving
<1>10. OneJobPerTxid'
  <2>1. \A other \in Live : other \in Job /\ other.txid # t
    BY <1>1, <1>2, LenProperties DEF Live, Range
  <2>2. \A other \in Live' : inFlight'[other.txid] = other.owner
    BY <1>1, <1>6, <1>7, <2>1 DEF QueueInv, OneJobPerTxid, TypeOK, Job
  <2>3. \A u \in Txids :
           inFlight'[u] # NoCaller => [txid |-> u, owner |-> inFlight'[u]] \in Live'
    BY <1>1, <1>6, <1>7 DEF QueueInv, OneJobPerTxid, TypeOK
  <2> QED
    BY <1>5, <2>2, <2>3 DEF OneJobPerTxid
<1>11. PromisesAreLive'
  <2>1. /\ reply'[c].txid = t /\ reply'[c].promise = c
        /\ \A d \in Callers \ {c} : reply'[d] = reply[d]
    BY <1>1, <1>7 DEF TypeOK, Promised
  <2> QED
    BY <1>6, <1>7, <2>1 DEF QueueInv, PromisesAreLive, HasPromise
<1>12. Accounting'
  BY <1>1, <1>3, <1>5, <1>7, LenProperties DEF QueueInv, Accounting, TypeOK
<1>13. NoLostWakeup'
  <2>1. Len(pending') + activeCount' # 0
    BY <1>1, <1>3, <1>5, LenProperties DEF QueueInv, TypeOK
  <2>2. ~Idle'
    BY <2>1, <1>5, EmptySeq DEF Idle
  <2> QED
    BY <2>2 DEF NoLostWakeup
<1> QED
  BY <1>8, <1>9, <1>10, <1>11, <1>12, <1>13 DEF QueueInv
(* The continuation of a job. *)
LEMMA FinishQueueInv ==
  ASSUME QueueInv, NEW job \in active, NEW how \in {"ok", "failed"}, Finish(job, how)
  PROVE  QueueInv'
<1> USE QueueAssumption DEF QueueAssumption
<1> DEFINE rest == active \ {job}
<1>1. /\ TypeOK /\ pending \in Seq(Job) /\ active \in SUBSET Job /\ job \in Job
      /\ Len(pending) \in Nat /\ activeCount \in Nat
      /\ job.txid \in Txids /\ job.owner \in Callers
      /\ job = [txid |-> job.txid, owner |-> job.owner]
  BY LenProperties DEF QueueInv, TypeOK, Job
<1>2. /\ rest \in SUBSET Job
      /\ IsFiniteSet(rest)
      /\ Cardinality(rest) = activeCount - 1
      /\ activeCount - 1 \in Nat
      /\ activeCount - 1 < Concurrency
  <2>1. IsFiniteSet(active) /\ activeCount = Cardinality(active) /\ activeCount <= Concurrency
    BY DEF QueueInv, WorkConserving
  <2>2. activeCount # 0
    BY <2>1, FS_EmptySet
  <2>3. IsFiniteSet(rest) /\ Cardinality(rest) = activeCount - 1
    BY <2>1, FS_RemoveElement
  <2> QED
    BY <1>1, <2>1, <2>2, <2>3
<1>3. Exclusive(pending, rest)
  BY DEF QueueInv, OneJobPerTxid, Exclusive
<1>4. activeCount - 1 < Concurrency - 1 => Len(pending) <= 1
  BY <1>1, EmptySeq DEF QueueInv, WorkConserving
<1>5. /\ pending' \in Seq(Job)
      /\ active' \in SUBSET Job
      /\ activeCount' \in Nat
      /\ IsFiniteSet(active')
      /\ activeCount' = Cardinality(active')
      /\ activeCount' <= Concurrency
      /\ pending' # <<>> => activeCount' = Concurrency
      /\ Len(pending') + activeCount' = Len(pending) + (activeCount - 1)
      /\ Len(pending') <= Len(pending)
      /\ Exclusive(pending', active')
      /\ Live' = rest \cup Range(pending)
  <2>1. Pump(pending, rest, activeCount - 1)
    BY DEF Finish
  <2> HIDE DEF rest
  <2> QED
    BY <1>1, <1>2, <1>3, <1>4, <2>1, PumpKeepsJobs
<1>6. job \notin Range(pending)
  BY DEF QueueInv, OneJobPerTxid, Exclusive, Range
<1>7. /\ Live' = Live \ {job}
      /\ \A other \in Live' : other \in Live /\ other \in Job /\ other.txid # job.txid
  <2>1. Live' = Live \ {job}
    BY <1>5, <1>6 DEF Live
  <2>2. Live \in SUBSET Job
    BY <1>1, LenProperties DEF Live, Range
  <2>3. \A other \in rest : other.txid # job.txid
    BY DEF QueueInv, OneJobPerTxid, Exclusive
  <2>4. \A other \in Range(pending) : other.txid # job.txid
    BY DEF QueueInv, OneJobPerTxid, Exclusive, Range
  <2> QED
    BY <1>5, <2>1, <2>2, <2>3, <2>4
<1>8. /\ inFlight' = [inFlight EXCEPT ![job.txid] = NoCaller]
      /\ outcome' = Settled(job.owner, how)
      /\ drains' = WakeDrains(activeCount - 1)
      /\ UNCHANGED <<accepting, reply>>
  BY DEF Finish
<1>9. /\ activity' \in [accepted : Nat, completed : Nat, failed : Nat, rejected : Nat]
      /\ activity'.accepted = activity.accepted
      /\ activity'.completed + activity'.failed
           = activity.completed + activity.failed + 1
  <2>1. activity \in [accepted : Nat, completed : Nat, failed : Nat, rejected : Nat]
    BY <1>1 DEF TypeOK
  <2>2. CASE activity' = [activity EXCEPT !.completed = @ + 1]
    BY <2>1, <2>2
  <2>3. CASE activity' = [activity EXCEPT !.failed = @ + 1]
    BY <2>1, <2>3
  <2> QED
    BY <2>2, <2>3 DEF Finish
<1>10. TypeOK'
  <2>1. outcome' \in [Callers -> {"none", "ok", "failed"}]
    BY <1>1, <1>8 DEF Settled, TypeOK
  <2>2. drains' \in [Drains -> {"none", "waiting", "resolved", "timedOut"}]
    BY <1>1, <1>8 DEF WakeDrains, TypeOK
  <2>3. inFlight' \in [Txids -> Callers \cup {NoCaller}]
    BY <1>1, <1>8 DEF TypeOK
  <2> QED
    BY <1>1, <1>5, <1>8, <1>9, <2>1, <2>2, <2>3 DEF TypeOK
<1>11. WorkConserving'
  BY <1>1, <1>5, LenProperties DEF QueueInv, WorkConserving
<1>12. OneJobPerTxid'
  <2>1. \A other \in Live' : inFlight'[other.txid] = other.owner
    BY <1>1, <1>7, <1>8 DEF QueueInv, OneJobPerTxid, TypeOK, Job
  <2>2. ASSUME NEW t \in Txids, inFlight'[t] # NoCaller
        PROVE  [txid |-> t, owner |-> inFlight'[t]] \in Live'
    <3>1. t # job.txid /\ inFlight'[t] = inFlight[t]
      BY <1>1, <1>8, <2>2 DEF TypeOK
    <3>2. [txid |-> t, owner |-> inFlight[t]] \in Live
      BY <2>2, <3>1 DEF QueueInv, OneJobPerTxid
    <3>3. [txid |-> t, owner |-> inFlight[t]] # job
      BY <1>1, <3>1
    <3> QED
      BY <1>7, <3>1, <3>2, <3>3
  <2> QED
    BY <1>5, <2>1, <2>2 DEF OneJobPerTxid
<1>13. PromisesAreLive'
  <2> SUFFICES ASSUME NEW c \in Callers, HasPromise(c)', outcome'[c] = "none"
               PROVE  [txid |-> reply[c].txid, owner |-> reply[c].promise] \in Live'
    BY <1>8 DEF PromisesAreLive
  <2>1. HasPromise(c)
    BY <1>8 DEF HasPromise
  <2>2. reply[c].promise # job.owner /\ outcome[c] = "none"
    BY <1>8, <2>1 DEF Settled
  <2>3. [txid |-> reply[c].txid, owner |-> reply[c].promise] \in Live
    BY <2>1, <2>2 DEF QueueInv, PromisesAreLive
  <2>4. [txid |-> reply[c].txid, owner |-> reply[c].promise] # job
    BY <2>2
  <2> QED
    BY <1>7, <2>3, <2>4
<1>14. Accounting'
  <2>1. /\ activity.accepted \in Nat
        /\ activity.completed \in Nat
        /\ activity.failed \in Nat
        /\ Len(pending) \in Nat
        /\ activeCount \in Nat
        /\ activity.accepted
             = activity.completed + activity.failed + Len(pending) + activeCount
    BY <1>1 DEF TypeOK, QueueInv, Accounting
  <2>2. /\ activity'.completed \in Nat
        /\ activity'.failed \in Nat
        /\ activity'.accepted = activity.accepted
        /\ activity'.completed + activity'.failed
             = activity.completed + activity.failed + 1
    BY <1>9
  <2>3. /\ Len(pending') \in Nat
        /\ activeCount' \in Nat
        /\ Len(pending') + activeCount' = Len(pending) + (activeCount - 1)
    BY <1>5, LenProperties
  <2>4. PICK ok \in Nat, bad \in Nat, len \in Nat, count \in Nat :
           /\ ok = activity'.completed
           /\ bad = activity'.failed
           /\ len = Len(pending')
           /\ count = activeCount'
    BY <2>2, <2>3
  <2>5. ok + bad = activity.completed + activity.failed + 1
    BY <2>2, <2>4
  <2>6. len + count = Len(pending) + (activeCount - 1)
    BY <2>3, <2>4
  <2>7. activity.accepted = ok + bad + len + count
    BY <2>1, <2>5, <2>6
  <2> QED
    BY <2>2, <2>4, <2>7 DEF Accounting
<1>15. NoLostWakeup'
  <2>1. CASE pending = <<>> /\ activeCount - 1 = 0
    <3>1. \A d \in Drains : drains'[d] # "waiting"
      BY <1>1, <1>8, <2>1 DEF WakeDrains, TypeOK
    <3> QED
      BY <3>1 DEF NoLostWakeup
  <2>2. CASE ~(pending = <<>> /\ activeCount - 1 = 0)
    <3>1. Len(pending) + (activeCount - 1) # 0
      BY <1>1, <1>2, <2>2, EmptySeq
    <3>2. Len(pending') + activeCount' # 0
      BY <1>5, <3>1
    <3>3. ~Idle'
      BY <1>5, <3>2, EmptySeq DEF Idle
    <3> QED
      BY <3>3 DEF NoLostWakeup
  <2> QED
    BY <2>1, <2>2
<1> QED
  BY <1>10, <1>11, <1>12, <1>13, <1>14, <1>15 DEF QueueInv

(* stopAccepting and the two ends of a drain leave the jobs alone. *)
LEMMA DrainQueueInv ==
  ASSUME QueueInv, StopAccepting \/ \E d \in Drains : Drain(d) \/ DrainTimeout(d)
  PROVE  QueueInv'
<1>1. /\ UNCHANGED <<pending, active, activeCount, inFlight, reply, outcome, activity>>
      /\ Live' = Live
      /\ Idle' = Idle
  BY DEF StopAccepting, Drain, DrainTimeout, Live, Range, Idle
<1>2. /\ accepting' \in BOOLEAN
      /\ drains' \in [Drains -> {"none", "waiting", "resolved", "timedOut"}]
      /\ \A d \in Drains : drains'[d] = "waiting" => drains[d] = "waiting" \/ ~Idle
  BY DEF QueueInv, TypeOK, StopAccepting, Drain, DrainTimeout
<1>3. TypeOK'
  BY <1>1, <1>2 DEF QueueInv, TypeOK
<1>4. WorkConserving' /\ OneJobPerTxid' /\ PromisesAreLive' /\ Accounting'
  BY <1>1 DEF QueueInv, WorkConserving, OneJobPerTxid, Exclusive, PromisesAreLive,
              HasPromise, Accounting
<1>5. NoLostWakeup'
  BY <1>1, <1>2 DEF QueueInv, NoLostWakeup
<1> QED
  BY <1>3, <1>4, <1>5 DEF QueueInv

LEMMA StepQueueInv == QueueInv /\ [Next]_vars => QueueInv'
<1> SUFFICES ASSUME QueueInv, [Next]_vars PROVE QueueInv'
  OBVIOUS
<1>1. ASSUME NEW c \in Callers, NEW t \in Txids, Enqueue(c, t)
      PROVE  QueueInv'
  <2>1. CASE EnqueueRejected(c)
    BY <1>1, <2>1, RejectedQueueInv DEF Enqueue
  <2>2. CASE inFlight[t] # NoCaller /\ EnqueueCoalesced(c, t)
    BY <1>1, <2>2, CoalescedQueueInv DEF Enqueue
  <2>3. CASE inFlight[t] = NoCaller /\ Len(pending) < MaxSize /\ EnqueueAccepted(c, t)
    BY <1>1, <2>3, AcceptedQueueInv DEF Enqueue
  <2> QED
    BY <1>1, <2>1, <2>2, <2>3 DEF Enqueue
<1>2. ASSUME NEW job \in active, NEW how \in {"ok", "failed"}, Finish(job, how)
      PROVE  QueueInv'
  BY <1>2, FinishQueueInv
<1>3. ASSUME StopAccepting \/ \E d \in Drains : Drain(d) \/ DrainTimeout(d)
      PROVE  QueueInv'
  BY <1>3, DrainQueueInv
<1>4. CASE UNCHANGED vars
  <2>1. Live' = Live /\ Idle' = Idle
    BY <1>4 DEF vars, Live, Range, Idle
  <2>2. TypeOK'
    BY <1>4 DEF vars, QueueInv, TypeOK
  <2> QED
    BY <1>4, <2>1, <2>2 DEF vars, QueueInv, WorkConserving, OneJobPerTxid, Exclusive,
                     PromisesAreLive, HasPromise, Accounting, NoLostWakeup
<1> QED
  BY <1>1, <1>2, <1>3, <1>4 DEF Next

(***************************************************************************)
(* Every value of the queue's state is of its type in every reachable      *)
(* state (the fields of BoundedWorkQueue and the promises it hands out).   *)
(***************************************************************************)
THEOREM TypeCorrect == Spec => []TypeOK
<1>1. QueueInv => TypeOK
  BY DEF QueueInv
<1> QED
  BY <1>1, InitQueueInv, StepQueueInv, PTL DEF Spec

(***************************************************************************)
(* enqueue and pump: the concurrency and the size are respected, no slot   *)
(* is free while a job waits, at most one job per transaction is live.     *)
(***************************************************************************)
THEOREM JobsExclusive == Spec => [](WorkConserving /\ OneJobPerTxid)
<1>1. QueueInv => WorkConserving /\ OneJobPerTxid
  BY DEF QueueInv
<1> QED
  BY <1>1, InitQueueInv, StepQueueInv, PTL DEF Spec

(***************************************************************************)
(* runItem: no promise, no accepted job and no waiting drain is forgotten. *)
(***************************************************************************)
THEOREM NothingForgotten == Spec => [](PromisesAreLive /\ Accounting /\ NoLostWakeup)
<1>1. QueueInv => PromisesAreLive /\ Accounting /\ NoLostWakeup
  BY DEF QueueInv
<1> QED
  BY <1>1, InitQueueInv, StepQueueInv, PTL DEF Spec

-----------------------------------------------------------------------------
(* The queue implements CoalescedJobs. *)

(* A refused, coalesced or drain step is a stutter of the abstract queue. *)
LEMMA StutterRefines ==
  ASSUME UNCHANGED <<pending, active, activeCount>>
  PROVE  UNCHANGED Jobs!jobVars
BY DEF Jobs!jobVars, TxidsOf, Range

(* An accepted call is a Submit. *)
LEMMA AcceptedRefines ==
  ASSUME QueueInv, NEW c \in Callers, NEW t \in Txids,
         inFlight[t] = NoCaller, Len(pending) < MaxSize, EnqueueAccepted(c, t)
  PROVE  Jobs!Submit(t)
<1> USE QueueAssumption DEF QueueAssumption
<1> DEFINE job == [txid |-> t, owner |-> c]
           longer == Append(pending, job)
<1>1. /\ pending \in Seq(Job) /\ active \in SUBSET Job /\ job \in Job
      /\ Len(pending) \in Nat /\ activeCount \in Nat
  BY LenProperties DEF QueueInv, TypeOK, Job
<1>2. \A other \in active \cup Range(pending) : other.txid # t
  <2>1. active \cup Range(pending) \in SUBSET Job
    BY <1>1, LenProperties DEF Range
  <2>2. \A other \in active \cup Range(pending) : inFlight[other.txid] = other.owner
    BY DEF QueueInv, OneJobPerTxid, Live
  <2>3. \A other \in Job : other.owner # NoCaller
    BY DEF Job
  <2> QED
    BY <2>1, <2>2, <2>3
<1>3. t \notin TxidsOf(Range(pending)) \cup TxidsOf(active)
  BY <1>2 DEF TxidsOf
<1>4. /\ longer \in Seq(Job)
      /\ Len(longer) = Len(pending) + 1
      /\ Range(longer) = Range(pending) \cup {job}
      /\ Exclusive(longer, active)
  BY <1>1, <1>2, AppendExclusive DEF QueueInv, OneJobPerTxid
<1>6. TxidsOf(Range(longer)) = TxidsOf(Range(pending)) \cup {t}
  BY <1>4 DEF TxidsOf
<1>7. activeCount < Concurrency => pending = <<>> /\ Len(longer) = 1
  BY <1>1, <1>4, EmptySeq DEF QueueInv, WorkConserving
<1>8. \/ /\ longer = <<>> \/ activeCount = Concurrency
         /\ pending' = longer
         /\ active' = active
         /\ activeCount' = activeCount
      \/ /\ activeCount < Concurrency
         /\ pending' = Tail(longer)
         /\ active' = active \cup {longer[1]}
         /\ activeCount' = activeCount + 1
  <2>1. Pump(longer, active, activeCount)
    BY DEF EnqueueAccepted
  <2>2. activeCount <= Concurrency /\ (activeCount < Concurrency - 1 => Len(longer) <= 1)
    BY <1>1, <1>7 DEF QueueInv, WorkConserving
  <2> HIDE DEF longer
  <2> QED
    BY <1>1, <1>4, <2>1, <2>2, PumpStartsOne
<1>9. CASE activeCount < Concurrency
  <2>1. longer # <<>>
    <3>1. Len(longer) # 0
      BY <1>1, <1>4
    <3> QED
      BY <3>1, EmptySeq
  <2>2. /\ pending' = Tail(longer) /\ active' = active \cup {longer[1]}
        /\ activeCount' = activeCount + 1
    BY <1>1, <1>8, <1>9, <2>1
  <2>3. longer[1] = job
    BY <1>1, <1>7, <1>9
  <2>4. Len(Tail(longer)) = 0 /\ Tail(longer) \in Seq(Job)
    <3> HIDE DEF longer
    <3> QED
      BY <1>4, <1>7, <1>9, <2>1, HeadTailProperties
  <2>5. pending' = <<>> /\ pending = <<>>
    BY <1>7, <1>9, <2>2, <2>4, EmptySeq
  <2>6. TxidsOf(active') = TxidsOf(active) \cup {t}
    BY <2>2, <2>3 DEF TxidsOf
  <2>7. Concurrency - activeCount > 0 /\ Concurrency - activeCount' = Concurrency - activeCount - 1
    BY <1>1, <1>9, <2>2
  <2> QED
    BY <1>3, <2>5, <2>6, <2>7 DEF Jobs!Submit
<1>10. CASE ~(activeCount < Concurrency)
  <2>1. activeCount = Concurrency
    BY <1>1, <1>10 DEF QueueInv, WorkConserving
  <2>2. pending' = longer /\ active' = active /\ activeCount' = activeCount
    BY <1>8, <1>10
  <2>3. TxidsOf(Range(pending')) = TxidsOf(Range(pending)) \cup {t}
    BY <1>6, <2>2
  <2>4. /\ Concurrency - activeCount = 0
        /\ MaxSize - Len(pending) > 0
        /\ MaxSize - Len(pending') = MaxSize - Len(pending) - 1
    BY <1>1, <1>4, <2>1, <2>2
  <2> QED
    BY <1>3, <2>2, <2>3, <2>4 DEF Jobs!Submit
<1> QED
  BY <1>9, <1>10
(* The end of a job is a Settle of its transaction. *)
LEMMA FinishRefines ==
  ASSUME QueueInv, NEW job \in active, NEW how \in {"ok", "failed"}, Finish(job, how)
  PROVE  Jobs!Settle(job.txid)
<1> USE QueueAssumption DEF QueueAssumption
<1> DEFINE rest == active \ {job}
<1>1. /\ pending \in Seq(Job) /\ active \in SUBSET Job
      /\ Len(pending) \in Nat /\ activeCount \in Nat
  BY LenProperties DEF QueueInv, TypeOK
<1>2. activeCount # 0 /\ activeCount <= Concurrency
  BY FS_EmptySet DEF QueueInv, WorkConserving
<1>3. activeCount - 1 < Concurrency - 1 => Len(pending) <= 1
  BY <1>1, EmptySeq DEF QueueInv, WorkConserving
<1>4. /\ Exclusive(pending, active)
      /\ \A other \in rest : other.txid # job.txid
  BY DEF QueueInv, OneJobPerTxid, Exclusive
<1>5. /\ job.txid \in TxidsOf(active)
      /\ TxidsOf(rest) = TxidsOf(active) \ {job.txid}
  BY <1>4 DEF TxidsOf
<1>6. \/ /\ pending = <<>> \/ activeCount - 1 = Concurrency
         /\ pending' = pending
         /\ active' = rest
         /\ activeCount' = activeCount - 1
      \/ /\ pending # <<>>
         /\ pending' = Tail(pending)
         /\ active' = rest \cup {pending[1]}
         /\ activeCount' = activeCount - 1 + 1
  <2>1. Pump(pending, rest, activeCount - 1)
    BY DEF Finish
  <2>2. activeCount - 1 \in Nat /\ activeCount - 1 <= Concurrency
    BY <1>1, <1>2
  <2> HIDE DEF rest
  <2> QED
    BY <1>1, <1>3, <2>1, <2>2, PumpStartsOne
<1>7. CASE pending = <<>>
  <2>1. pending' = <<>> /\ active' = rest /\ activeCount' = activeCount - 1
    BY <1>1, <1>2, <1>6, <1>7
  <2>2. TxidsOf(Range(pending)) = {}
    BY <1>7 DEF TxidsOf, Range
  <2>3. Concurrency - activeCount' = Concurrency - activeCount + 1
    BY <1>1, <2>1
  <2> QED
    BY <1>5, <1>7, <2>1, <2>2, <2>3 DEF Jobs!Settle
<1>8. CASE pending # <<>>
  <2> DEFINE w == pending[1].txid
  <2>1. /\ pending' = Tail(pending)
        /\ active' = rest \cup {pending[1]}
        /\ activeCount' = activeCount
    BY <1>1, <1>2, <1>6, <1>8
  <2>2. /\ Range(pending) = {pending[1]} \cup Range(Tail(pending))
        /\ Exclusive(Tail(pending), active \cup {pending[1]})
    BY <1>1, <1>4, <1>8, StartOldest
  <2>3. \A other \in Range(Tail(pending)) : other.txid # w
    BY <2>2 DEF Exclusive, Range
  <2>4. /\ TxidsOf(Range(pending')) = TxidsOf(Range(pending)) \ {w}
        /\ w \in TxidsOf(Range(pending))
    BY <2>1, <2>2, <2>3 DEF TxidsOf
  <2>5. TxidsOf(active') = (TxidsOf(active) \ {job.txid}) \cup {w}
    BY <1>5, <2>1 DEF TxidsOf
  <2>6. Len(Tail(pending)) = Len(pending) - 1
    BY <1>1, <1>8, HeadTailProperties
  <2>7. /\ MaxSize - Len(pending') = MaxSize - Len(pending) + 1
        /\ Concurrency - activeCount' = Concurrency - activeCount
    <3>1. PICK n \in Nat : n = Len(pending)
      BY <1>1
    <3>2. MaxSize - (n - 1) = MaxSize - n + 1
      OBVIOUS
    <3> QED
      BY <2>1, <2>6, <3>1, <3>2
  <2> QED
    BY <1>5, <2>4, <2>5, <2>7 DEF Jobs!Settle
<1> QED
  BY <1>7, <1>8

(***************************************************************************)
(* BoundedWorkQueue implements the discipline the daemon is built on: at   *)
(* most one job per transaction, slots never idle while jobs wait.         *)
(***************************************************************************)
THEOREM QueueImplementsJobs == Spec => ImplementsJobs
<1>1. Init => Jobs!JobsInit
  <2> SUFFICES ASSUME Init PROVE Jobs!JobsInit
    OBVIOUS
  <2>1. TxidsOf(Range(pending)) = {} /\ TxidsOf(active) = {}
    BY DEF Init, TxidsOf, Range
  <2>2. Len(pending) = 0 /\ activeCount = 0
    BY DEF Init
  <2>3. MaxSize - Len(pending) = MaxSize /\ Concurrency - activeCount = Concurrency
    BY <2>2, QueueAssumption DEF QueueAssumption
  <2> QED
    BY <2>1, <2>3 DEF Jobs!JobsInit
<1>2. ASSUME QueueInv, [Next]_vars
      PROVE  [Jobs!JobsNext]_(Jobs!jobVars)
  <2>1. ASSUME NEW c \in Callers, NEW t \in Txids, Enqueue(c, t)
        PROVE  [Jobs!JobsNext]_(Jobs!jobVars)
    <3>1. CASE EnqueueRejected(c) \/ EnqueueCoalesced(c, t)
      BY <3>1, StutterRefines DEF EnqueueRejected, EnqueueCoalesced
    <3>2. CASE inFlight[t] = NoCaller /\ Len(pending) < MaxSize /\ EnqueueAccepted(c, t)
      BY <1>2, <3>2, AcceptedRefines DEF Jobs!JobsNext
    <3> QED
      BY <2>1, <3>1, <3>2 DEF Enqueue
  <2>2. ASSUME NEW job \in active, NEW how \in {"ok", "failed"}, Finish(job, how)
        PROVE  [Jobs!JobsNext]_(Jobs!jobVars)
    <3>1. job.txid \in Txids
      BY <1>2 DEF QueueInv, TypeOK, Job
    <3> QED
      BY <1>2, <2>2, <3>1, FinishRefines DEF Jobs!JobsNext
  <2>3. CASE StopAccepting \/ \E d \in Drains : Drain(d) \/ DrainTimeout(d)
    BY <2>3, StutterRefines DEF StopAccepting, Drain, DrainTimeout
  <2>4. CASE UNCHANGED vars
    BY <2>4, StutterRefines DEF vars
  <2> QED
    BY <1>2, <2>1, <2>2, <2>3, <2>4 DEF Next
<1> QED
  BY <1>1, <1>2, InitQueueInv, StepQueueInv, PTL
     DEF Spec, ImplementsJobs, Jobs!JobsSpec

(***************************************************************************)
(* drain resolves when nothing waits and nothing runs, and only then: why  *)
(* daemon.stop returns, and may close the database.                        *)
(***************************************************************************)
THEOREM DrainSound == Spec => DrainMeansIdle
<1> DEFINE Answered == \A d \in Drains :
             /\ drains[d] # "resolved" /\ drains'[d] = "resolved" => Idle'
             /\ drains'[d] = "waiting" => ~Idle'
<1>1. ASSUME QueueInv, QueueInv', [Next]_vars
      PROVE  [Answered]_vars
  <2>1. ASSUME NEW d \in Drains, drains[d] # "resolved", drains'[d] = "resolved",
               NEW job \in active, NEW how \in {"ok", "failed"}, Finish(job, how)
        PROVE  Idle'
    <3>1. drains' = WakeDrains(activeCount - 1)
      BY <2>1 DEF Finish
    <3>2. pending = <<>> /\ activeCount - 1 = 0
      BY <1>1, <2>1, <3>1 DEF WakeDrains, QueueInv, TypeOK
    <3>3. Pump(pending, active \ {job}, 0)
      BY <2>1, <3>2 DEF Finish
    <3>4. Len(pending) = 0 /\ pending \in Seq(Job)
      BY <3>2, EmptySeq
    <3>5. Startable(pending, 0) = 0
      BY <3>4, QueueAssumption DEF QueueAssumption, Startable
    <3>6. pending' = SubSeq(pending, 1, 0) /\ activeCount' = 0
      BY <3>3, <3>4, <3>5 DEF Pump
    <3>7. pending' = <<>>
      BY <3>6, SubSeqEmpty
    <3> QED
      BY <3>6, <3>7 DEF Idle
  <2>2. ASSUME NEW d \in Drains, drains[d] # "resolved", drains'[d] = "resolved",
               NEW e \in Drains, Drain(e)
        PROVE  Idle'
    BY <1>1, <2>2 DEF Drain, Idle, QueueInv, TypeOK
  <2>3. ASSUME NEW d \in Drains, NEW e \in Drains, DrainTimeout(e)
        PROVE  ~(drains[d] # "resolved" /\ drains'[d] = "resolved")
    BY <1>1, <2>3 DEF DrainTimeout, QueueInv, TypeOK
  <2>4. ASSUME NEW d \in Drains, drains'[d] = "waiting"
        PROVE  ~Idle'
    BY <1>1, <2>4 DEF QueueInv, NoLostWakeup, Idle
  <2>8. CASE UNCHANGED drains
    BY <2>4, <2>8
  <2>5. ASSUME NEW c \in Callers, NEW t \in Txids, Enqueue(c, t)
        PROVE  UNCHANGED drains
    BY <2>5 DEF Enqueue
  <2>6. StopAccepting => UNCHANGED drains
    BY DEF StopAccepting
  <2>7. UNCHANGED vars => UNCHANGED drains
    BY DEF vars
  <2> QED
    BY <1>1, <2>1, <2>2, <2>3, <2>4, <2>5, <2>6, <2>7, <2>8 DEF Next
<1> QED
  BY <1>1, InitQueueInv, StepQueueInv, PTL DEF Spec, DrainMeansIdle

-----------------------------------------------------------------------------
(* The order of the queue. *)

(* Pump takes the jobs from the front of the queue, and none from behind. *)
LEMMA PumpFromTheFront ==
  ASSUME NEW waiting \in Seq(Job), NEW running, NEW count \in Nat, count <= Concurrency,
         Pump(waiting, running, count)
  PROVE  \E n \in 0 .. Len(waiting) :
           /\ \A i \in 1 .. n : waiting[i] \in active'
           /\ pending' \in Seq(Job)
           /\ Len(pending') = Len(waiting) - n
           /\ \A i \in 1 .. Len(pending') : pending'[i] = waiting[n + i]
<1> USE QueueAssumption DEF QueueAssumption
<1> DEFINE n == Startable(waiting, count)
<1>1. Len(waiting) \in Nat
  BY LenProperties
<1>2. n \in 0 .. Len(waiting)
  BY <1>1 DEF Startable
<1>3. /\ pending' = SubSeq(waiting, n + 1, Len(waiting))
      /\ active' = running \cup {waiting[i] : i \in 1 .. n}
  BY DEF Pump
<1> HIDE DEF n
<1>4. \A i \in n + 1 .. Len(waiting) : waiting[i] \in Job
  BY <1>1, <1>2, ElementOfSeq
<1>5. /\ pending' \in Seq(Job)
      /\ Len(pending') = Len(waiting) - n
      /\ \A i \in 1 .. Len(waiting) - n : pending'[i] = waiting[n + i]
  BY <1>1, <1>2, <1>3, <1>4, SubSeqProperties
<1> QED
  BY <1>2, <1>3, <1>5

(* What the property asks of one step, with the elements spelled out.      *)
LEMMA InOrder ==
  ASSUME pending \in Seq(Job), pending' \in Seq(Job), NEW n \in 0 .. Len(pending),
         \A i \in 1 .. n : pending[i] \in active',
         Len(pending) - n <= Len(pending'),
         \A i \in 1 .. Len(pending) - n : pending'[i] = pending[n + i]
  PROVE  \E m \in 0 .. Len(pending) :
           /\ \A i \in 1 .. m : pending[i] \in active'
           /\ Len(pending) - m <= Len(pending')
           /\ SubSeq(pending', 1, Len(pending) - m) = SubSeq(pending, m + 1, Len(pending))
<1> DEFINE left == Len(pending) - n
           kept == SubSeq(pending', 1, left)
           old == SubSeq(pending, n + 1, Len(pending))
<1>1. Len(pending) \in Nat /\ Len(pending') \in Nat /\ left \in Nat /\ left <= Len(pending')
  BY LenProperties
<1>2. /\ \A i \in 1 .. left : pending'[i] \in Job
      /\ \A i \in n + 1 .. Len(pending) : pending[i] \in Job
  BY <1>1, ElementOfSeq
<1>3. kept \in Seq(Job) /\ Len(kept) = left /\ \A i \in 1 .. left : kept[i] = pending'[i]
  BY <1>1, <1>2, SubSeqProperties
<1>4. old \in Seq(Job) /\ Len(old) = left /\ \A i \in 1 .. left : old[i] = pending[n + i]
  BY <1>1, <1>2, SubSeqProperties
<1>5. kept = old
  <2> HIDE DEF kept, old
  <2> QED
    BY <1>3, <1>4, SeqEqual
<1> QED
  BY <1>5

(* The queue starts jobs in the order of their arrival, whichever job ends *)
(* and however many slots it leaves.                                       *)
THEOREM StartedInOrder == Spec => FirstInFirstOut
<1> DEFINE Ordered == \E n \in 0 .. Len(pending) :
             /\ \A i \in 1 .. n : pending[i] \in active'
             /\ Len(pending) - n <= Len(pending')
             /\ SubSeq(pending', 1, Len(pending) - n) = SubSeq(pending, n + 1, Len(pending))
<1>1. ASSUME QueueInv, QueueInv', [Next]_vars
      PROVE  [Ordered]_vars
  <2> USE QueueAssumption DEF QueueAssumption
  <2>1. /\ pending \in Seq(Job) /\ pending' \in Seq(Job)
        /\ Len(pending) \in Nat /\ active \in SUBSET Job
        /\ activeCount \in Nat /\ activeCount <= Concurrency
    BY <1>1, LenProperties DEF QueueInv, TypeOK, WorkConserving
  <2>2. ASSUME UNCHANGED pending
        PROVE  Ordered
    <3>1. /\ \A i \in 1 .. 0 : pending[i] \in active'
          /\ Len(pending) - 0 <= Len(pending')
          /\ \A i \in 1 .. Len(pending) - 0 : pending'[i] = pending[0 + i]
      BY <2>1, <2>2
    <3> QED
      BY <2>1, <3>1, InOrder
  <2>3. ASSUME NEW job \in active, NEW how \in {"ok", "failed"}, Finish(job, how)
        PROVE  Ordered
    <3>1. activeCount - 1 \in Nat
      <4>1. activeCount = Cardinality(active) /\ IsFiniteSet(active)
        BY <1>1 DEF QueueInv, WorkConserving
      <4> QED
        BY <2>1, <4>1, FS_EmptySet
    <3>2. Pump(pending, active \ {job}, activeCount - 1)
      BY <2>3 DEF Finish
    <3>3. PICK n \in 0 .. Len(pending) :
             /\ \A i \in 1 .. n : pending[i] \in active'
             /\ Len(pending') = Len(pending) - n
             /\ \A i \in 1 .. Len(pending') : pending'[i] = pending[n + i]
      BY <2>1, <3>1, <3>2, PumpFromTheFront
    <3> QED
      BY <2>1, <3>3, InOrder
  <2>4. ASSUME NEW c \in Callers, NEW t \in Txids, EnqueueAccepted(c, t)
        PROVE  Ordered
    <3> DEFINE longer == Append(pending, [txid |-> t, owner |-> c])
    <3>1. /\ longer \in Seq(Job)
          /\ Len(longer) = Len(pending) + 1
          /\ \A i \in 1 .. Len(pending) : longer[i] = pending[i]
      BY <2>1, AppendProperties DEF Job
    <3>2. Pump(longer, active, activeCount)
      BY <2>4 DEF EnqueueAccepted
    <3> HIDE DEF longer
    <3>3. PICK n \in 0 .. Len(longer) :
             /\ \A i \in 1 .. n : longer[i] \in active'
             /\ Len(pending') = Len(longer) - n
             /\ \A i \in 1 .. Len(pending') : pending'[i] = longer[n + i]
      BY <2>1, <3>1, <3>2, PumpFromTheFront
    <3>4. CASE n <= Len(pending)
      <4>1. \A i \in 1 .. n : pending[i] \in active'
        BY <2>1, <3>1, <3>3, <3>4
      <4>2. Len(pending) - n <= Len(pending')
        BY <2>1, <3>1, <3>3, <3>4
      <4>3. ASSUME NEW i \in 1 .. Len(pending) - n
            PROVE  pending'[i] = pending[n + i]
        <5>1. i \in 1 .. Len(pending') /\ n + i \in 1 .. Len(pending)
          BY <2>1, <3>1, <3>3, <3>4
        <5> QED
          BY <3>1, <3>3, <5>1
      <4> QED
        BY <2>1, <3>3, <3>4, <4>1, <4>2, <4>3, InOrder
    <3>5. CASE n = Len(pending) + 1
      <4>1. /\ \A i \in 1 .. Len(pending) : pending[i] \in active'
            /\ Len(pending) - Len(pending) <= Len(pending')
            /\ 1 .. Len(pending) - Len(pending) = {}
        BY <2>1, <3>1, <3>3, <3>5
      <4> QED
        BY <2>1, <4>1, InOrder
    <3>6. n <= Len(pending) \/ n = Len(pending) + 1
      BY <2>1, <3>1, <3>3
    <3> QED
      BY <3>4, <3>5, <3>6
  <2> HIDE DEF Ordered
  <2>5. ASSUME NEW c \in Callers, NEW t \in Txids, Enqueue(c, t)
        PROVE  Ordered
    <3>1. pending' = pending \/ EnqueueAccepted(c, t)
      BY <2>5 DEF Enqueue, EnqueueRejected, EnqueueCoalesced
    <3> QED
      BY <2>2, <2>4, <3>1
  <2>6. StopAccepting \/ (\E d \in Drains : Drain(d) \/ DrainTimeout(d)) => UNCHANGED pending
    BY DEF StopAccepting, Drain, DrainTimeout
  <2> QED
    BY <1>1, <2>2, <2>3, <2>5, <2>6 DEF Next, vars
<1> QED
  BY <1>1, InitQueueInv, StepQueueInv, PTL DEF Spec, FirstInFirstOut
=============================================================================
