----------------------------- MODULE WorkQueue -----------------------------
(***************************************************************************)
(* BoundedWorkQueue (apps/indexer/src/daemon/queue.ts): the in-memory queue *)
(* through which the daemon runs every indexing job.                       *)
(*                                                                         *)
(* The program is single threaded: a call of enqueue, drain or             *)
(* stopAccepting, and the continuation of a job (the code of runItem after *)
(* its await), run to completion, so each is one action.  What interleaves *)
(* is the order of these steps.                                            *)
(*                                                                         *)
(* A caller is one call of enqueue.  The promise that the call creates is  *)
(* named by that caller, so a job carries the caller that pushed it        *)
(* (owner) and inFlight maps a transaction to the caller whose promise is  *)
(* handed to later calls.  lastActivityAtMs is left out.                   *)
(***************************************************************************)
EXTENDS Integers, Sequences, FiniteSets, Functions

CONSTANTS
  Txids,        \* transaction identifiers
  Callers,      \* the calls of enqueue
  Drains,       \* the calls of drain
  NoCaller,     \* "no promise": the key is absent from inFlight
  MaxSize,      \* options.maxSize
  Concurrency   \* options.concurrency

ASSUME QueueAssumption ==
  /\ MaxSize \in Nat \ {0}
  /\ Concurrency \in Nat \ {0}
  /\ NoCaller \notin Callers

VARIABLES
  accepting,    \* cleared by stopAccepting, never set again
  pending,      \* jobs waiting for a slot, oldest first
  active,       \* jobs whose run() has started and not settled
  activeCount,  \* the counter the code keeps for them
  inFlight,     \* inFlight[t]: the promise for t, or NoCaller
  reply,        \* reply[c]: what enqueue returned to caller c
  outcome,      \* outcome[c]: how the promise given to c was settled
  drains,       \* drains[d]: state of the call of drain
  activity      \* the counters of QueueActivitySnapshot

vars == <<accepting, pending, active, activeCount, inFlight, reply, outcome,
          drains, activity>>

Job == [txid : Txids, owner : Callers]

NoReply == [status |-> "none"]
Rejected(why) == [status |-> why]
Promised(how, t, p) == [status |-> how, txid |-> t, promise |-> p]

Reply ==
  {NoReply, Rejected("stopped"), Rejected("saturated")}
    \cup [status : {"queued", "already_queued"}, txid : Txids, promise : Callers]

HasPromise(c) == reply[c].status \in {"queued", "already_queued"}

(* The jobs accepted and not settled. *)
Live == active \cup Range(pending)

Idle == pending = <<>> /\ activeCount = 0

Init ==
  /\ accepting = TRUE
  /\ pending = <<>>
  /\ active = {}
  /\ activeCount = 0
  /\ inFlight = [t \in Txids |-> NoCaller]
  /\ reply = [c \in Callers |-> NoReply]
  /\ outcome = [c \in Callers |-> "none"]
  /\ drains = [d \in Drains |-> "none"]
  /\ activity = [accepted |-> 0, completed |-> 0, failed |-> 0, rejected |-> 0]

-----------------------------------------------------------------------------
(* pump: shift jobs into free slots, oldest first.                         *)

Startable(waiting, running) ==
  IF Len(waiting) < Concurrency - running THEN Len(waiting)
                                          ELSE Concurrency - running

(* Mutant: the newest job is started first. *)
PumpNewestFirst(waiting, running, count) ==
  LET n == Startable(waiting, count)
      kept == Len(waiting) - n
  IN  /\ pending' = SubSeq(waiting, 1, kept)
      /\ active' = running \cup {waiting[i] : i \in kept + 1 .. Len(waiting)}
      /\ activeCount' = count + n

Pump(waiting, running, count) ==
  LET n == Startable(waiting, count)
  IN  /\ pending' = SubSeq(waiting, n + 1, Len(waiting))
      /\ active' = running \cup {waiting[i] : i \in 1 .. n}
      /\ activeCount' = count + n

(* The three refusals of enqueue, and the job it accepts.                  *)

EnqueueRejected(c) ==
  /\ reply' = [reply EXCEPT ![c] =
                 Rejected(IF accepting THEN "saturated" ELSE "stopped")]
  /\ activity' = [activity EXCEPT !.rejected = @ + 1]
  /\ UNCHANGED <<pending, active, activeCount, inFlight>>

EnqueueCoalesced(c, t) ==
  /\ reply' = [reply EXCEPT ![c] = Promised("already_queued", t, inFlight[t])]
  /\ UNCHANGED <<pending, active, activeCount, inFlight, activity>>

(* Mutant: the new promise is not entered in inFlight. *)
EnqueueUnkeyed(c, t) ==
  /\ reply' = [reply EXCEPT ![c] = Promised("queued", t, c)]
  /\ activity' = [activity EXCEPT !.accepted = @ + 1]
  /\ Pump(Append(pending, [txid |-> t, owner |-> c]), active, activeCount)
  /\ UNCHANGED inFlight

EnqueueAccepted(c, t) ==
  /\ inFlight' = [inFlight EXCEPT ![t] = c]
  /\ reply' = [reply EXCEPT ![c] = Promised("queued", t, c)]
  /\ activity' = [activity EXCEPT !.accepted = @ + 1]
  /\ Pump(Append(pending, [txid |-> t, owner |-> c]), active, activeCount)

Enqueue(c, t) ==
  /\ reply[c] = NoReply
  /\ \/ /\ ~accepting
        /\ EnqueueRejected(c)
     \/ /\ accepting
        /\ inFlight[t] # NoCaller
        /\ EnqueueCoalesced(c, t)
     \/ /\ accepting
        /\ inFlight[t] = NoCaller
        /\ Len(pending) >= MaxSize
        /\ EnqueueRejected(c)
     \/ /\ accepting
        /\ inFlight[t] = NoCaller
        /\ Len(pending) < MaxSize
        /\ EnqueueAccepted(c, t)
  /\ UNCHANGED <<accepting, outcome, drains>>

-----------------------------------------------------------------------------
(* The continuation of runItem: count, settle the promise, free the slot   *)
(* and the key, wake the drains if nothing is left, start what waits.      *)

(* Mutant: only the first caller is answered. *)
SettledForOwner(p, how) == [outcome EXCEPT ![p] = how]

Settled(p, how) ==
  [c \in Callers |->
     IF HasPromise(c) /\ reply[c].promise = p THEN how ELSE outcome[c]]

(* Mutant: idleness is checked before the slot is released. *)
WakeDrainsTooEarly(count) ==
  IF pending = <<>> /\ count + 1 = 0
    THEN [d \in Drains |-> IF drains[d] = "waiting" THEN "resolved" ELSE drains[d]]
    ELSE drains

WakeDrains(count) ==
  IF pending = <<>> /\ count = 0
    THEN [d \in Drains |-> IF drains[d] = "waiting" THEN "resolved" ELSE drains[d]]
    ELSE drains

(* Mutant: the next job is not started. *)
FinishWithoutPump(job, how) ==
  /\ job \in active
  /\ activity' = IF how = "ok" THEN [activity EXCEPT !.completed = @ + 1]
                               ELSE [activity EXCEPT !.failed = @ + 1]
  /\ outcome' = Settled(job.owner, how)
  /\ inFlight' = [inFlight EXCEPT ![job.txid] = NoCaller]
  /\ drains' = WakeDrains(activeCount - 1)
  /\ active' = active \ {job}
  /\ activeCount' = activeCount - 1
  /\ UNCHANGED <<accepting, pending, reply>>

Finish(job, how) ==
  /\ job \in active
  /\ activity' = IF how = "ok" THEN [activity EXCEPT !.completed = @ + 1]
                               ELSE [activity EXCEPT !.failed = @ + 1]
  /\ outcome' = Settled(job.owner, how)
  /\ inFlight' = [inFlight EXCEPT ![job.txid] = NoCaller]
  /\ drains' = WakeDrains(activeCount - 1)
  /\ Pump(pending, active \ {job}, activeCount - 1)
  /\ UNCHANGED <<accepting, reply>>

StopAccepting ==
  /\ accepting
  /\ accepting' = FALSE
  /\ UNCHANGED <<pending, active, activeCount, inFlight, reply, outcome, drains,
                 activity>>

(* Mutant: a drain does not look at the running job. *)
DrainOnEmptyQueue(d) ==
  /\ drains[d] = "none"
  /\ drains' = [drains EXCEPT ![d] = IF pending = <<>> THEN "resolved" ELSE "waiting"]
  /\ UNCHANGED <<accepting, pending, active, activeCount, inFlight, reply,
                 outcome, activity>>

Drain(d) ==
  /\ drains[d] = "none"
  /\ drains' = [drains EXCEPT ![d] = IF Idle THEN "resolved" ELSE "waiting"]
  /\ UNCHANGED <<accepting, pending, active, activeCount, inFlight, reply,
                 outcome, activity>>

DrainTimeout(d) ==
  /\ drains[d] = "waiting"
  /\ drains' = [drains EXCEPT ![d] = "timedOut"]
  /\ UNCHANGED <<accepting, pending, active, activeCount, inFlight, reply,
                 outcome, activity>>

Next ==
  \/ \E c \in Callers, t \in Txids : Enqueue(c, t)
  \/ \E job \in active, how \in {"ok", "failed"} : Finish(job, how)
  \/ StopAccepting
  \/ \E d \in Drains : Drain(d) \/ DrainTimeout(d)

Spec == Init /\ [][Next]_vars

(***************************************************************************)
(* Every job settles: the daemon's jobs end in a result or a throw         *)
(* (runIndex has no loop).  Nothing obliges callers, stops or timeouts.    *)
(***************************************************************************)
JobsSettle ==
  \A c \in Callers, t \in Txids :
    WF_vars(\E how \in {"ok", "failed"} : Finish([txid |-> t, owner |-> c], how))

FairSpec == Spec /\ JobsSettle

-----------------------------------------------------------------------------
TypeOK ==
  /\ accepting \in BOOLEAN
  /\ pending \in Seq(Job)
  /\ active \in SUBSET Job
  /\ activeCount \in Nat
  /\ inFlight \in [Txids -> Callers \cup {NoCaller}]
  /\ reply \in [Callers -> Reply]
  /\ outcome \in [Callers -> {"none", "ok", "failed"}]
  /\ drains \in [Drains -> {"none", "waiting", "resolved", "timedOut"}]
  /\ activity \in [accepted : Nat, completed : Nat, failed : Nat, rejected : Nat]

(***************************************************************************)
(* The counter is the number of running jobs, never above the concurrency; *)
(* a job waits only while every slot is busy.  So "saturated" is answered  *)
(* only when Concurrency jobs run and MaxSize more wait.                   *)
(***************************************************************************)
WorkConserving ==
  /\ IsFiniteSet(active)
  /\ activeCount = Cardinality(active)
  /\ activeCount <= Concurrency
  /\ Len(pending) <= MaxSize
  /\ pending # <<>> => activeCount = Concurrency

(***************************************************************************)
(* At most one job per transaction is waiting or running, and inFlight     *)
(* names exactly these: the serialisation that keeps two fetches of one    *)
(* transaction from writing to the store out of order.                     *)
(***************************************************************************)
Exclusive(waiting, running) ==
  /\ \A i, j \in DOMAIN waiting : waiting[i].txid = waiting[j].txid => i = j
  /\ \A a, b \in running : a.txid = b.txid => a = b
  /\ \A i \in DOMAIN waiting : \A a \in running : waiting[i].txid # a.txid

OneJobPerTxid ==
  /\ Exclusive(pending, active)
  /\ \A job \in Live : inFlight[job.txid] = job.owner
  /\ \A t \in Txids :
       inFlight[t] # NoCaller => [txid |-> t, owner |-> inFlight[t]] \in Live

(***************************************************************************)
(* Every promise handed out and not settled belongs to a live job of the   *)
(* transaction asked for: a coalesced caller can neither be forgotten nor  *)
(* be answered with another transaction's result.                          *)
(***************************************************************************)
PromisesAreLive ==
  \A c \in Callers :
    HasPromise(c) /\ outcome[c] = "none" =>
      [txid |-> reply[c].txid, owner |-> reply[c].promise] \in Live

(***************************************************************************)
(* GET /ready shows these counters: nothing accepted is lost.              *)
(***************************************************************************)
Accounting ==
  activity.accepted =
    activity.completed + activity.failed + Len(pending) + activeCount

(***************************************************************************)
(* No lost wake-up: a drain waits only while there is work to wait for.    *)
(***************************************************************************)
NoLostWakeup ==
  \A d \in Drains : drains[d] = "waiting" => ~Idle

(***************************************************************************)
(* A drain is answered exactly when no work is left: in no other state,    *)
(* and it is not left waiting in that one.  It is what daemon.stop relies  *)
(* on before the database is closed.                                       *)
(***************************************************************************)
DrainMeansIdle ==
  [][\A d \in Drains :
       /\ drains[d] # "resolved" /\ drains'[d] = "resolved" => Idle'
       /\ drains'[d] = "waiting" => ~Idle']_vars

(***************************************************************************)
(* First come, first started: the jobs that leave the queue are those that *)
(* waited longest, all of them to run, and the others keep their order.    *)
(***************************************************************************)
FirstInFirstOut ==
  [][\E n \in 0 .. Len(pending) :
       /\ \A i \in 1 .. n : pending[i] \in active'
       /\ Len(pending) - n <= Len(pending')
       /\ SubSeq(pending', 1, Len(pending) - n) = SubSeq(pending, n + 1, Len(pending))]_vars

(***************************************************************************)
(* Every promise is settled, however busy the queue is kept.               *)
(***************************************************************************)
PromisesSettle ==
  \A c \in Callers : HasPromise(c) ~> outcome[c] # "none"

(***************************************************************************)
(* The queue implements the job discipline the daemon is built on.         *)
(***************************************************************************)
TxidsOf(jobs) == {job.txid : job \in jobs}

Jobs == INSTANCE CoalescedJobs WITH
          waiting <- TxidsOf(Range(pending)),
          running <- TxidsOf(active),
          room <- MaxSize - Len(pending),
          slots <- Concurrency - activeCount

ImplementsJobs == Jobs!JobsSpec
=============================================================================
