--------------------------- MODULE CoalescedJobs ---------------------------
(***************************************************************************)
(* What the daemon relies on from its work queue, without callers,         *)
(* promises or arrival order: a transaction has at most one job, the free  *)
(* slots and the free places of the queue are conserved, and a slot is     *)
(* never left free while a job waits.  WorkQueue implements it.            *)
(***************************************************************************)
EXTENDS Naturals

CONSTANTS Txids, MaxSize, Concurrency

VARIABLES
  waiting,   \* transactions with a job that has not started
  running,   \* transactions whose job is running
  room,      \* places left for waiting jobs
  slots      \* slots left for running jobs

jobVars == <<waiting, running, room, slots>>

JobsInit ==
  /\ waiting = {} /\ room = MaxSize
  /\ running = {} /\ slots = Concurrency

(* A new job starts at once if a slot is free and waits otherwise. *)
Submit(t) ==
  /\ t \notin waiting \cup running
  /\ \/ /\ slots > 0
        /\ running' = running \cup {t}
        /\ slots' = slots - 1
        /\ UNCHANGED <<waiting, room>>
     \/ /\ slots = 0
        /\ room > 0
        /\ waiting' = waiting \cup {t}
        /\ room' = room - 1
        /\ UNCHANGED <<running, slots>>

(* A job that ends hands its slot to a waiting one, if there is any. *)
Settle(t) ==
  /\ t \in running
  /\ \/ /\ waiting = {}
        /\ running' = running \ {t}
        /\ slots' = slots + 1
        /\ UNCHANGED <<waiting, room>>
     \/ \E w \in waiting :
          /\ running' = (running \ {t}) \cup {w}
          /\ waiting' = waiting \ {w}
          /\ room' = room + 1
          /\ UNCHANGED slots

JobsNext == \E t \in Txids : Submit(t) \/ Settle(t)

JobsSpec == JobsInit /\ [][JobsNext]_jobVars
=============================================================================
