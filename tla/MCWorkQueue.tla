---- MODULE MCWorkQueue ----
(* The queue with one slot, room for two, four transactions and four calls *)
(* of enqueue: one job runs, two wait in order, and the fourth call is     *)
(* coalesced or refused.  No symmetry, since the run checks liveness.  The *)
(* proofs are for any number of slots.                                     *)
EXTENDS WorkQueue
====
