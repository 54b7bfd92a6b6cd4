----------------------------- MODULE MCBackfill -----------------------------
(* Backfill on the tree of BackfillForks: the .cfg files choose how the tip *)
(* moves, whether live events bring jobs too, and the settings of a run.   *)
EXTENDS Backfill, BackfillForks

MCTxids == 1 .. 6
=============================================================================
