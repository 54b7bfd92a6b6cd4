--------------------------- MODULE MCIndexerProcess ---------------------------
(* Up to three reconciliations at once: one runs, and two of the           *)
(* connection, the timer and the blocks have scheduled another.            *)
EXTENDS IndexerProcess
=============================================================================
