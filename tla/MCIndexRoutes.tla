---------------------------- MODULE MCIndexRoutes ----------------------------
(* Two addresses that compete for one bucket, an administrative call and a *)
(* queue with one slot and one place, which the daemon's jobs fill too.    *)
EXTENDS IndexRoutes
=============================================================================
