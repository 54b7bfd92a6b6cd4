----------------------------- MODULE MCLiveSync -----------------------------
(* One transaction with late events, or two without any event.             *)
EXTENDS LiveSync
=============================================================================
