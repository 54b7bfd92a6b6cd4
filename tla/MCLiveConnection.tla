-------------------------- MODULE MCLiveConnection --------------------------
(* Three endpoints: the current one and two whose callbacks are late.      *)
EXTENDS LiveConnection
=============================================================================
