----------------------------- MODULE MCPagePlan -----------------------------
(* Histories of up to 13 transactions in pages of three, two pages a run.  *)
EXTENDS PagePlanLoops
=============================================================================
