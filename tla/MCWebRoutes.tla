---------------------------- MODULE MCWebRoutes ----------------------------
(***************************************************************************)
(* Three valid ids, one that is not, the index page and an unknown         *)
(* address: every pair of neighbours a reader can move between, with a     *)
(* third id for an answer that is late by two pages.                       *)
(***************************************************************************)
EXTENDS WebRoutes
=============================================================================
