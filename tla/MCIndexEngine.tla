---------------------------- MODULE MCIndexEngine ----------------------------
(* Three calls for one transaction: enough for one to overtake another and *)
(* a third to see what is left.                                            *)
EXTENDS IndexEngine, TLC

Symmetry == Permutations(Calls)
=============================================================================
