------------------------------- MODULE Checks -------------------------------
(* A chain of checks that each throw or return: which one speaks first.     *)
EXTENDS Integers, Sequences

Fault(code, holds) == [code |-> code, holds |-> holds]

(* The code of the first check of the sequence that fails, or "OK".         *)
FirstFault(checks) ==
  IF \E i \in DOMAIN checks : checks[i].holds
  THEN checks[CHOOSE i \in DOMAIN checks :
                /\ checks[i].holds
                /\ \A j \in 1 .. i - 1 : ~checks[j].holds].code
  ELSE "OK"
=============================================================================
