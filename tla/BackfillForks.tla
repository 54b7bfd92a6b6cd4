--------------------------- MODULE BackfillForks ---------------------------
(***************************************************************************)
(* A small block tree for Backfill: Contents[b] says which transactions of *)
(* each protocol block b holds, newest first.                              *)
(*                                                                         *)
(*      g - a1 - a2                                                        *)
(*       \                                                                 *)
(*        b1 - b2                                                          *)
(*                                                                         *)
(* Transaction 4 is in a1 and again in b2; 5 is in a2 only and 6 in b1.    *)
(***************************************************************************)
EXTENDS Sequences, Integers

MCBlocks == {"g", "a1", "a2", "b1", "b2"}

MCDiscovery == <<"TM0", "TM1">>

Contents ==
  [g  |-> [TM0 |-> <<3, 2, 1>>, TM1 |-> <<>>],
   a1 |-> [TM0 |-> <<4>>, TM1 |-> <<>>],
   a2 |-> [TM0 |-> <<>>, TM1 |-> <<5>>],
   b1 |-> [TM0 |-> <<6>>, TM1 |-> <<>>],
   b2 |-> [TM0 |-> <<4>>, TM1 |-> <<>>]]

MCChain ==
  [g |-> <<"g">>, a1 |-> <<"g", "a1">>, a2 |-> <<"g", "a1", "a2">>,
   b1 |-> <<"g", "b1">>, b2 |-> <<"g", "b1", "b2">>]

MCHistory ==
  [b \in MCBlocks |->
     [q \in {"TM0", "TM1"} |->
        LET chain == MCChain[b]
            upTo[n \in 0 .. Len(chain)] ==
              IF n = 0 THEN <<>> ELSE Contents[chain[n]][q] \o upTo[n - 1]
        IN  upTo[Len(chain)]]]

(* The tip goes up the first branch and over to the second, never back.    *)
Forward == {<<"g", "a1">>, <<"a1", "a2">>, <<"a1", "b2">>, <<"a2", "b2">>}

(* One reorganization, from a tip at which the daemon starts.              *)
Switch == {<<"a2", "b2">>}

(* An excursion: the branch that was left becomes the chain again.         *)
Excursion == {<<"g", "a1">>, <<"a1", "b2">>, <<"b2", "a2">>}

(* The tip alternates between two blocks of the same height.               *)
Flapping == {<<"g", "a1">>, <<"a1", "b1">>, <<"b1", "a1">>}
=============================================================================
