---------------------------- MODULE MCPreorderedLog ----------------------------
(***************************************************************************)
(* A small instance of PreorderedLog.  The batches hold two leaves whose    *)
(* keys two calls take in opposite orders, one index twice, one leaf at two *)
(* indices, an index beyond a gap, and a hash of the wrong size after a     *)
(* good leaf.                                                               *)
(***************************************************************************)
EXTENDS PreorderedLog

CONSTANTS a1, a2, s1, s2

L(idx, id) == [idx |-> idx, id |-> id, sized |-> TRUE]

MCBatches ==
  { <<L(0, 1), L(1, 2)>>, <<L(1, 1), L(0, 2)>>, <<L(2, 3), L(2, 2)>>,
    <<L(2, 1), L(0, 1)>>, <<L(1, 2), [idx |-> 0, id |-> 3, sized |-> FALSE]>> }
=============================================================================
