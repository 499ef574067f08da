---------------------------- MODULE MCSubtreeStorage ----------------------------
(***************************************************************************)
(* Small instances of SubtreeStorage.                                       *)
(***************************************************************************)
EXTENDS SubtreeStorage, TLC

CONSTANTS t1, t2, a, b

Symmetry == Permutations(Txs) \cup Permutations(SubtreeIds)
=============================================================================
