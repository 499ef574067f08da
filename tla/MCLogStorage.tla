------------------------------ MODULE MCLogStorage ------------------------------
(***************************************************************************)
(* Small instances of LogStorage for TLC.                                  *)
(***************************************************************************)
EXTENDS LogStorage, TLC

CONSTANTS q1, q2, w1, w2, va, vb

L(i, v) == [id |-> i, value |-> v]

\* Two submissions of leaf 1 with different content, leaf 2 on its own, and
\* batches: both leaves out of hash order, one leaf twice and three times.
QueueBatches ==
  { <<L(1, va)>>, <<L(1, vb)>>, <<L(2, vb), L(1, va)>>, <<L(1, va), L(1, vb)>>,
    <<L(1, va), L(2, vb), L(1, vb), L(1, va)>> }

\* Single leaves, as AddVC submits them.
SingleLeaves == { <<L(i, va)>> : i \in LeafIds }

\* A full batch for a signer, and a batch that always fails: once its first
\* copy is inserted the other two are duplicates with a single stored leaf.
LiveBatches == { <<L(1, va), L(2, va)>>, <<L(2, va), L(2, vb), L(2, va)>> }

QueuerSymmetry == Permutations(Queuers)
WriterSymmetry == Permutations(Writers)
=============================================================================
