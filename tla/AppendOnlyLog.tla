------------------------------ MODULE AppendOnlyLog -----------------------------
(***************************************************************************)
(* What the log storage promises its callers: leaves are accepted once, and *)
(* each accepted leaf may be appended once, at the next free index, in      *)
(* batches of a bounded size.  Nothing else ever happens to the log.        *)
(***************************************************************************)
EXTENDS Integers

CONSTANTS LeafIds, MaxBatch

VARIABLES
  accepted,   \* identity hashes of the leaves taken in
  size,       \* the size of the log
  log         \* the index and the leaf of every entry

logVars == <<accepted, size, log>>

Init == accepted = {} /\ size = 0 /\ log = {}

\* A batch of new leaves is accepted, all of it or nothing.
Accept ==
  /\ \E S \in SUBSET (LeafIds \ accepted) : accepted' = accepted \cup S
  /\ UNCHANGED <<size, log>>

Waiting == accepted \ {e.id : e \in log}

\* A batch of waiting leaves is appended in some order.
Integrate ==
  /\ \E n \in 1..MaxBatch : \E batch \in [1..n -> Waiting] :
       /\ \A i, j \in 1..n : i # j => batch[i] # batch[j]
       /\ log' = log \cup {[seq |-> size + i - 1, id |-> batch[i]] : i \in 1..n}
       /\ size' = size + n
  /\ UNCHANGED accepted

Next == Accept \/ Integrate

Spec == Init /\ [][Next]_logVars
=============================================================================
