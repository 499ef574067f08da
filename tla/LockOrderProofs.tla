---------------------------- MODULE LockOrderProofs ----------------------------
(***************************************************************************)
(* The transactions of LogStorage never wait for each other in a circle.    *)
(*                                                                         *)
(* Whoever waits has locked only what comes before what it waits for: a     *)
(* queuer in the order of the identity hashes, a writer in the order of the *)
(* queue, then of the sequence numbers, then the row of trees.  So what     *)
(* transactions wait for grows along a chain of waits, and finitely many of *)
(* them have one that waits for nobody else.                                *)
(***************************************************************************)
EXTENDS LogStorageProofs, FiniteSetTheorems, WellFoundedInduction

\* The leaf_data keys a queuer holds come before those it has yet to insert.
KeysInOrder(q) == \A r \in qleaf[q] : \A i \in qtodo[q] : r.id <= IdAt(q, i)

\* A batch is in queue order.
RowsInOrder(w) == \A k, l \in 1..Len(wdq[w]) : k < l => Before(wdq[w][k], wdq[w][l])

\* The sequence numbers a writer holds come before the one it is at.
SeqsInOrder(w) ==
  wpc[w] = "sequence" => \A p \in wseq[w] : p.seq < wroot[w].treeSize + widx[w] - 1

LocksInOrder ==
  /\ \A q \in Queuers : KeysInOrder(q)
  /\ \A w \in Writers : RowsInOrder(w) /\ SeqsInOrder(w)

-----------------------------------------------------------------------------
(* The order of the locks is kept.                                         *)

\* Nothing is locked initially.
LEMMA InitLocksInOrder == Init => LocksInOrder
<1> SUFFICES ASSUME Init PROVE LocksInOrder
  OBVIOUS
<1>1. \A q \in Queuers : KeysInOrder(q)
  BY Zenon DEF Init, KeysInOrder
<1>2. \A w \in Writers : RowsInOrder(w) /\ SeqsInOrder(w)
  BY DEF Init, RowsInOrder, SeqsInOrder
<1>3. QED
  BY <1>1, <1>2, Zenon DEF LocksInOrder

\* A queuer that inserts no leaf_data row keeps the order: it has the same keys,
\* or none, and not more to do.
LEMMA KeysStayInOrder ==
  ASSUME NEW q \in Queuers, KeysInOrder(q), qleaf'[q] \subseteq qleaf[q],
         qtodo'[q] \subseteq qtodo[q], qreq'[q] = qreq[q]
  PROVE  KeysInOrder(q)'
<1>1. \A i : IdAt(q, i)' = IdAt(q, i)
  BY Zenon DEF IdAt
<1>2. QED
  BY <1>1, Zenon DEF KeysInOrder

\* A queuer without keys is in order.
LEMMA NoKeysInOrder ==
  ASSUME NEW q \in Queuers, qleaf'[q] = {}
  PROVE  KeysInOrder(q)'
BY Zenon DEF KeysInOrder

\* The insert takes the least of the keys that remain.
LEMMA InsertLeafDataOrder ==
  ASSUME IInv, NEW q \in Queuers, KeysInOrder(q), NEW i \in qtodo[q], InsertLeafData(q, i)
  PROVE  KeysInOrder(q)' /\ \A p \in Queuers \ {q} : qleaf'[p] = qleaf[p] /\ qtodo'[p] = qtodo[p]
<1>1. TypeOK /\ qreq' = qreq
  BY Zenon DEF IInv, TypeInv, InsertLeafData
<1>2. CASE qleaf' = qleaf /\ qtodo' = [qtodo EXCEPT ![q] = @ \ {i}]
  <2>1. /\ qleaf'[q] \subseteq qleaf[q] /\ qtodo'[q] \subseteq qtodo[q] /\ qreq'[q] = qreq[q]
        /\ \A p \in Queuers \ {q} : qleaf'[p] = qleaf[p] /\ qtodo'[p] = qtodo[p]
    BY <1>1, <1>2, QueuerDomains, Zenon
  <2>2. QED
    BY <2>1, KeysStayInOrder, Zenon
<1>3. CASE qleaf' = [qleaf EXCEPT ![q] = @ \cup {RowFor(q, i)}] /\ qtodo' = qtodo
  <2>1. /\ qleaf'[q] = qleaf[q] \cup {RowFor(q, i)} /\ qtodo'[q] = qtodo[q]
        /\ \A p \in Queuers \ {q} : qleaf'[p] = qleaf[p] /\ qtodo'[p] = qtodo[p]
    BY <1>1, <1>3, QueuerDomains, Zenon
  <2>2. \A j : IdAt(q, j)' = IdAt(q, j)
    BY <1>1, Zenon DEF IdAt
  <2>3. RowFor(q, i).id = IdAt(q, i)
    BY Zenon DEF RowFor
  <2>4. \A j \in qtodo[q] : IdAt(q, i) <= IdAt(q, j)
    BY Zenon DEF InsertLeafData, NextInOrder
  <2>5. QED
    BY <2>1, <2>2, <2>3, <2>4, Zenon DEF KeysInOrder
<1>4. QED
  BY <1>2, <1>3, Zenon DEF InsertLeafData, RowFor

\* Every step of a queuer keeps the order of its keys, and that of the others.
LEMMA QueuerLockStep ==
  ASSUME IInv, \A p \in Queuers : KeysInOrder(p), NEW q \in Queuers,
         \/ \E leaves \in Batches, ts \in Times : BeginQueueLeaves(q, leaves, ts)
         \/ QueuerStep(q) \/ FailQueueLeaves(q) \/ CrashQueuer(q)
  PROVE  \A p \in Queuers : KeysInOrder(p)'
<1>1. TypeOK /\ RowsOf(q)
  BY Zenon DEF IInv, TypeInv, QueuerInv
<1>2. \A p \in Queuers \ {q} : qreq'[p] = qreq[p]
  BY <1>1, QueuerDomains, Zenon DEF QueuerStep, BeginQueueLeaves, InsertLeafData,
     InsertUnsequenced, RetrieveExisting, CommitQueueLeaves, ContextDone, FailQueueLeaves,
     CrashQueuer, CloseQueuer
<1>3. ASSUME KeysInOrder(q)',
             \A p \in Queuers \ {q} : qleaf'[p] = qleaf[p] /\ qtodo'[p] = qtodo[p]
      PROVE  \A p \in Queuers : KeysInOrder(p)'
  BY <1>2, <1>3, KeysStayInOrder, Zenon
<1>4. ASSUME NEW leaves \in Batches, NEW ts \in Times, BeginQueueLeaves(q, leaves, ts)
      PROVE  \A p \in Queuers : KeysInOrder(p)'
  <2>1. /\ qleaf'[q] = {}
        /\ \A p \in Queuers \ {q} : qleaf'[p] = qleaf[p] /\ qtodo'[p] = qtodo[p]
    BY <1>1, <1>4, QueuerDomains, Zenon DEF BeginQueueLeaves, RowsOf
  <2>2. QED
    BY <1>3, <2>1, NoKeysInOrder, Zenon
<1>5. ASSUME NEW i \in qtodo[q], InsertLeafData(q, i) PROVE \A p \in Queuers : KeysInOrder(p)'
  BY <1>3, <1>5, InsertLeafDataOrder, Zenon
<1>6. CASE InsertUnsequenced(q) \/ RetrieveExisting(q) \/ FailQueueLeaves(q)
  <2>1. /\ qleaf'[q] \subseteq qleaf[q] /\ qtodo'[q] \subseteq qtodo[q] /\ qreq'[q] = qreq[q]
        /\ \A p \in Queuers \ {q} : qleaf'[p] = qleaf[p] /\ qtodo'[p] = qtodo[p]
    <3>1. /\ qleaf' = qleaf /\ qreq' = qreq
          /\ qtodo' = [qtodo EXCEPT ![q] = @ \ {qcur[q]}] \/ qtodo' = qtodo
      BY <1>6, Zenon DEF InsertUnsequenced, RetrieveExisting, FailQueueLeaves
    <3>2. QED
      BY <1>1, <3>1, QueuerDomains, Zenon
  <2>2. QED
    BY <1>3, <2>1, KeysStayInOrder, Zenon
<1>7. ASSUME CloseQueuer(q) PROVE \A p \in Queuers : KeysInOrder(p)'
  <2>1. /\ qleaf'[q] = {}
        /\ \A p \in Queuers \ {q} : qleaf'[p] = qleaf[p] /\ qtodo'[p] = qtodo[p]
    BY <1>1, <1>7, QueuerDomains, Zenon DEF CloseQueuer
  <2>2. QED
    BY <1>3, <2>1, NoKeysInOrder, Zenon
<1>8. QED
  BY <1>4, <1>5, <1>6, <1>7, Zenon DEF QueuerStep, CommitQueueLeaves, ContextDone, CrashQueuer

\* What another transaction does not touch stays in order.
LEMMA SameWriterInOrder ==
  ASSUME NEW x \in Writers, SameWriter(x), RowsInOrder(x), SeqsInOrder(x)
  PROVE  RowsInOrder(x)' /\ SeqsInOrder(x)'
BY Zenon DEF SameWriter, RowsInOrder, SeqsInOrder

\* A writer that keeps its batch and inserts no sequence number.
LEMMA RowsStayInOrder ==
  ASSUME NEW w \in Writers, RowsInOrder(w), wdq'[w] = wdq[w], wpc'[w] # "sequence"
  PROVE  RowsInOrder(w)' /\ SeqsInOrder(w)'
BY Zenon DEF RowsInOrder, SeqsInOrder

\* A writer that ended.
LEMMA ClosedWriterInOrder ==
  ASSUME IInv, NEW w \in Writers, CloseWriter(w)
  PROVE  RowsInOrder(w)' /\ SeqsInOrder(w)' /\ \A x \in Writers \ {w} : SameWriter(x)
<1>1. wpc'[w] = "idle" /\ wdq'[w] = <<>> /\ \A x \in Writers \ {w} : SameWriter(x)
  BY WriterDomains, ClosedWriter, Zenon DEF IInv, TypeInv, CloseWriter
<1>2. RowsInOrder(w)'
  BY <1>1 DEF RowsInOrder
<1>3. QED
  BY <1>1, <1>2, Zenon DEF SeqsInOrder

\* DequeueLeaves selects in queue order.
LEMMA DequeueLeavesOrder ==
  ASSUME IInv, NEW w \in Writers, RowsInOrder(w), NEW cutoff \in Times, DequeueLeaves(w, cutoff)
  PROVE  RowsInOrder(w)' /\ SeqsInOrder(w)' /\ \A x \in Writers \ {w} : SameWriter(x)
<1>1. PICK n \in 0..DequeueLimit : \E dq \in [1..n -> Due(cutoff)] :
        /\ IsQueueHead(dq, Due(cutoff))
        /\ \/ CloseWriter(w)
           \/ /\ wpc' = [wpc EXCEPT ![w] = "storeRoot"]
              /\ UNCHANGED <<wroot, wdq, widx, wdel, wseq>>
           \/ /\ wdq' = [wdq EXCEPT ![w] = dq]
              /\ widx' = [widx EXCEPT ![w] = 1]
              /\ wpc' = [wpc EXCEPT ![w] = "remove"]
              /\ UNCHANGED <<wroot, wdel, wseq>>
  BY Zenon DEF DequeueLeaves
<1>2. CASE CloseWriter(w)
  BY <1>2, ClosedWriterInOrder, Zenon
<1>3. CASE /\ wpc' = [wpc EXCEPT ![w] = "storeRoot"]
           /\ UNCHANGED <<wroot, wdq, widx, wdel, wseq>>
  <2>1. /\ wpc'[w] = "storeRoot" /\ wdq'[w] = wdq[w]
        /\ \A x \in Writers \ {w} : SameWriter(x)
    BY <1>3, WriterDomains, Zenon DEF IInv, TypeInv, SameWriter
  <2>2. QED
    BY <2>1, RowsStayInOrder, Zenon
<1>4. ASSUME NEW dq \in [1..n -> Due(cutoff)], IsQueueHead(dq, Due(cutoff)),
             wdq' = [wdq EXCEPT ![w] = dq], widx' = [widx EXCEPT ![w] = 1],
             wpc' = [wpc EXCEPT ![w] = "remove"], UNCHANGED <<wroot, wdel, wseq>>
      PROVE  RowsInOrder(w)' /\ SeqsInOrder(w)' /\ \A x \in Writers \ {w} : SameWriter(x)
  <2>1. n \in Nat /\ Due(cutoff) \in SUBSET unsequenced
    BY DequeueLimitAssumption DEF Due
  <2>2. Len(dq) = n /\ DOMAIN dq = 1..n
    BY <2>1, DequeuedType, Zenon DEF IInv, TypeInv
  <2>3. /\ wpc'[w] = "remove" /\ wdq'[w] = dq
        /\ \A x \in Writers \ {w} : SameWriter(x)
    BY <1>4, WriterDomains, Zenon DEF IInv, TypeInv, SameWriter
  <2>4. QED
    BY <1>4, <2>2, <2>3, Zenon DEF RowsInOrder, SeqsInOrder, IsQueueHead
<1>5. QED
  BY <1>1, <1>2, <1>3, <1>4, Zenon

\* The first sequence number comes after all deletes, and each number after the
\* one before.
LEMMA LoopOrder ==
  ASSUME IInv, NEW w \in Writers, RowsInOrder(w), SeqsInOrder(w),
         RemoveSequencedLeaf(w) \/ UpdateSequencedLeaf(w)
  PROVE  RowsInOrder(w)' /\ SeqsInOrder(w)' /\ \A x \in Writers \ {w} : SameWriter(x)
<1>1. CASE CloseWriter(w)
  BY <1>1, ClosedWriterInOrder, Zenon
<1>2. CASE RemoveSequencedLeaf(w) /\ ~CloseWriter(w)
  <2>1. /\ wpc[w] = "remove" /\ Advance(w, "sequence") /\ UNCHANGED <<wroot, wdq, wseq>>
        /\ wdel' = [wdel EXCEPT ![w] = @ \cup {wdq[w][widx[w]]}]
    BY <1>2, Zenon DEF RemoveSequencedLeaf, RollbackWriter
  <2>2. \A x \in Writers \ {w} : SameWriter(x)
    BY <2>1, AdvanceFacts, WriterDomains, Zenon DEF IInv, TypeInv, SameWriter
  <2>3. wseq'[w] = {}
    BY <2>1, WriterParts, Zenon DEF InsertsOf
  <2>4. QED
    BY <2>1, <2>2, <2>3, Zenon DEF RowsInOrder, SeqsInOrder
<1>3. CASE UpdateSequencedLeaf(w)
  <2>1. /\ wpc[w] = "sequence" /\ Advance(w, "storeRoot") /\ UNCHANGED <<wroot, wdq, wdel>>
        /\ wseq' = [wseq EXCEPT ![w] = @ \cup {AssignedRow(w, widx[w])}] \/ wseq' = [wseq EXCEPT ![w] = @]
    BY <1>3, Zenon DEF UpdateSequencedLeaf
  <2>2. \A x \in Writers \ {w} : SameWriter(x)
    BY <2>1, AdvanceFacts, WriterDomains, Zenon DEF IInv, TypeInv, SameWriter
  <2>3. wseq'[w] \subseteq wseq[w] \cup {AssignedRow(w, widx[w])}
    BY <2>1, WriterDomains, Zenon DEF IInv, TypeInv
  <2>4. \/ wpc'[w] = "storeRoot"
        \/ wpc'[w] = "sequence" /\ widx'[w] = widx[w] + 1
    BY <2>1, AdvanceFacts, Zenon
  <2>5. CASE wpc'[w] = "storeRoot"
    BY <2>1, <2>2, <2>5, RowsStayInOrder, Zenon
  <2>6. CASE wpc'[w] = "sequence" /\ widx'[w] = widx[w] + 1
    <3>1. wroot[w].treeSize \in Nat /\ widx[w] \in Nat /\ wseq[w] \subseteq SequencedRow
      BY WriterTypes, Zenon DEF IInv, TypeInv, TypeOK, WritersType
    <3>2. AssignedRow(w, widx[w]).seq = wroot[w].treeSize + widx[w] - 1
      BY Zenon DEF AssignedRow
    <3>3. \A p \in wseq[w] : p.seq \in Nat /\ p.seq < wroot[w].treeSize + widx[w] - 1
      BY <2>1, <3>1 DEF SeqsInOrder, SequencedRow
    <3>4. \A p \in wseq'[w] : p.seq < wroot'[w].treeSize + widx'[w] - 1
      BY <2>1, <2>3, <2>6, <3>1, <3>2, <3>3
    <3>5. QED
      BY <2>1, <2>2, <3>4, Zenon DEF RowsInOrder, SeqsInOrder
  <2>7. QED
    BY <2>4, <2>5, <2>6, Zenon
<1>4. QED
  BY <1>1, <1>2, <1>3, Zenon

\* Every step of a writer keeps the order of its locks, and that of the others.
LEMMA WriterLockStep ==
  ASSUME IInv, \A x \in Writers : RowsInOrder(x) /\ SeqsInOrder(x), NEW w \in Writers,
         WriterStep(w) \/ AbortWriter(w)
  PROVE  \A x \in Writers : RowsInOrder(x)' /\ SeqsInOrder(x)'
<1>1. SUFFICES RowsInOrder(w)' /\ SeqsInOrder(w)' /\ \A x \in Writers \ {w} : SameWriter(x)
  BY SameWriterInOrder, Zenon
<1>2. CASE CloseWriter(w)
  BY <1>2, ClosedWriterInOrder, Zenon
<1>3. CASE BeginInitLog(w) \/ BeginIntegrate(w) \/ UpdateTreesRow(w)
           \/ (InsertTreeHead(w) /\ ~CloseWriter(w))
  <2>1. /\ wpc'[w] # "sequence" /\ wdq'[w] = wdq[w] /\ \A x \in Writers \ {w} : SameWriter(x)
    BY <1>3, WriterDomains, Zenon DEF BeginInitLog, BeginIntegrate, UpdateTreesRow, InsertTreeHead,
       RollbackWriter, IInv, TypeInv, SameWriter
  <2>2. QED
    BY <2>1, RowsStayInOrder, Zenon
<1>4. QED
  BY <1>2, <1>3, DequeueLeavesOrder, LoopOrder, Zenon DEF WriterStep, AbortWriter, CommitWriter

\* The order of the locks is kept by every step.
LEMMA LocksInOrderStep ==
  ASSUME IInv, LocksInOrder, [Next]_vars
  PROVE  LocksInOrder'
<1>1. ASSUME UNCHANGED qvars PROVE \A q \in Queuers : KeysInOrder(q)'
  BY <1>1, KeysStayInOrder, Zenon DEF LocksInOrder, qvars
<1>2. ASSUME UNCHANGED wvars PROVE \A w \in Writers : RowsInOrder(w)' /\ SeqsInOrder(w)'
  BY <1>2, SameWriterInOrder, Zenon DEF LocksInOrder, wvars, SameWriter
<1>3. ASSUME NEW q \in Queuers,
             \/ \E leaves \in Batches, ts \in Times : BeginQueueLeaves(q, leaves, ts)
             \/ QueuerStep(q) \/ FailQueueLeaves(q) \/ CrashQueuer(q)
      PROVE  LocksInOrder'
  <2>1. UNCHANGED wvars
    BY <1>3, Zenon DEF QueuerStep, BeginQueueLeaves, InsertLeafData, InsertUnsequenced,
       RetrieveExisting, CommitQueueLeaves, ContextDone, FailQueueLeaves, CrashQueuer
  <2>2. QED
    BY <1>2, <1>3, <2>1, QueuerLockStep, Zenon DEF LocksInOrder
<1>4. ASSUME NEW w \in Writers, WriterStep(w) \/ AbortWriter(w) PROVE LocksInOrder'
  <2>1. UNCHANGED qvars
    BY <1>4, Zenon DEF WriterStep, BeginInitLog, BeginIntegrate, DequeueLeaves,
       RemoveSequencedLeaf, RollbackWriter, UpdateSequencedLeaf, UpdateTreesRow,
       InsertTreeHead, CommitWriter, AbortWriter
  <2>2. QED
    BY <1>1, <1>4, <2>1, WriterLockStep, Zenon DEF LocksInOrder
<1>5. CASE UNCHANGED vars
  BY <1>1, <1>2, <1>5, Zenon DEF vars, LocksInOrder
<1>6. QED
  BY <1>3, <1>4, <1>5, Zenon DEF Next

\* Transactions take their locks in order.
THEOREM LockOrder == Spec => []LocksInOrder
<1>1. IInv /\ LocksInOrder /\ [Next]_vars => LocksInOrder'
  BY LocksInOrderStep, Zenon
<1>2. QED
  BY <1>1, Invariance, InitLocksInOrder, PTL DEF Spec

-----------------------------------------------------------------------------
(* Whoever waits, waits for something later.                               *)

\* A finite set that is not empty has a maximal element in every strict order.
LEMMA MaximalElement ==
  ASSUME NEW S, IsFiniteSet(S), S # {}, NEW R,
         \A x \in S : <<x, x>> \notin R,
         \A x, y, z \in S : <<x, y>> \in R /\ <<y, z>> \in R => <<x, z>> \in R
  PROVE  \E m \in S : \A x \in S : <<m, x>> \notin R
<1> DEFINE Bad == {T \in SUBSET S : T # {} /\ \A m \in T : \E x \in T : <<m, x>> \in R}
<1>1. SUFFICES ASSUME S \in Bad PROVE FALSE
  BY Zenon
<1>2. IsWellFoundedOn(StrictSubsetOrdering(S), SUBSET S)
  BY FS_StrictSubsetOrderingWellFounded, FS_FiniteSubsetsOfFinite, Zenon
<1>3. PICK T \in Bad : \A V \in Bad : ~(<<V, T>> \in StrictSubsetOrdering(S))
  <2>1. Bad \subseteq SUBSET S /\ Bad # {}
    BY <1>1, Zenon
  <2> HIDE DEF Bad
  <2>2. QED
    BY <1>2, <2>1, WFMin, Zenon
<1>4. T \in SUBSET S /\ T # {} /\ \A m \in T : \E x \in T : <<m, x>> \in R
  BY Zenon
<1>5. PICK m \in T : TRUE
  BY <1>4, Zenon
<1> DEFINE U == {x \in T : <<m, x>> \in R}
<1>6. U \in SUBSET S /\ U \subseteq T /\ U # T
  BY <1>4, <1>5, Zenon
<1>7. U # {}
  BY <1>4, <1>5, Zenon
<1>8. ASSUME NEW x \in U PROVE \E y \in U : <<x, y>> \in R
  <2>1. PICK y \in T : <<x, y>> \in R
    BY <1>4, <1>8, Zenon
  <2>2. m \in S /\ x \in S /\ y \in S /\ <<m, x>> \in R
    BY <1>4, <1>5, <1>8, Zenon
  <2>3. <<m, y>> \in R
    BY <2>1, <2>2, Zenon
  <2>4. QED
    BY <2>1, <2>3, Zenon
<1>9. U \in Bad
  BY <1>6, <1>7, <1>8, Zenon
<1> HIDE DEF U, Bad
<1>10. <<U, T>> \in StrictSubsetOrdering(S)
  BY <1>4, <1>6 DEF StrictSubsetOrdering
<1>11. QED
  BY <1>3, <1>9, <1>10, Zenon

\* The key a queuer is at.
NextId(p) == IdAt(p, CHOOSE i \in qtodo[p] : NextInOrder(p, i))

\* What a waiting queuer waits for is the key it is at, which another one holds.
LEMMA QueuerWaitsAt ==
  ASSUME IInv, NEW p \in Queuers, NEW r \in Queuers, QueuerWaits(p, r)
  PROVE  /\ NextId(p) \in Nat /\ p # r /\ NextId(p) \in IdsOf(qleaf[r])
         /\ \E i \in qtodo[p] : NextId(p) = IdAt(p, i)
<1>1. PICK i \in qtodo[p] : NextInOrder(p, i) /\ IdAt(p, i) \in IdsOf(qleaf[r])
  BY Zenon DEF QueuerWaits
<1> DEFINE c == CHOOSE j \in qtodo[p] : NextInOrder(p, j)
<1>2. c \in qtodo[p] /\ NextInOrder(p, c)
  BY <1>1, Zenon
<1>3. NextId(p) = IdAt(p, c)
  BY Zenon DEF NextId
<1> HIDE DEF c
<1>4. qpc[p] # "idle"
  BY Zenon DEF QueuerWaits
<1>5. IdAt(p, i) \in Nat /\ IdAt(p, c) \in Nat
  BY <1>2, <1>4, RequestType, LeafIdsAssumption, Zenon DEF IInv
<1>6. IdAt(p, i) <= IdAt(p, c) /\ IdAt(p, c) <= IdAt(p, i)
  BY <1>1, <1>2, Zenon DEF NextInOrder
<1>7. IdAt(p, i) = IdAt(p, c)
  BY <1>5, <1>6
<1>8. QED
  BY <1>1, <1>2, <1>3, <1>5, <1>7, Zenon DEF QueuerWaits

\* If a queuer waits for one that waits itself, then that one waits for a larger key.
LEMMA QueuerWaitsGrow ==
  ASSUME IInv, LocksInOrder, NEW p \in Queuers, NEW r \in Queuers, NEW s \in Queuers,
         QueuerWaits(p, r), QueuerWaits(r, s)
  PROVE  NextId(p) < NextId(r)
<1>1. /\ NextId(p) \in Nat /\ NextId(p) \in IdsOf(qleaf[r])
      /\ NextId(r) \in Nat /\ NextId(r) \in IdsOf(qleaf[s]) /\ r # s
  BY QueuerWaitsAt, Zenon
<1>2. PICK j \in qtodo[r] : NextId(r) = IdAt(r, j)
  BY QueuerWaitsAt, Zenon
<1>3. NextId(p) <= NextId(r)
  BY <1>1, <1>2, Zenon DEF LocksInOrder, KeysInOrder, IdsOf
<1>4. NextId(p) # NextId(r)
  BY <1>1, Zenon DEF IInv, QueuerInv, KeysApart, IdsOf
<1>5. QED
  BY <1>1, <1>3, <1>4

\* No set of queuers waits on itself.
LEMMA QueuersDoNotDeadlock ==
  ASSUME IInv, LocksInOrder, NEW S \in SUBSET Queuers, S # {}
  PROVE  ~ \A p \in S : \E r \in S : QueuerWaits(p, r)
<1>1. SUFFICES ASSUME \A p \in S : \E r \in S : QueuerWaits(p, r) PROVE FALSE
  OBVIOUS
<1> DEFINE R == {pr \in S \X S : NextId(pr[1]) < NextId(pr[2])}
<1>2. \A p \in S : NextId(p) \in Nat
  BY <1>1, QueuerWaitsAt, Zenon
<1>3. \A p, r \in S : <<p, r>> \in R <=> NextId(p) < NextId(r)
  BY Zenon
<1> HIDE DEF R
<1>4. \A p \in S : <<p, p>> \notin R
  <2>1. \A n \in Nat : ~(n < n)
    OBVIOUS
  <2>2. QED
    BY <1>2, <1>3, <2>1, Zenon
<1>5. \A p, r, s \in S : <<p, r>> \in R /\ <<r, s>> \in R => <<p, s>> \in R
  <2>1. \A l, m, n \in Nat : l < m /\ m < n => l < n
    OBVIOUS
  <2>2. QED
    BY <1>2, <1>3, <2>1, Zenon
<1>6. IsFiniteSet(S)
  BY TransactionsAssumption, FS_Subset, Zenon
<1>7. PICK m \in S : \A x \in S : <<m, x>> \notin R
  BY <1>4, <1>5, <1>6, MaximalElement, Zenon
<1>8. PICK r \in S : QueuerWaits(m, r)
  BY <1>1, Zenon
<1>9. PICK s \in S : QueuerWaits(r, s)
  BY <1>1, Zenon
<1>10. NextId(m) < NextId(r)
  BY <1>8, <1>9, QueuerWaitsGrow, Zenon
<1>11. QED
  BY <1>3, <1>7, <1>10, Zenon

\* The order in which writers lock: the rows of the queue in queue order, then
\* the sequence numbers.
LocksBefore(x, y) ==
  \/ wpc[x] = "remove" /\ wpc[y] = "sequence"
  \/ /\ wpc[x] = "remove" /\ wpc[y] = "remove"
     /\ Before(wdq[x][widx[x]], wdq[y][widx[y]])
  \/ /\ wpc[x] = "sequence" /\ wpc[y] = "sequence"
     /\ AssignedRow(x, widx[x]).seq < AssignedRow(y, widx[y]).seq

\* Queue order is a strict order.
LEMMA BeforeIsStrict ==
  /\ \A r \in UnsequencedRow : ~Before(r, r)
  /\ \A r, s, t \in UnsequencedRow : Before(r, s) /\ Before(s, t) => Before(r, t)
<1>1. \A r \in UnsequencedRow : r.ts \in Nat /\ r.id \in Nat
  BY LeafIdsAssumption, TimesAssumption, Zenon DEF UnsequencedRow
<1>2. \A r \in UnsequencedRow : ~Before(r, r)
  BY <1>1 DEF Before
<1>3. ASSUME NEW r \in UnsequencedRow, NEW s \in UnsequencedRow, NEW t \in UnsequencedRow,
             Before(r, s), Before(s, t)
      PROVE  Before(r, t)
  <2>1. /\ r.ts \in Nat /\ s.ts \in Nat /\ t.ts \in Nat
        /\ r.id \in Nat /\ s.id \in Nat /\ t.id \in Nat
    BY <1>1, Zenon
  <2>2. QED
    BY <1>3, <2>1 DEF Before
<1>4. QED
  BY <1>2, <1>3, Zenon

\* The types of what writers wait for.
LEMMA WriterAt ==
  ASSUME IInv, NEW x \in Writers, wpc[x] \in {"remove", "sequence"}
  PROVE  wdq[x][widx[x]] \in UnsequencedRow /\ AssignedRow(x, widx[x]).seq \in Nat
<1>1. /\ widx[x] \in 1..Len(wdq[x]) /\ wroot[x].treeSize \in Nat
      /\ \A i \in 1..Len(wdq[x]) : wdq[x][i] \in UnsequencedRow
      /\ Len(wdq[x]) \in Nat
  BY WriterTypes, Zenon
<1>2. AssignedRow(x, widx[x]).seq = wroot[x].treeSize + widx[x] - 1
  BY Zenon DEF AssignedRow
<1>3. QED
  BY <1>1, <1>2

\* A writer that waits for one that is itself at the queue or at the sequence
\* numbers comes before it.
LEMMA WriterWaitsGrow ==
  ASSUME IInv, LocksInOrder, NEW x \in Writers, NEW y \in Writers, WriterWaits(x, y),
         wpc[x] \in {"remove", "sequence"}, wpc[y] \in {"remove", "sequence"}
  PROVE  LocksBefore(x, y)
<1>1. DeletesOf(y) /\ InsertsOf(y) /\ RowsInOrder(y) /\ SeqsInOrder(y)
  BY WriterParts, Zenon DEF LocksInOrder
<1>2. CASE wpc[x] = "remove" /\ wpc[y] = "remove"
  <2>1. wdq[x][widx[x]] \in wdel[y]
    BY <1>2, Zenon DEF WriterWaits
  <2>2. PICK k \in 1..(widx[y] - 1) : wdq[x][widx[x]] = wdq[y][k]
    <3>1. wdel[y] = {wdq[y][k] : k \in 1..(widx[y] - 1)}
      BY <1>1, <1>2, Zenon DEF DeletesOf, DeletedAt
    <3> QED
      BY <2>1, <3>1, Zenon
  <2>3. widx[y] \in 1..Len(wdq[y]) /\ Len(wdq[y]) \in Nat
    BY WriterTypes, Zenon
  <2>4. k \in 1..Len(wdq[y]) /\ k < widx[y]
    BY <2>2, <2>3
  <2>5. QED
    BY <1>1, <1>2, <2>2, <2>3, <2>4, Zenon DEF RowsInOrder, LocksBefore
<1>3. CASE wpc[x] = "remove" /\ wpc[y] = "sequence"
  BY <1>3, Zenon DEF LocksBefore
<1>4. CASE wpc[x] = "sequence"
  <2>1. PICK p \in wseq[y] : p.seq = AssignedRow(x, widx[x]).seq
    BY <1>4, Zenon DEF WriterWaits
  <2>2. wpc[y] = "sequence"
    BY <1>1, <2>1, Zenon DEF InsertsOf
  <2>3. p.seq < AssignedRow(y, widx[y]).seq
    BY <1>1, <2>1, <2>2, Zenon DEF SeqsInOrder, AssignedRow
  <2>4. QED
    BY <1>4, <2>1, <2>2, <2>3, Zenon DEF LocksBefore
<1>5. QED
  BY <1>2, <1>3, <1>4, Zenon

\* No set of writers waits on itself.
LEMMA WritersDoNotDeadlock ==
  ASSUME IInv, LocksInOrder, NEW S \in SUBSET Writers, S # {}
  PROVE  ~ \A x \in S : \E y \in S : WriterWaits(x, y)
<1>1. SUFFICES ASSUME \A x \in S : \E y \in S : WriterWaits(x, y) PROVE FALSE
  OBVIOUS
<1> DEFINE R == {xy \in S \X S : LocksBefore(xy[1], xy[2])}
<1>2. \A x \in S : wpc[x] \in {"remove", "sequence"}
  BY <1>1, Zenon DEF WriterWaits, HoldsTreesRow
<1>3. \A x \in S : wdq[x][widx[x]] \in UnsequencedRow /\ AssignedRow(x, widx[x]).seq \in Nat
  BY <1>2, WriterAt, Zenon
<1>4. \A x, y \in S : <<x, y>> \in R <=> LocksBefore(x, y)
  BY Zenon
<1> HIDE DEF R
<1>5. \A x \in S : <<x, x>> \notin R
  <2>1. \A n \in Nat : ~(n < n)
    OBVIOUS
  <2>2. QED
    BY <1>3, <1>4, <2>1, BeforeIsStrict, Zenon DEF LocksBefore
<1>6. \A x, y, z \in S : <<x, y>> \in R /\ <<y, z>> \in R => <<x, z>> \in R
  <2>1. \A l, m, n \in Nat : l < m /\ m < n => l < n
    OBVIOUS
  <2>2. ASSUME NEW x \in S, NEW y \in S, NEW z \in S, LocksBefore(x, y), LocksBefore(y, z)
        PROVE  LocksBefore(x, z)
    <3>1. CASE wpc[x] = "remove" /\ wpc[z] = "sequence"
      BY <3>1, Zenon DEF LocksBefore
    <3>2. CASE wpc[z] = "remove"
      <4>1. /\ wpc[x] = "remove"
            /\ Before(wdq[x][widx[x]], wdq[y][widx[y]]) /\ Before(wdq[y][widx[y]], wdq[z][widx[z]])
        BY <2>2, <3>2, Zenon DEF LocksBefore
      <4>2. Before(wdq[x][widx[x]], wdq[z][widx[z]])
        BY <1>3, <4>1, BeforeIsStrict, Zenon
      <4>3. QED
        BY <3>2, <4>1, <4>2, Zenon DEF LocksBefore
    <3>3. CASE wpc[x] = "sequence"
      <4>1. /\ wpc[z] = "sequence"
            /\ AssignedRow(x, widx[x]).seq < AssignedRow(y, widx[y]).seq
            /\ AssignedRow(y, widx[y]).seq < AssignedRow(z, widx[z]).seq
        BY <2>2, <3>3, Zenon DEF LocksBefore
      <4>2. AssignedRow(x, widx[x]).seq < AssignedRow(z, widx[z]).seq
        BY <1>3, <2>1, <4>1, Zenon
      <4>3. QED
        BY <3>3, <4>1, <4>2, Zenon DEF LocksBefore
    <3>4. QED
      BY <1>2, <3>1, <3>2, <3>3, Zenon
  <2>3. QED
    BY <1>4, <2>2, Zenon
<1>7. IsFiniteSet(S)
  BY TransactionsAssumption, FS_Subset, Zenon
<1>8. PICK m \in S : \A x \in S : <<m, x>> \notin R
  BY <1>5, <1>6, <1>7, MaximalElement, Zenon
<1>9. PICK y \in S : WriterWaits(m, y)
  BY <1>1, Zenon
<1>10. LocksBefore(m, y)
  BY <1>2, <1>9, WriterWaitsGrow, Zenon
<1>11. QED
  BY <1>4, <1>8, <1>10, Zenon

\* QueueLeaves calls, signers and InitLog never deadlock in PostgreSQL, whatever
\* they lock and in whatever order their statements come.
THEOREM NeverDeadlocked == Spec => []NoDeadlock
<1>1. IInv /\ LocksInOrder => NoDeadlock
  BY QueuersDoNotDeadlock, WritersDoNotDeadlock, Zenon DEF NoDeadlock
<1>2. QED
  BY <1>1, Invariance, LockOrder, PTL
=============================================================================
