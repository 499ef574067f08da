---------------------------- MODULE LogStorageProofs ----------------------------
(***************************************************************************)
(* The theorems about LogStorage, for every value of its constants, along   *)
(* one inductive invariant.                                                 *)
(***************************************************************************)
EXTENDS LogStorage, TLAPS

-----------------------------------------------------------------------------
(* Types: the type invariant is inductive together with the cursors, which *)
(* point into the request or into the dequeued rows.                       *)

QueuerCursors ==
  \A q \in Queuers :
    /\ qpc[q] # "idle" => qreq[q] \in [leaves : Batches, ts : Times]
    /\ qtodo[q] \subseteq DOMAIN qreq[q].leaves
    /\ qpc[q] = "enqueue" => qcur[q] \in qtodo[q]

WriterCursors ==
  \A w \in Writers :
    wpc[w] \in {"remove", "sequence"} => widx[w] \in 1..Len(wdq[w])

TypeInv == TypeOK /\ QueuerCursors /\ WriterCursors

-----------------------------------------------------------------------------
\* Init is well typed.
LEMMA InitTypeInv == Init => TypeInv
<1> SUFFICES ASSUME Init PROVE TypeInv
  OBVIOUS
<1>1. TablesType
  BY Zenon DEF Init, TablesType
<1>2. QueuersType
  BY Zenon DEF Init, QueuersType, NoRequest, QueuerPcs
<1>3. WritersType
  BY DEF Init, WritersType, WriterPcs
<1>4. acked \subseteq Leaf /\ faults \in 0..MaxFaults
  BY BoundsAssumption DEF Init
<1>5. QueuerCursors /\ WriterCursors
  BY Zenon DEF Init, QueuerCursors, WriterCursors, NoRequest
<1>6. QED
  BY <1>1, <1>2, <1>3, <1>4, <1>5, Zenon DEF TypeInv, TypeOK

\* The functions that hold the queuers' state are defined on all of them.
LEMMA QueuerDomains ==
  ASSUME TypeOK
  PROVE  /\ DOMAIN qpc = Queuers /\ DOMAIN qreq = Queuers /\ DOMAIN qtodo = Queuers
         /\ DOMAIN qcur = Queuers /\ DOMAIN qdup = Queuers /\ DOMAIN qfound = Queuers
         /\ DOMAIN qleaf = Queuers /\ DOMAIN qunseq = Queuers
  BY Zenon DEF TypeOK, QueuersType

\* The same for the functions of the writers.
LEMMA WriterDomains ==
  ASSUME TypeOK
  PROVE  /\ DOMAIN wpc = Writers /\ DOMAIN wroot = Writers /\ DOMAIN wdq = Writers
         /\ DOMAIN widx = Writers /\ DOMAIN wdel = Writers /\ DOMAIN wseq = Writers
  BY Zenon DEF TypeOK, WritersType

\* The request of an open transaction is a batch of leaves.
LEMMA RequestType ==
  ASSUME TypeInv, NEW q \in Queuers, qpc[q] # "idle"
  PROVE  /\ qreq[q].leaves \in Seq(Leaf) /\ qreq[q].ts \in Times
         /\ \A i \in DOMAIN qreq[q].leaves : /\ qreq[q].leaves[i] \in Leaf
                                             /\ IdAt(q, i) \in LeafIds
                                             /\ qreq[q].leaves[i].value \in LeafValues
         /\ qtodo[q] \subseteq DOMAIN qreq[q].leaves
         /\ DOMAIN qreq[q].leaves \subseteq Nat
<1> DEFINE b == qreq[q].leaves
<1>1. qreq[q] \in [leaves : Batches, ts : Times] /\ qtodo[q] \subseteq DOMAIN b
  BY Zenon DEF TypeInv, QueuerCursors
<1>2. b \in Seq(Leaf) /\ qreq[q].ts \in Times
  BY <1>1, BatchesAssumption, Zenon
<1>3. DOMAIN b \subseteq Nat /\ \A i \in DOMAIN b : b[i] \in Leaf
  BY <1>2
<1>4. QED
  BY <1>1, <1>2, <1>3, Zenon DEF IdAt, Leaf

\* Ending a transaction keeps the types.
LEMMA CloseQueuerType ==
  ASSUME TypeInv, NEW q \in Queuers, CloseQueuer(q)
  PROVE  QueuersType' /\ QueuerCursors'
<1>1. QueuersType'
  BY Zenon DEF TypeInv, TypeOK, QueuersType, CloseQueuer, QueuerPcs
<1>2. QueuerCursors'
  <2>1. /\ qpc'[q] = "idle" /\ qtodo'[q] = {}
        /\ \A p \in Queuers \ {q} : /\ qpc'[p] = qpc[p] /\ qreq'[p] = qreq[p]
                                    /\ qtodo'[p] = qtodo[p] /\ qcur'[p] = qcur[p]
    BY QueuerDomains, Zenon DEF TypeInv, CloseQueuer
  <2>2. QED
    BY <2>1, Zenon DEF TypeInv, QueuerCursors
<1>3. QED
  BY <1>1, <1>2, Zenon

\* Ending a writer's transaction keeps the types.
LEMMA CloseWriterType ==
  ASSUME TypeInv, NEW w \in Writers, CloseWriter(w)
  PROVE  WritersType' /\ WriterCursors'
<1>1. WritersType'
  BY DEF TypeInv, TypeOK, WritersType, CloseWriter, WriterPcs
<1>2. WriterCursors'
  <2>1. /\ wpc'[w] = "idle"
        /\ \A x \in Writers \ {w} :
             wpc'[x] = wpc[x] /\ widx'[x] = widx[x] /\ wdq'[x] = wdq[x]
    BY WriterDomains, Zenon DEF TypeInv, CloseWriter
  <2>2. QED
    BY <2>1, Zenon DEF TypeInv, WriterCursors
<1>3. QED
  BY <1>1, <1>2, Zenon

\* What a step that leaves a part of the state alone keeps.
LEMMA TypesUnchanged ==
  ASSUME TypeInv
  PROVE  /\ UNCHANGED tables => TablesType'
         /\ UNCHANGED qvars => QueuersType' /\ QueuerCursors'
         /\ UNCHANGED wvars => WritersType' /\ WriterCursors'
         /\ UNCHANGED acked => (acked \subseteq Leaf)'
         /\ UNCHANGED faults => (faults \in 0..MaxFaults)'
<1>1. UNCHANGED tables => TablesType'
  BY Zenon DEF TypeInv, TypeOK, TablesType, tables
<1>2. UNCHANGED qvars => QueuersType' /\ QueuerCursors'
  BY Zenon DEF TypeInv, TypeOK, QueuersType, QueuerCursors, qvars
<1>3. UNCHANGED wvars => WritersType' /\ WriterCursors'
  BY Zenon DEF TypeInv, TypeOK, WritersType, WriterCursors, wvars
<1>4. QED
  BY <1>1, <1>2, <1>3, Zenon DEF TypeInv, TypeOK

\* The rows a writer dequeues are a sequence of queue rows.
LEMMA DequeuedType ==
  ASSUME TypeOK, NEW n \in Nat, NEW due \in SUBSET unsequenced, NEW dq \in [1..n -> due]
  PROVE  dq \in Seq(UnsequencedRow) /\ Len(dq) = n
<1>1. unsequenced \subseteq UnsequencedRow
  BY Zenon DEF TypeOK, TablesType
<1>2. QED
  BY <1>1

\* The root a writer stores is a root.
LEMMA NewRootType ==
  ASSUME TypeInv, NEW w \in Writers
  PROVE  /\ NewRoot(w) \in LogRoot
         /\ \A i \in 1..Len(wdq[w]) : AssignedRow(w, i) \in SequencedRow
<1>1. wdq[w] \in Seq(UnsequencedRow) /\ wroot[w] \in LogRoot \cup {NoRoot}
  BY Zenon DEF TypeInv, TypeOK, WritersType
<1>2. /\ wroot[w].treeSize \in Nat /\ wroot[w].rootHash \subseteq SequencedRow
      /\ wroot[w].revision + 1 \in Nat
  BY <1>1 DEF LogRoot, NoRoot
<1>3. Len(wdq[w]) \in Nat /\ DOMAIN wdq[w] = 1..Len(wdq[w])
  BY <1>1
<1>4. ASSUME NEW i \in 1..Len(wdq[w]) PROVE AssignedRow(w, i) \in SequencedRow
  <2>1. wdq[w][i] \in UnsequencedRow
    BY <1>1, <1>4
  <2>2. wdq[w][i].id \in LeafIds
    BY <2>1, Zenon DEF UnsequencedRow
  <2>3. wroot[w].treeSize + i - 1 \in Nat
    BY <1>2, <1>3, <1>4
  <2>4. QED
    BY <2>2, <2>3, Zenon DEF AssignedRow, SequencedRow
<1>5. QED
  BY <1>2, <1>3, <1>4 DEF NewRoot, LogRoot

\* The loops over the dequeued rows keep their index inside them.
LEMMA AdvanceType ==
  ASSUME TypeInv, NEW w \in Writers, NEW nextpc \in WriterPcs,
         wpc[w] \in {"remove", "sequence"}, wdq' = wdq, Advance(w, nextpc)
  PROVE  /\ wpc' \in [Writers -> WriterPcs]
         /\ widx' \in [Writers -> Nat]
         /\ WriterCursors'
<1>1. /\ wdq[w] \in Seq(UnsequencedRow) /\ wpc \in [Writers -> WriterPcs]
      /\ widx \in [Writers -> Nat]
  BY Zenon DEF TypeInv, TypeOK, WritersType
<1>2. Len(wdq[w]) \in Nat /\ widx[w] \in 1..Len(wdq[w])
  BY <1>1 DEF TypeInv, WriterCursors
<1>3. CASE widx[w] < Len(wdq[w]) /\ widx' = [widx EXCEPT ![w] = @ + 1] /\ wpc' = wpc
  BY <1>1, <1>2, <1>3 DEF TypeInv, WriterCursors
<1>4. CASE /\ widx[w] = Len(wdq[w]) /\ widx' = [widx EXCEPT ![w] = 1]
           /\ wpc' = [wpc EXCEPT ![w] = nextpc]
  BY <1>1, <1>2, <1>4 DEF TypeInv, WriterCursors
<1>5. QED
  BY <1>3, <1>4, Zenon DEF Advance

\* Every step of a queuer keeps the types of its own state.
LEMMA QueuerTypeStep ==
  ASSUME TypeInv, NEW q \in Queuers,
         \/ \E leaves \in Batches, ts \in Times : BeginQueueLeaves(q, leaves, ts)
         \/ QueuerStep(q)
         \/ FailQueueLeaves(q)
         \/ CrashQueuer(q)
  PROVE  QueuersType' /\ QueuerCursors'
<1>1. ASSUME NEW leaves \in Batches, NEW ts \in Times, BeginQueueLeaves(q, leaves, ts)
      PROVE  QueuersType' /\ QueuerCursors'
  <2>1. DOMAIN leaves \subseteq Nat
    BY BatchesAssumption
  <2>2. /\ qpc' = [qpc EXCEPT ![q] = "insert"]
        /\ qreq' = [qreq EXCEPT ![q] = [leaves |-> leaves, ts |-> ts]]
        /\ qtodo' = [qtodo EXCEPT ![q] = DOMAIN leaves]
        /\ UNCHANGED <<qcur, qdup, qfound, qleaf, qunseq>>
    BY <1>1, Zenon DEF BeginQueueLeaves
  <2>3. QueuersType'
    BY <2>1, <2>2, Zenon DEF TypeInv, TypeOK, QueuersType, QueuerPcs
  <2>4. QueuerCursors'
    BY <2>2, QueuerDomains, Zenon DEF TypeInv, QueuerCursors
  <2>5. QED
    BY <2>3, <2>4, Zenon
<1>2. ASSUME NEW i \in qtodo[q], InsertLeafData(q, i) PROVE QueuersType' /\ QueuerCursors'
  <2> DEFINE row == [id |-> IdAt(q, i), value |-> qreq[q].leaves[i].value, ts |-> qreq[q].ts]
  <2>1. qpc[q] = "insert" /\ UNCHANGED <<qreq, qfound, qunseq>>
    BY <1>2, Zenon DEF InsertLeafData
  <2>2. i \in Nat /\ i \in DOMAIN qreq[q].leaves /\ row \in LeafDataRow
    BY <2>1, RequestType, Zenon DEF LeafDataRow
  <2>3. CASE /\ qdup' = [qdup EXCEPT ![q] = @ \cup {i}]
             /\ qtodo' = [qtodo EXCEPT ![q] = @ \ {i}]
             /\ UNCHANGED <<qpc, qcur, qleaf>>
    <3>1. QueuersType'
      BY <2>1, <2>2, <2>3, Zenon DEF TypeInv, TypeOK, QueuersType
    <3>2. QueuerCursors'
      BY <2>1, <2>3, QueuerDomains, Zenon DEF TypeInv, QueuerCursors
    <3>3. QED
      BY <3>1, <3>2, Zenon
  <2>4. CASE /\ qleaf' = [qleaf EXCEPT ![q] = @ \cup {row}]
             /\ qcur' = [qcur EXCEPT ![q] = i]
             /\ qpc' = [qpc EXCEPT ![q] = "enqueue"]
             /\ UNCHANGED <<qdup, qtodo>>
    <3> HIDE DEF row
    <3>1. QueuersType'
      BY <2>1, <2>2, <2>4, Zenon DEF TypeInv, TypeOK, QueuersType, QueuerPcs
    <3>2. QueuerCursors'
      BY <2>1, <2>4, QueuerDomains, Zenon DEF TypeInv, QueuerCursors
    <3>3. QED
      BY <3>1, <3>2, Zenon
  <2>5. QED
    BY <1>2, <2>3, <2>4, Zenon DEF InsertLeafData
<1>3. ASSUME InsertUnsequenced(q) PROVE QueuersType' /\ QueuerCursors'
  <2> DEFINE row == [id |-> IdAt(q, qcur[q]), ts |-> qreq[q].ts]
  <2>1. /\ qpc[q] = "enqueue" /\ qpc' = [qpc EXCEPT ![q] = "insert"]
        /\ qunseq' = [qunseq EXCEPT ![q] = @ \cup ({row} \ unsequenced)]
        /\ qtodo' = [qtodo EXCEPT ![q] = @ \ {qcur[q]}]
        /\ qcur' = [qcur EXCEPT ![q] = 0]
        /\ UNCHANGED <<qreq, qdup, qfound, qleaf>>
    BY <1>3, Zenon DEF InsertUnsequenced
  <2>2. qcur[q] \in qtodo[q]
    BY <2>1, Zenon DEF TypeInv, QueuerCursors
  <2>3. row \in UnsequencedRow
    BY <2>1, <2>2, RequestType, Zenon DEF UnsequencedRow
  <2> HIDE DEF row
  <2>4. QueuersType'
    BY <2>1, <2>3, Zenon DEF TypeInv, TypeOK, QueuersType, QueuerPcs
  <2>5. QueuerCursors'
    BY <2>1, QueuerDomains, Zenon DEF TypeInv, QueuerCursors
  <2>6. QED
    BY <2>4, <2>5, Zenon
<1>4. ASSUME RetrieveExisting(q) PROVE QueuersType' /\ QueuerCursors'
  <2>1. ExistingRows(q) \subseteq LeafDataRow
    BY Zenon DEF ExistingRows, TypeInv, TypeOK, TablesType, QueuersType
  <2>2. PICK pc \in {"commit", "failed"} :
          /\ qpc' = [qpc EXCEPT ![q] = pc]
          /\ qfound' = [qfound EXCEPT ![q] = ExistingRows(q)] \/ qfound' = qfound
    BY <1>4, Zenon DEF RetrieveExisting
  <2>3. qpc[q] = "insert" /\ UNCHANGED <<qreq, qtodo, qcur, qdup, qleaf, qunseq>>
    BY <1>4, Zenon DEF RetrieveExisting
  <2>4. QueuersType'
    BY <2>1, <2>2, <2>3 DEF TypeInv, TypeOK, QueuersType, QueuerPcs
  <2>5. QueuerCursors'
    BY <2>2, <2>3, QueuerDomains, Zenon DEF TypeInv, QueuerCursors
  <2>6. QED
    BY <2>4, <2>5, Zenon
<1>5. ASSUME FailQueueLeaves(q) PROVE QueuersType' /\ QueuerCursors'
  <2>1. /\ qpc[q] # "idle" /\ qpc' = [qpc EXCEPT ![q] = "failed"]
        /\ UNCHANGED <<qreq, qtodo, qcur, qdup, qfound, qleaf, qunseq>>
    BY <1>5, Zenon DEF FailQueueLeaves
  <2>2. QueuersType'
    BY <2>1, Zenon DEF TypeInv, TypeOK, QueuersType, QueuerPcs
  <2>3. QueuerCursors'
    BY <2>1, QueuerDomains, Zenon DEF TypeInv, QueuerCursors
  <2>4. QED
    BY <2>2, <2>3, Zenon
<1>6. ASSUME CloseQueuer(q) PROVE QueuersType' /\ QueuerCursors'
  BY <1>6, CloseQueuerType, Zenon
<1>7. QED
  BY <1>1, <1>2, <1>3, <1>4, <1>5, <1>6, Zenon
     DEF QueuerStep, CommitQueueLeaves, ContextDone, CrashQueuer

\* Every step of a writer keeps the types of its own state.
LEMMA WriterTypeStep ==
  ASSUME TypeInv, NEW w \in Writers, WriterStep(w) \/ AbortWriter(w)
  PROVE  WritersType' /\ WriterCursors'
<1>1. ASSUME BeginInitLog(w) \/ BeginIntegrate(w) PROVE WritersType' /\ WriterCursors'
  <2>1. PICK pc \in {"storeRoot", "dequeue"} :
          /\ wpc' = [wpc EXCEPT ![w] = pc]
          /\ wroot' = wroot \/ wroot' = [wroot EXCEPT ![w] = treeRoot]
          /\ UNCHANGED <<wdq, widx, wdel, wseq>>
    BY <1>1, Zenon DEF BeginInitLog, BeginIntegrate
  <2>2. WritersType'
    <3>1. wpc' \in [Writers -> WriterPcs]
      BY <2>1, Zenon DEF TypeInv, TypeOK, WritersType, WriterPcs
    <3>2. wroot' \in [Writers -> LogRoot \cup {NoRoot}]
      <4>1. treeRoot \in LogRoot \cup {NoRoot}
        BY Zenon DEF TypeInv, TypeOK, TablesType
      <4>2. wroot \in [Writers -> LogRoot \cup {NoRoot}]
        BY Zenon DEF TypeInv, TypeOK, WritersType
      <4>3. QED
        BY <2>1, <4>1, <4>2, Zenon
    <3>3. QED
      BY <2>1, <3>1, <3>2, Zenon DEF TypeInv, TypeOK, WritersType
  <2>3. WriterCursors'
    BY <2>1, WriterDomains, Zenon DEF TypeInv, WriterCursors
  <2>4. QED
    BY <2>2, <2>3, Zenon
<1>2. ASSUME CloseWriter(w) PROVE WritersType' /\ WriterCursors'
  BY <1>2, CloseWriterType, Zenon
<1>3. ASSUME NEW pc \in {"storeRoot", "treeHead", "commit"},
             wpc' = [wpc EXCEPT ![w] = pc], UNCHANGED <<wroot, wdq, widx, wdel, wseq>>
      PROVE  WritersType' /\ WriterCursors'
  <2>1. WritersType'
    BY <1>3, Zenon DEF TypeInv, TypeOK, WritersType, WriterPcs
  <2>2. WriterCursors'
    BY <1>3, WriterDomains, Zenon DEF TypeInv, WriterCursors
  <2>3. QED
    BY <2>1, <2>2, Zenon
<1>4. ASSUME NEW cutoff \in Times, DequeueLeaves(w, cutoff)
      PROVE  WritersType' /\ WriterCursors'
  <2>1. PICK n \in 0..DequeueLimit : \E dq \in [1..n -> Due(cutoff)] :
          \/ CloseWriter(w)
          \/ /\ wpc' = [wpc EXCEPT ![w] = "storeRoot"]
             /\ UNCHANGED <<wroot, wdq, widx, wdel, wseq>>
          \/ /\ n > 0
             /\ wdq' = [wdq EXCEPT ![w] = dq]
             /\ widx' = [widx EXCEPT ![w] = 1]
             /\ wpc' = [wpc EXCEPT ![w] = "remove"]
             /\ UNCHANGED <<wroot, wdel, wseq>>
    BY <1>4, Zenon DEF DequeueLeaves
  <2>2. ASSUME NEW dq \in [1..n -> Due(cutoff)], n > 0,
               wdq' = [wdq EXCEPT ![w] = dq], widx' = [widx EXCEPT ![w] = 1],
               wpc' = [wpc EXCEPT ![w] = "remove"], UNCHANGED <<wroot, wdel, wseq>>
        PROVE  WritersType' /\ WriterCursors'
    <3>1. n \in Nat /\ Due(cutoff) \in SUBSET unsequenced
      BY DequeueLimitAssumption DEF Due
    <3>2. dq \in Seq(UnsequencedRow) /\ Len(dq) = n
      BY <3>1, DequeuedType, Zenon DEF TypeInv
    <3>3. WritersType'
      BY <2>2, <3>2, Zenon DEF TypeInv, TypeOK, WritersType, WriterPcs
    <3>4. WriterCursors'
      BY <2>2, <3>1, <3>2, WriterDomains DEF TypeInv, WriterCursors
    <3>5. QED
      BY <3>3, <3>4, Zenon
  <2>3. QED
    BY <1>2, <1>3, <2>1, <2>2, Zenon
<1>5. ASSUME RemoveSequencedLeaf(w) PROVE WritersType' /\ WriterCursors'
  <2> DEFINE row == wdq[w][widx[w]]
  <2>1. CASE /\ row \in unsequenced
             /\ wdel' = [wdel EXCEPT ![w] = @ \cup {row}]
             /\ Advance(w, "sequence")
             /\ UNCHANGED <<wroot, wdq, wseq>>
    <3>1. wpc[w] = "remove"
      BY <1>5, Zenon DEF RemoveSequencedLeaf
    <3>2. /\ wpc' \in [Writers -> WriterPcs] /\ widx' \in [Writers -> Nat]
          /\ WriterCursors'
      BY <2>1, <3>1, AdvanceType, Zenon DEF WriterPcs
    <3>3. row \in UnsequencedRow
      BY <2>1, Zenon DEF TypeInv, TypeOK, TablesType
    <3> HIDE DEF row
    <3>4. WritersType'
      <4>1. wdel' \in [Writers -> SUBSET UnsequencedRow]
        BY <2>1, <3>3, Zenon DEF TypeInv, TypeOK, WritersType
      <4>2. QED
        BY <2>1, <3>2, <4>1, Zenon DEF TypeInv, TypeOK, WritersType
    <3>5. QED
      BY <3>2, <3>4, Zenon
  <2>2. QED
    BY <1>2, <1>5, <2>1, Zenon DEF RemoveSequencedLeaf, RollbackWriter
<1>6. ASSUME UpdateSequencedLeaf(w) PROVE WritersType' /\ WriterCursors'
  <2> DEFINE row == AssignedRow(w, widx[w])
  <2>1. /\ wpc[w] = "sequence" /\ Advance(w, "storeRoot")
        /\ UNCHANGED <<wroot, wdq, wdel>>
        /\ wseq' = [wseq EXCEPT ![w] =
             IF \E p \in sequenced : p.seq = row.seq THEN @ ELSE @ \cup {row}]
    BY <1>6, Zenon DEF UpdateSequencedLeaf
  <2>2. /\ wpc' \in [Writers -> WriterPcs] /\ widx' \in [Writers -> Nat]
        /\ WriterCursors'
    BY <2>1, AdvanceType, Zenon DEF WriterPcs
  <2>3. row \in SequencedRow
    BY <2>1, NewRootType, Zenon DEF TypeInv, WriterCursors
  <2> HIDE DEF row
  <2>4. WritersType'
    <3>1. wseq' \in [Writers -> SUBSET SequencedRow]
      BY <2>1, <2>3 DEF TypeInv, TypeOK, WritersType
    <3>2. QED
      BY <2>1, <2>2, <3>1, Zenon DEF TypeInv, TypeOK, WritersType
  <2>5. QED
    BY <2>2, <2>4, Zenon
<1>7. QED
  BY <1>1, <1>2, <1>3, <1>4, <1>5, <1>6, Zenon
     DEF WriterStep, UpdateTreesRow, InsertTreeHead, RollbackWriter, CommitWriter, AbortWriter

\* Every step keeps the type invariant.
LEMMA TypeInvStep ==
  ASSUME TypeInv, [Next]_vars
  PROVE  TypeInv'
<1>1. ASSUME NEW q \in Queuers,
             \/ \E leaves \in Batches, ts \in Times : BeginQueueLeaves(q, leaves, ts)
             \/ QueuerStep(q) \/ FailQueueLeaves(q) \/ CrashQueuer(q)
      PROVE  TypeInv'
  <2>1. UNCHANGED wvars
    BY <1>1, Zenon DEF BeginQueueLeaves, QueuerStep, InsertLeafData, InsertUnsequenced,
       RetrieveExisting, CommitQueueLeaves, ContextDone, FailQueueLeaves, CrashQueuer
  <2>2. faults' \in {faults, faults + 1} /\ (faults' # faults => faults < MaxFaults)
    BY <1>1, Zenon DEF BeginQueueLeaves, QueuerStep, InsertLeafData, InsertUnsequenced,
       RetrieveExisting, CommitQueueLeaves, ContextDone, FailQueueLeaves, CrashQueuer
  <2>3. (faults \in 0..MaxFaults)'
    BY <2>2, BoundsAssumption DEF TypeInv, TypeOK
  <2>4. TablesType' /\ (acked \subseteq Leaf)'
    <3>1. CASE \E delivered \in BOOLEAN : CommitQueueLeaves(q, delivered)
      <4>1. /\ leafData' = leafData \cup qleaf[q] /\ unsequenced' = unsequenced \cup qunseq[q]
            /\ UNCHANGED <<sequenced, treeRoot, treeHead>>
            /\ acked' \in {acked, acked \cup Reply(q)} /\ qpc[q] # "idle"
        BY <3>1, Zenon DEF CommitQueueLeaves
      <4>2. /\ qleaf[q] \subseteq LeafDataRow /\ qunseq[q] \subseteq UnsequencedRow
            /\ qfound[q] \subseteq LeafDataRow
        BY Zenon DEF TypeInv, TypeOK, QueuersType
      <4>3. TablesType'
        BY <4>1, <4>2, Zenon DEF TypeInv, TypeOK, TablesType
      <4>4. \A i \in DOMAIN qreq[q].leaves : qreq[q].leaves[i] \in Leaf
        BY <4>1, RequestType, Zenon
      <4>5. \A r \in qfound[q] : [id |-> r.id, value |-> r.value] \in Leaf
        BY <4>2, Zenon DEF LeafDataRow, Leaf
      <4>6. Reply(q) \subseteq Leaf
        BY <4>4, <4>5, Zenon DEF Reply
      <4>7. QED
        BY <4>1, <4>3, <4>6, Zenon DEF TypeInv, TypeOK
    <3>2. CASE ~ \E delivered \in BOOLEAN : CommitQueueLeaves(q, delivered)
      <4>1. UNCHANGED <<tables, acked>>
        BY <1>1, <3>2, Zenon DEF BeginQueueLeaves, QueuerStep, InsertLeafData, InsertUnsequenced,
           RetrieveExisting, ContextDone, FailQueueLeaves, CrashQueuer
      <4>2. QED
        BY <4>1, TypesUnchanged, Zenon
    <3>3. QED
      BY <3>1, <3>2, Zenon
  <2>5. QED
    BY <1>1, <2>1, <2>3, <2>4, QueuerTypeStep, TypesUnchanged, Zenon DEF TypeInv, TypeOK
<1>2. ASSUME NEW w \in Writers, WriterStep(w) \/ AbortWriter(w) PROVE TypeInv'
  <2>1. UNCHANGED <<qvars, acked>>
    BY <1>2, Zenon DEF WriterStep, BeginInitLog, BeginIntegrate, DequeueLeaves, RemoveSequencedLeaf,
       RollbackWriter, UpdateSequencedLeaf, UpdateTreesRow, InsertTreeHead, CommitWriter,
       AbortWriter
  <2>2. faults' \in {faults, faults + 1} /\ (faults' # faults => faults < MaxFaults)
    BY <1>2, Zenon DEF WriterStep, BeginInitLog, BeginIntegrate, DequeueLeaves, RemoveSequencedLeaf,
       RollbackWriter, UpdateSequencedLeaf, UpdateTreesRow, InsertTreeHead, CommitWriter,
       AbortWriter
  <2>3. (faults \in 0..MaxFaults)'
    BY <2>2, BoundsAssumption DEF TypeInv, TypeOK
  <2>4. TablesType'
    <3>1. CASE CommitWriter(w)
      <4>1. /\ unsequenced' = unsequenced \ wdel[w] /\ sequenced' = sequenced \cup wseq[w]
            /\ treeRoot' = NewRoot(w) /\ treeHead' = treeHead \cup {NewRoot(w)}
            /\ leafData' = leafData
        BY <3>1, Zenon DEF CommitWriter
      <4>2. NewRoot(w) \in LogRoot /\ wseq[w] \subseteq SequencedRow
        BY NewRootType, Zenon DEF TypeInv, TypeOK, WritersType
      <4>3. QED
        BY <4>1, <4>2, Zenon DEF TypeInv, TypeOK, TablesType
    <3>2. CASE ~CommitWriter(w)
      <4>1. UNCHANGED tables
        BY <1>2, <3>2, Zenon DEF WriterStep, BeginInitLog, BeginIntegrate, DequeueLeaves,
           RemoveSequencedLeaf, RollbackWriter, UpdateSequencedLeaf, UpdateTreesRow,
           InsertTreeHead, AbortWriter
      <4>2. QED
        BY <4>1, TypesUnchanged, Zenon
    <3>3. QED
      BY <3>1, <3>2, Zenon
  <2>5. QED
    BY <1>2, <2>1, <2>3, <2>4, WriterTypeStep, TypesUnchanged, Zenon DEF TypeInv, TypeOK
<1>3. CASE UNCHANGED vars
  BY <1>3, TypesUnchanged, Zenon DEF vars, TypeInv, TypeOK
<1>4. QED
  BY <1>1, <1>2, <1>3, Zenon DEF Next

\* Every reachable state is well typed, for any number of clients, signers and
\* leaves: in particular a sequence number is never negative, a root is always
\* complete and an answer is always a leaf.
THEOREM TypeCorrect == Spec => []TypeOK
<1>1. TypeInv /\ [Next]_vars => TypeInv'
  BY TypeInvStep, Zenon
<1>2. TypeInv => TypeOK
  BY Zenon DEF TypeInv
<1>3. QED
  BY InitTypeInv, <1>1, <1>2, PTL DEF Spec

-----------------------------------------------------------------------------
(* The invariant, and what one statement of a queuer's transaction does to *)
(* it.  It says, for every open transaction, which rows it has written and *)
(* why they will still fit when it commits.                                *)

RowFor(q, i) ==
  [id |-> IdAt(q, i), value |-> qreq[q].leaves[i].value, ts |-> qreq[q].ts]

\* The leaf_data keys a queuer has inserted are new.
KeysOf(q) ==
  /\ \A r \in qleaf[q] : r.ts = qreq[q].ts /\ r.id \notin IdsOf(leafData)
  /\ \A r, s \in qleaf[q] : r.id = s.id => r = s

\* Each leaf_data row a queuer has inserted comes with its queue entry, except
\* between the two statements and in a failed transaction.
RowsOf(q) ==
  /\ qpc[q] = "idle" => qleaf[q] = {} /\ qunseq[q] = {}
  /\ \A u \in qunseq[q] : u.ts = qreq[q].ts /\ u.id \in IdsOf(qleaf[q])
  /\ \A r \in qleaf[q] :
       \/ r.id \in IdsOf(qunseq[q])
       \/ qpc[q] = "failed"
       \/ qpc[q] = "enqueue" /\ r.id = IdAt(q, qcur[q])

\* A position that is done was inserted or is a duplicate, and what was
\* retrieved for duplicates is stored.
RepliesOf(q) ==
  /\ qpc[q] = "commit" => qtodo[q] = {}
  /\ qpc[q] = "enqueue" => RowFor(q, qcur[q]) \in qleaf[q]
  /\ \A i \in DOMAIN qreq[q].leaves \ (qtodo[q] \cup qdup[q]) : RowFor(q, i) \in qleaf[q]
  /\ qfound[q] \subseteq leafData \cup qleaf[q]

\* Two open transactions have inserted different leaf_data keys.
KeysApart ==
  \A p, q \in Queuers : p # q => \A r \in qleaf[p], s \in qleaf[q] : r.id # s.id

QueuerInv ==
  /\ \A q \in Queuers : KeysOf(q) /\ RowsOf(q) /\ RepliesOf(q)
  /\ KeysApart

\* A writer works from the current root or from one with a lower revision,
\* and one that got past tree_head works from the current root.
WriterRoots ==
  /\ \A w \in Writers :
       /\ wroot[w] = treeRoot \/ wroot[w].revision < treeRoot.revision
       /\ wpc[w] = "commit" => wroot[w] = treeRoot
  /\ \A x, y \in Writers : HoldsTreesRow(x) /\ HoldsTreesRow(y) => x = y

\* A writer has deleted the rows it went past, and they are still in the queue.
DeletedAt(at, i, rows, deleted) ==
  /\ at \in {"idle", "dequeue"} => deleted = {} /\ rows = <<>>
  /\ at = "remove" => deleted = {rows[k] : k \in 1..(i - 1)}
  /\ at \in {"sequence", "storeRoot", "treeHead", "commit"} =>
       deleted = {rows[k] : k \in 1..Len(rows)}
  /\ \A k, l \in 1..Len(rows) : k # l => rows[k] # rows[l]

DeletesOf(w) ==
  /\ DeletedAt(wpc[w], widx[w], wdq[w], wdel[w])
  /\ wdel[w] \subseteq unsequenced

\* Two open transactions have deleted different rows.
DeletesApart == \A w, x \in Writers : w # x => wdel[w] \cap wdel[x] = {}

\* The rows of the first n leaves of the batch.
AssignedRows(w, n) == {AssignedRow(w, i) : i \in 1..n}

\* As long as its root is current, every sequence number a writer inserted was
\* free: no answer "duplicate" has been ignored.
InsertsOf(w) ==
  /\ wpc[w] \in {"idle", "dequeue", "remove"} => wseq[w] = {}
  /\ wroot[w] = treeRoot =>
       /\ wpc[w] = "sequence" => wseq[w] = AssignedRows(w, widx[w] - 1)
       /\ wpc[w] \in {"storeRoot", "treeHead", "commit"} =>
            wseq[w] = AssignedRows(w, Len(wdq[w]))

\* DequeueLeaves returns no more rows than its limit.
WithinLimit(w) == Len(wdq[w]) <= DequeueLimit

WriterInv ==
  /\ WriterRoots
  /\ DeletesApart
  /\ \A w \in Writers : DeletesOf(w) /\ InsertsOf(w) /\ WithinLimit(w)

\* What is committed.
TableInv ==
  /\ LeafAccounting /\ RootMatchesRows /\ OneRootPerRevision /\ RootsConsistent
  /\ RepliesAreStored

IInv == TypeInv /\ QueuerInv /\ WriterInv /\ TableInv

-----------------------------------------------------------------------------
\* The invariant holds initially.
LEMMA InitIInv == Init => IInv
<1> SUFFICES ASSUME Init PROVE IInv
  OBVIOUS
<1>1. TypeInv
  BY InitTypeInv, Zenon
<1>2. KeysApart /\ \A q \in Queuers : KeysOf(q) /\ RowsOf(q)
  BY Zenon DEF Init, KeysApart, KeysOf, RowsOf, IdsOf
<1>3. \A q \in Queuers : RepliesOf(q)
  BY DEF Init, RepliesOf, NoRequest
<1>4. WriterRoots
  BY Zenon DEF Init, WriterRoots, HoldsTreesRow
<1>5. DeletesApart /\ \A w \in Writers : DeletesOf(w) /\ InsertsOf(w)
  BY DEF Init, DeletesApart, DeletesOf, DeletedAt, InsertsOf
<1>6. \A w \in Writers : WithinLimit(w)
  BY DequeueLimitAssumption DEF Init, WithinLimit
<1>7. LeafAccounting /\ RepliesAreStored
  BY Zenon DEF Init, LeafAccounting, RepliesAreStored, IdsOf
<1>8. RootMatchesRows /\ OneRootPerRevision /\ RootsConsistent
  BY DEF Init, RootMatchesRows, OneRootPerRevision, RootsConsistent, NoRoot
<1>9. QED
  BY <1>1, <1>2, <1>3, <1>4, <1>5, <1>6, <1>7, <1>8, Zenon DEF IInv, QueuerInv, WriterInv, TableInv

-----------------------------------------------------------------------------
(***************************************************************************)
(* Queuers.                                                                *)
(***************************************************************************)

SameQueuer(p) ==
  /\ qpc'[p] = qpc[p] /\ qreq'[p] = qreq[p] /\ qtodo'[p] = qtodo[p] /\ qcur'[p] = qcur[p]
  /\ qdup'[p] = qdup[p] /\ qfound'[p] = qfound[p] /\ qleaf'[p] = qleaf[p]
  /\ qunseq'[p] = qunseq[p]

\* A step of one queuer concerns the others only through the keys it inserts.
LEMMA QueuerFrame ==
  ASSUME IInv, NEW q \in Queuers, leafData' = leafData,
         \A p \in Queuers \ {q} : SameQueuer(p),
         KeysOf(q)', RowsOf(q)', RepliesOf(q)',
         \A p \in Queuers \ {q} : \A r \in qleaf'[q], s \in qleaf[p] : r.id # s.id
  PROVE  QueuerInv'
<1>1. ASSUME NEW p \in Queuers, p # q PROVE KeysOf(p)' /\ RowsOf(p)' /\ RepliesOf(p)'
  <2>1. SameQueuer(p) /\ KeysOf(p) /\ RowsOf(p) /\ RepliesOf(p)
    BY <1>1, Zenon DEF IInv, QueuerInv
  <2>2. KeysOf(p)'
    BY <2>1 DEF SameQueuer, KeysOf
  <2>3. RowsOf(p)'
    <3>1. IdAt(p, qcur[p])' = IdAt(p, qcur[p])
      BY <2>1, Zenon DEF SameQueuer, IdAt
    <3>2. QED
      BY <2>1, <3>1 DEF SameQueuer, RowsOf
  <2>4. RepliesOf(p)'
    BY <2>1, Zenon DEF SameQueuer, RepliesOf, RowFor, IdAt
  <2>5. QED
    BY <2>2, <2>3, <2>4, Zenon
<1>2. KeysApart'
  <2>1. ASSUME NEW p \in Queuers, NEW o \in Queuers, p # o, NEW r \in qleaf'[p], NEW s \in qleaf'[o]
        PROVE  r.id # s.id
    <3>1. \A x \in Queuers : x # q => qleaf'[x] = qleaf[x]
      BY Zenon DEF SameQueuer
    <3>2. CASE p = q \/ o = q
      BY <2>1, <3>1, <3>2
    <3>3. CASE p # q /\ o # q
      <4>1. r \in qleaf[p] /\ s \in qleaf[o]
        BY <2>1, <3>1, <3>3, Zenon
      <4>2. QED
        BY <2>1, <4>1, Zenon DEF IInv, QueuerInv, KeysApart
    <3>4. QED
      BY <3>2, <3>3, Zenon
  <2>2. QED
    BY <2>1, Zenon DEF KeysApart
<1>3. QED
  BY <1>1, <1>2, Zenon DEF QueuerInv

\* A transaction that ended has no rows.
LEMMA ClosedQueuer ==
  ASSUME IInv, NEW q \in Queuers, CloseQueuer(q)
  PROVE  /\ \A p \in Queuers \ {q} : SameQueuer(p)
         /\ qleaf'[q] = {} /\ KeysOf(q)' /\ RowsOf(q)' /\ RepliesOf(q)'
<1>1. \A p \in Queuers \ {q} : SameQueuer(p)
  BY QueuerDomains, Zenon DEF IInv, TypeInv, CloseQueuer, SameQueuer
<1>2. /\ qpc'[q] = "idle" /\ qreq'[q] = NoRequest /\ qtodo'[q] = {} /\ qdup'[q] = {}
      /\ qfound'[q] = {} /\ qleaf'[q] = {} /\ qunseq'[q] = {}
  BY QueuerDomains, Zenon DEF IInv, TypeInv, CloseQueuer
<1>3. DOMAIN NoRequest.leaves = {}
  BY DEF NoRequest
<1>4. KeysOf(q)' /\ RowsOf(q)'
  BY <1>2, Zenon DEF KeysOf, RowsOf
<1>5. RepliesOf(q)'
  BY <1>2, <1>3, Zenon DEF RepliesOf
<1>6. QED
  BY <1>1, <1>2, <1>4, <1>5, Zenon

\* The steps of a queuer before its commit keep QueuerInv and write no table.
LEMMA QueuerLocalStep ==
  ASSUME IInv, NEW q \in Queuers,
         \/ \E leaves \in Batches, ts \in Times : BeginQueueLeaves(q, leaves, ts)
         \/ \E i \in qtodo[q] : InsertLeafData(q, i)
         \/ InsertUnsequenced(q)
         \/ RetrieveExisting(q)
         \/ ContextDone(q)
         \/ FailQueueLeaves(q)
         \/ CrashQueuer(q)
  PROVE  QueuerInv' /\ UNCHANGED <<tables, wvars, acked>>
<1>0. UNCHANGED <<tables, wvars, acked>>
  BY Zenon DEF BeginQueueLeaves, InsertLeafData, InsertUnsequenced, RetrieveExisting,
         ContextDone, FailQueueLeaves, CrashQueuer
<1>1. leafData' = leafData
  BY <1>0, Zenon DEF tables
<1>2. /\ KeysOf(q) /\ RowsOf(q) /\ RepliesOf(q) /\ TypeOK
      /\ \A p \in Queuers \ {q} : \A r \in qleaf[q], s \in qleaf[p] : r.id # s.id
  BY Zenon DEF IInv, TypeInv, QueuerInv, KeysApart
<1>3. ASSUME NEW leaves \in Batches, NEW ts \in Times, BeginQueueLeaves(q, leaves, ts)
      PROVE  QueuerInv'
  <2>1. /\ qpc'[q] = "insert" /\ qreq'[q].leaves = leaves /\ qtodo'[q] = DOMAIN leaves
        /\ qcur' = qcur /\ qdup' = qdup /\ qfound' = qfound /\ qleaf' = qleaf
        /\ qunseq' = qunseq
    BY <1>2, <1>3, QueuerDomains, Zenon DEF BeginQueueLeaves
  <2>2. \A p \in Queuers \ {q} : SameQueuer(p)
    BY <1>2, <1>3, QueuerDomains, Zenon DEF BeginQueueLeaves, SameQueuer
  <2>3. qleaf[q] = {} /\ qunseq[q] = {}
    BY <1>2, <1>3, Zenon DEF BeginQueueLeaves, RowsOf
  <2>4. KeysOf(q)' /\ RowsOf(q)'
    BY <2>1, <2>3, Zenon DEF KeysOf, RowsOf
  <2>5. RepliesOf(q)'
    BY <1>1, <1>2, <2>1, Zenon DEF RepliesOf
  <2>6. QED
    BY <1>1, <1>2, <2>1, <2>2, <2>4, <2>5, QueuerFrame, Zenon
<1>4. ASSUME NEW i \in qtodo[q], InsertLeafData(q, i) PROVE QueuerInv'
  <2>1. /\ qpc[q] = "insert" /\ qreq' = qreq /\ qfound' = qfound /\ qunseq' = qunseq
        /\ ~LeafKeyHeld(q, IdAt(q, i))
    BY <1>4, Zenon DEF InsertLeafData
  <2>2. CASE IdAt(q, i) \in IdsOf(leafData \cup qleaf[q])
    <3>1. /\ qdup' = [qdup EXCEPT ![q] = @ \cup {i}]
          /\ qtodo' = [qtodo EXCEPT ![q] = @ \ {i}]
          /\ qpc' = qpc /\ qcur' = qcur /\ qleaf' = qleaf
      BY <1>4, <2>2, Zenon DEF InsertLeafData
    <3>2. qdup'[q] = qdup[q] \cup {i} /\ qtodo'[q] = qtodo[q] \ {i}
      BY <1>2, <3>1, QueuerDomains, Zenon
    <3>3. \A p \in Queuers \ {q} : SameQueuer(p)
      BY <1>2, <2>1, <3>1, QueuerDomains, Zenon DEF SameQueuer
    <3>4. KeysOf(q)' /\ RowsOf(q)'
      BY <1>1, <1>2, <2>1, <3>1, Zenon DEF KeysOf, RowsOf, IdAt
    <3>5. RepliesOf(q)'
      BY <1>1, <1>2, <2>1, <3>1, <3>2, Zenon DEF RepliesOf, RowFor, IdAt
    <3>6. QED
      BY <1>1, <1>2, <3>1, <3>3, <3>4, <3>5, QueuerFrame, Zenon
  <2>3. CASE IdAt(q, i) \notin IdsOf(leafData \cup qleaf[q])
    <3> DEFINE row == RowFor(q, i)
    <3>1. /\ qleaf' = [qleaf EXCEPT ![q] = @ \cup {row}]
          /\ qcur' = [qcur EXCEPT ![q] = i]
          /\ qpc' = [qpc EXCEPT ![q] = "enqueue"]
          /\ qdup' = qdup /\ qtodo' = qtodo
      BY <1>4, <2>3, Zenon DEF InsertLeafData, RowFor
    <3>2. row.id = IdAt(q, i) /\ row.ts = qreq[q].ts
      BY Zenon DEF RowFor
    <3>3. RowFor(q, qcur[q])' = row
      BY <1>2, <2>1, <3>1, QueuerDomains, Zenon DEF RowFor, IdAt
    <3>4. \A j : RowFor(q, j)' = RowFor(q, j)
      BY <2>1, Zenon DEF RowFor, IdAt
    <3> HIDE DEF row
    <3>5. qleaf'[q] = qleaf[q] \cup {row} /\ qcur'[q] = i /\ qpc'[q] = "enqueue"
      BY <1>2, <3>1, QueuerDomains, Zenon
    <3>6. \A p \in Queuers \ {q} : SameQueuer(p)
      BY <1>2, <2>1, <3>1, QueuerDomains, Zenon DEF SameQueuer
    <3>7. KeysOf(q)'
      <4>1. row.id \notin IdsOf(leafData) /\ \A r \in qleaf[q] : r.id # row.id
        BY <2>3, <3>2, Zenon DEF IdsOf
      <4>2. QED
        BY <1>1, <1>2, <2>1, <3>2, <3>5, <4>1, Zenon DEF KeysOf
    <3>8. RowsOf(q)'
      <4>1. IdsOf(qleaf[q]) \subseteq IdsOf(qleaf'[q])
        BY <3>5, Zenon DEF IdsOf
      <4>2. IdAt(q, qcur[q])' = row.id
        BY <2>1, <3>2, <3>5, Zenon DEF IdAt
      <4>3. \A r \in qleaf[q] : r.id \in IdsOf(qunseq[q])
        BY <1>2, <2>1, Zenon DEF RowsOf
      <4>4. QED
        BY <1>2, <2>1, <3>5, <4>1, <4>2, <4>3, Zenon DEF RowsOf
    <3>9. RepliesOf(q)'
      <4>1. RowFor(q, qcur[q])' \in qleaf'[q] /\ qpc'[q] # "commit"
        BY <3>3, <3>5, Zenon
      <4>2. ASSUME NEW j \in DOMAIN qreq'[q].leaves \ (qtodo'[q] \cup qdup'[q])
            PROVE  RowFor(q, j)' \in qleaf'[q]
        <5>1. RowFor(q, j) \in qleaf[q]
          BY <1>2, <2>1, <3>1, <4>2, Zenon DEF RepliesOf
        <5>2. QED
          BY <3>4, <3>5, <5>1, Zenon
      <4>3. qfound'[q] \subseteq leafData' \cup qleaf'[q]
        BY <1>1, <1>2, <2>1, <3>5, Zenon DEF RepliesOf
      <4>4. QED
        BY <4>1, <4>2, <4>3, Zenon DEF RepliesOf
    <3>10. \A p \in Queuers \ {q} : \A s \in qleaf[p] : s.id # row.id
      BY <2>1, <3>2, Zenon DEF LeafKeyHeld, IdsOf
    <3>11. QED
      BY <1>1, <1>2, <3>5, <3>6, <3>7, <3>8, <3>9, <3>10, QueuerFrame
  <2>4. QED
    BY <2>2, <2>3, Zenon
<1>5. ASSUME InsertUnsequenced(q) PROVE QueuerInv'
  <2> DEFINE row == [id |-> IdAt(q, qcur[q]), ts |-> qreq[q].ts]
  <2>1. /\ qpc[q] = "enqueue" /\ qreq' = qreq /\ qdup' = qdup /\ qfound' = qfound
        /\ qleaf' = qleaf
        /\ qunseq' = [qunseq EXCEPT ![q] = @ \cup ({row} \ unsequenced)]
        /\ qtodo' = [qtodo EXCEPT ![q] = @ \ {qcur[q]}]
        /\ qcur' = [qcur EXCEPT ![q] = 0]
        /\ qpc' = [qpc EXCEPT ![q] = "insert"]
    BY <1>5, Zenon DEF InsertUnsequenced
  <2>2. RowFor(q, qcur[q]) \in qleaf[q] /\ RowFor(q, qcur[q]).id = IdAt(q, qcur[q])
    BY <1>2, <2>1, Zenon DEF RepliesOf, RowFor
  <2>3. row.id \in IdsOf(qleaf[q]) /\ row.id = IdAt(q, qcur[q]) /\ row.ts = qreq[q].ts
    BY <2>2, Zenon DEF IdsOf
  <2>4. row.id \notin IdsOf(leafData)
    BY <1>2, <2>3, Zenon DEF KeysOf, IdsOf
  <2>5. row \notin unsequenced
    <3>1. IdsOf(unsequenced) \subseteq IdsOf(leafData)
      BY Zenon DEF IInv, TableInv, LeafAccounting
    <3>2. QED
      BY <2>4, <3>1, Zenon DEF IdsOf
  <2> HIDE DEF row
  <2>6. /\ qunseq'[q] = qunseq[q] \cup {row} /\ qtodo'[q] = qtodo[q] \ {qcur[q]}
        /\ qpc'[q] = "insert"
    <3>1. {row} \ unsequenced = {row}
      BY <2>5, Zenon
    <3>2. QED
      BY <1>2, <2>1, <3>1, QueuerDomains, Zenon
  <2>7. \A p \in Queuers \ {q} : SameQueuer(p)
    BY <1>2, <2>1, QueuerDomains, Zenon DEF SameQueuer
  <2>8. KeysOf(q)'
    BY <1>1, <1>2, <2>1, Zenon DEF KeysOf
  <2>9. RowsOf(q)'
    <3>1. IdsOf(qunseq'[q]) = IdsOf(qunseq[q]) \cup {row.id}
      BY <2>6, Zenon DEF IdsOf
    <3>2. \A u \in qunseq'[q] : u.ts = qreq'[q].ts /\ u.id \in IdsOf(qleaf'[q])
      BY <1>2, <2>1, <2>3, <2>6, Zenon DEF RowsOf
    <3>3. \A r \in qleaf'[q] : r.id \in IdsOf(qunseq'[q])
      BY <1>2, <2>1, <2>3, <3>1, Zenon DEF RowsOf
    <3>4. QED
      BY <2>6, <3>2, <3>3, Zenon DEF RowsOf
  <2>10. RepliesOf(q)'
    <3>1. \A j : RowFor(q, j)' = RowFor(q, j)
      BY <2>1, Zenon DEF RowFor, IdAt
    <3>2. ASSUME NEW i \in DOMAIN qreq[q].leaves \ (qtodo'[q] \cup qdup[q])
          PROVE  RowFor(q, i) \in qleaf[q]
      <4>1. CASE i = qcur[q]
        BY <2>2, <4>1, Zenon
      <4>2. CASE i # qcur[q]
        <5>1. i \in DOMAIN qreq[q].leaves \ (qtodo[q] \cup qdup[q])
          BY <2>6, <4>2, Zenon
        <5>2. QED
          BY <1>2, <5>1, Zenon DEF RepliesOf
      <4>3. QED
        BY <4>1, <4>2, Zenon
    <3>3. qfound[q] \subseteq leafData \cup qleaf[q]
      BY <1>2, Zenon DEF RepliesOf
    <3>4. QED
      BY <1>1, <2>1, <2>6, <3>1, <3>2, <3>3 DEF RepliesOf
  <2>11. QED
    BY <1>1, <1>2, <2>1, <2>7, <2>8, <2>9, <2>10, QueuerFrame, Zenon
<1>6. ASSUME RetrieveExisting(q) \/ FailQueueLeaves(q) PROVE QueuerInv'
  <2>1. PICK pc \in {"commit", "failed"} :
          /\ qpc' = [qpc EXCEPT ![q] = pc]
          /\ qfound' = [qfound EXCEPT ![q] = ExistingRows(q)] \/ qfound' = qfound
          /\ pc = "commit" => qpc[q] = "insert" /\ qtodo[q] = {}
    BY <1>6, Zenon DEF RetrieveExisting, FailQueueLeaves
  <2>2. /\ qpc[q] # "idle" /\ qreq' = qreq /\ qtodo' = qtodo /\ qcur' = qcur /\ qdup' = qdup
        /\ qleaf' = qleaf /\ qunseq' = qunseq
    BY <1>6, Zenon DEF RetrieveExisting, FailQueueLeaves
  <2>3. qpc'[q] = pc /\ \A p \in Queuers \ {q} : SameQueuer(p)
    BY <1>2, <2>1, <2>2, QueuerDomains, Zenon DEF SameQueuer
  <2>4. qfound'[q] \subseteq leafData \cup qleaf[q]
    <3>1. ExistingRows(q) \subseteq leafData \cup qleaf[q]
      BY Zenon DEF ExistingRows
    <3>2. qfound[q] \subseteq leafData \cup qleaf[q]
      BY <1>2, Zenon DEF RepliesOf
    <3>3. QED
      BY <1>2, <2>1, <3>1, <3>2, QueuerDomains, Zenon
  <2>5. KeysOf(q)'
    BY <1>1, <1>2, <2>2, Zenon DEF KeysOf
  <2>6. RowsOf(q)'
    BY <1>2, <2>1, <2>2, <2>3, Zenon DEF RowsOf, IdAt
  <2>7. RepliesOf(q)'
    <3>1. \A j : RowFor(q, j)' = RowFor(q, j)
      BY <2>2, Zenon DEF RowFor, IdAt
    <3>2. QED
      BY <1>1, <1>2, <2>1, <2>2, <2>3, <2>4, <3>1 DEF RepliesOf
  <2>8. QED
    BY <1>1, <1>2, <2>2, <2>3, <2>5, <2>6, <2>7, QueuerFrame, Zenon
<1>7. ASSUME CloseQueuer(q) PROVE QueuerInv'
  BY <1>1, <1>7, ClosedQueuer, QueuerFrame, Zenon
<1>8. QED
  BY <1>0, <1>3, <1>4, <1>5, <1>6, <1>7, Zenon DEF ContextDone, CrashQueuer

-----------------------------------------------------------------------------
(* The statements of a signer's transaction keep it.                       *)

\* A step that leaves a writer's transaction alone.
SameWriter(x) ==
  /\ wpc'[x] = wpc[x] /\ wroot'[x] = wroot[x] /\ wdq'[x] = wdq[x]
  /\ widx'[x] = widx[x] /\ wdel'[x] = wdel[x] /\ wseq'[x] = wseq[x]

\* The types of what a writer's steps compute with.
LEMMA WriterTypes ==
  ASSUME IInv, NEW w \in Writers
  PROVE  /\ wdq[w] \in Seq(UnsequencedRow) /\ Len(wdq[w]) \in Nat
         /\ DOMAIN wdq[w] = 1..Len(wdq[w])
         /\ \A i \in 1..Len(wdq[w]) : wdq[w][i] \in UnsequencedRow
         /\ wroot[w].revision \in Int /\ wroot[w].revision >= -1 /\ wroot[w].treeSize \in Nat
         /\ treeRoot.revision \in Int /\ treeRoot.revision >= -1 /\ treeRoot.treeSize \in Nat
         /\ wpc[w] \in {"remove", "sequence"} => widx[w] \in 1..Len(wdq[w])
<1>1. wdq[w] \in Seq(UnsequencedRow) /\ wroot[w] \in LogRoot \cup {NoRoot}
  BY Zenon DEF IInv, TypeInv, TypeOK, WritersType
<1>2. treeRoot \in LogRoot \cup {NoRoot}
  BY Zenon DEF IInv, TypeInv, TypeOK, TablesType
<1>3. wpc[w] \in {"remove", "sequence"} => widx[w] \in 1..Len(wdq[w])
  BY Zenon DEF IInv, TypeInv, WriterCursors
<1>4. \A r \in LogRoot \cup {NoRoot} :
        r.revision \in Int /\ r.revision >= -1 /\ r.treeSize \in Nat
  BY DEF LogRoot, NoRoot
<1>5. Len(wdq[w]) \in Nat /\ DOMAIN wdq[w] = 1..Len(wdq[w])
      /\ \A i \in 1..Len(wdq[w]) : wdq[w][i] \in UnsequencedRow
  BY <1>1
<1>6. QED
  BY <1>1, <1>2, <1>3, <1>4, <1>5, Zenon

\* The invariant of one writer, when another transaction takes a step that
\* removes none of the rows it has deleted and stores no root.
LEMMA SameWriterKeeps ==
  ASSUME NEW x \in Writers, SameWriter(x), treeRoot' = treeRoot,
         DeletesOf(x), InsertsOf(x), WithinLimit(x), wdel[x] \subseteq unsequenced'
  PROVE  DeletesOf(x)' /\ InsertsOf(x)' /\ WithinLimit(x)'
<1>1. DeletesOf(x)'
  BY DEF SameWriter, DeletesOf, DeletedAt
<1>2. InsertsOf(x)'
  <2>1. \A i : AssignedRow(x, i)' = AssignedRow(x, i)
    BY Zenon DEF SameWriter, AssignedRow
  <2>2. \A n : AssignedRows(x, n)' = AssignedRows(x, n)
    BY <2>1, Zenon DEF AssignedRows
  <2>3. QED
    BY <2>2, Zenon DEF SameWriter, InsertsOf
<1>3. WithinLimit(x)'
  BY Zenon DEF SameWriter, WithinLimit
<1>4. QED
  BY <1>1, <1>2, <1>3, Zenon

\* A statement of one writer, seen from the others.
LEMMA WriterFrame ==
  ASSUME IInv, NEW w \in Writers, unsequenced' = unsequenced, treeRoot' = treeRoot,
         \A x \in Writers \ {w} : SameWriter(x),
         DeletesOf(w)', InsertsOf(w)', WithinLimit(w)',
         wroot'[w] = treeRoot \/ wroot'[w].revision < treeRoot.revision,
         wpc'[w] = "commit" => wroot'[w] = treeRoot,
         HoldsTreesRow(w)' => \A x \in Writers \ {w} : ~HoldsTreesRow(x),
         \A x \in Writers \ {w} : wdel'[w] \cap wdel[x] = {}
  PROVE  WriterInv'
<1>1. ASSUME NEW x \in Writers, x # w
      PROVE  DeletesOf(x)' /\ InsertsOf(x)' /\ WithinLimit(x)'
  <2>1. DeletesOf(x) /\ InsertsOf(x) /\ WithinLimit(x) /\ SameWriter(x)
    BY <1>1, Zenon DEF IInv, WriterInv
  <2>2. wdel[x] \subseteq unsequenced'
    BY <2>1, Zenon DEF DeletesOf, DeletedAt
  <2>3. QED
    BY <2>1, <2>2, SameWriterKeeps, Zenon
<1>2. DeletesApart'
  BY DEF SameWriter, IInv, WriterInv, DeletesApart
<1>3. WriterRoots'
  <2>1. \A x \in Writers \ {w} : /\ wroot'[x] = wroot[x] /\ wpc'[x] = wpc[x]
                                 /\ HoldsTreesRow(x)' = HoldsTreesRow(x)
    BY Zenon DEF SameWriter, HoldsTreesRow
  <2>2. \A x \in Writers : wroot[x] = treeRoot \/ wroot[x].revision < treeRoot.revision
    BY Zenon DEF IInv, WriterInv, WriterRoots
  <2>3. \A x \in Writers : wpc[x] = "commit" => wroot[x] = treeRoot
    BY Zenon DEF IInv, WriterInv, WriterRoots
  <2>4. \A x, y \in Writers : HoldsTreesRow(x) /\ HoldsTreesRow(y) => x = y
    BY Zenon DEF IInv, WriterInv, WriterRoots
  <2>5. \A x, y \in Writers : HoldsTreesRow(x)' /\ HoldsTreesRow(y)' => x = y
    BY <2>1, <2>4, Zenon
  <2>6. \A x \in Writers : /\ wroot'[x] = treeRoot' \/ wroot'[x].revision < treeRoot'.revision
                           /\ wpc'[x] = "commit" => wroot'[x] = treeRoot'
    BY <2>1, <2>2, <2>3, Zenon
  <2>7. QED
    BY <2>5, <2>6, Zenon DEF WriterRoots
<1>4. QED
  BY <1>1, <1>2, <1>3, Zenon DEF WriterInv

\* A writer that ended has no rows and no root.
LEMMA ClosedWriter ==
  ASSUME IInv, NEW w \in Writers, CloseWriter(w)
  PROVE  /\ \A x \in Writers \ {w} : SameWriter(x)
         /\ wpc'[w] = "idle" /\ wroot'[w] = NoRoot /\ wdel'[w] = {}
         /\ DeletesOf(w)' /\ InsertsOf(w)' /\ WithinLimit(w)'
<1>1. \A x \in Writers \ {w} : SameWriter(x)
  BY WriterDomains, Zenon DEF IInv, TypeInv, CloseWriter, SameWriter
<1>2. /\ wpc'[w] = "idle" /\ wroot'[w] = NoRoot /\ wdq'[w] = <<>> /\ wdel'[w] = {}
      /\ wseq'[w] = {}
  BY WriterDomains, Zenon DEF IInv, TypeInv, CloseWriter
<1>3. DeletesOf(w)' /\ InsertsOf(w)'
  BY <1>2 DEF DeletesOf, DeletedAt, InsertsOf
<1>4. WithinLimit(w)'
  BY <1>2, DequeueLimitAssumption DEF WithinLimit
<1>5. QED
  BY <1>1, <1>2, <1>3, <1>4, Zenon

\* A rollback keeps the invariant.
LEMMA CloseWriterInv ==
  ASSUME IInv, NEW w \in Writers, CloseWriter(w), UNCHANGED tables
  PROVE  WriterInv'
<1>1. unsequenced' = unsequenced /\ treeRoot' = treeRoot
  BY Zenon DEF tables
<1>2. NoRoot = treeRoot \/ NoRoot.revision < treeRoot.revision
  <2>1. treeRoot \in LogRoot \/ treeRoot = NoRoot
    BY Zenon DEF IInv, TypeInv, TypeOK, TablesType
  <2>2. QED
    BY <2>1 DEF LogRoot, NoRoot
<1>3. QED
  BY <1>1, <1>2, ClosedWriter, WriterFrame DEF HoldsTreesRow

\* What the invariant says of one writer.
LEMMA WriterParts ==
  ASSUME IInv, NEW w \in Writers
  PROVE  /\ DeletesOf(w) /\ InsertsOf(w) /\ WithinLimit(w)
         /\ wroot[w] = treeRoot \/ wroot[w].revision < treeRoot.revision
         /\ wpc[w] = "commit" => wroot[w] = treeRoot
         /\ \A x \in Writers \ {w} : HoldsTreesRow(w) => ~HoldsTreesRow(x)
         /\ \A x \in Writers \ {w} : wdel[w] \cap wdel[x] = {}
BY Zenon DEF IInv, WriterInv, WriterRoots, DeletesApart

\* Beginning a transaction keeps the invariant: it works from the current root.
LEMMA BeginWriterInv ==
  ASSUME IInv, NEW w \in Writers, BeginInitLog(w) \/ BeginIntegrate(w)
  PROVE  WriterInv'
<1>1. /\ wpc[w] = "idle" /\ unsequenced' = unsequenced /\ treeRoot' = treeRoot
  BY Zenon DEF BeginInitLog, BeginIntegrate, tables
<1>2. \A x \in Writers \ {w} : SameWriter(x)
  BY WriterDomains, Zenon DEF IInv, TypeInv, BeginInitLog, BeginIntegrate, SameWriter
<1>3. wdq'[w] = wdq[w] /\ wdel'[w] = wdel[w] /\ wseq'[w] = wseq[w]
  BY Zenon DEF BeginInitLog, BeginIntegrate
<1>4. wpc'[w] \in {"storeRoot", "dequeue"}
  BY WriterDomains, Zenon DEF IInv, TypeInv, BeginInitLog, BeginIntegrate
<1>5. wdel[w] = {} /\ wdq[w] = <<>> /\ wseq[w] = {}
  BY <1>1, WriterParts, Zenon DEF DeletesOf, DeletedAt, InsertsOf
<1>6. wroot'[w] = treeRoot
  <2>1. CASE BeginInitLog(w)
    <3>1. wroot' = wroot /\ treeRoot = NoRoot
      BY <2>1, Zenon DEF BeginInitLog
    <3>2. treeRoot.revision = -1
      BY <3>1, Zenon DEF NoRoot
    <3>3. QED
      BY <3>1, <3>2, WriterTypes, WriterParts
  <2>2. CASE BeginIntegrate(w)
    BY <2>2, WriterDomains, Zenon DEF IInv, TypeInv, BeginIntegrate
  <2>3. QED
    BY <2>1, <2>2, Zenon
<1>7. DeletesOf(w)' /\ WithinLimit(w)'
  <2>1. wdel'[w] = {} /\ wdq'[w] = <<>> /\ Len(<<>>) = 0
    BY <1>3, <1>5
  <2>2. Len(wdq'[w]) <= DequeueLimit
    BY <1>5, <2>1, WriterParts, Zenon DEF WithinLimit
  <2>3. QED
    BY <1>4, <2>1, <2>2 DEF DeletesOf, DeletedAt, WithinLimit
<1>8. InsertsOf(w)'
  BY <1>3, <1>4, <1>5 DEF InsertsOf, AssignedRows
<1>9. QED
  BY <1>1, <1>2, <1>3, <1>4, <1>5, <1>6, <1>7, <1>8, WriterFrame, Zenon DEF HoldsTreesRow

\* The rows of a dequeued batch are different from each other, because they
\* are strictly ordered.
LEMMA DequeuedDistinct ==
  ASSUME NEW n \in Nat, NEW due \in SUBSET UnsequencedRow, NEW dq \in [1..n -> due],
         IsQueueHead(dq, due)
  PROVE  \A i, j \in 1..n : i # j => dq[i] # dq[j]
<1>1. ASSUME NEW r \in UnsequencedRow PROVE ~Before(r, r)
  <2>1. r.ts \in Nat /\ r.id \in Nat
    BY <1>1, LeafIdsAssumption, TimesAssumption, Zenon DEF UnsequencedRow
  <2>2. QED
    BY <2>1 DEF Before
<1>2. \A i, j \in 1..n : i < j => Before(dq[i], dq[j])
  <2>1. DOMAIN dq = 1..n
    OBVIOUS
  <2>2. QED
    BY <2>1, Zenon DEF IsQueueHead
<1>3. \A i \in 1..n : dq[i] \in UnsequencedRow
  OBVIOUS
<1>4. \A i, j \in 1..n : i # j => i < j \/ j < i
  OBVIOUS
<1>5. QED
  BY <1>1, <1>2, <1>3, <1>4, Zenon

\* Dequeuing keeps the invariant.
LEMMA DequeueLeavesInv ==
  ASSUME IInv, NEW w \in Writers, NEW cutoff \in Times, DequeueLeaves(w, cutoff)
  PROVE  WriterInv'
<1>1. PICK n \in 0..DequeueLimit : \E dq \in [1..n -> Due(cutoff)] :
        /\ IsQueueHead(dq, Due(cutoff))
        /\ \/ CloseWriter(w)
           \/ /\ wpc' = [wpc EXCEPT ![w] = "storeRoot"]
              /\ UNCHANGED <<wroot, wdq, widx, wdel, wseq>>
           \/ /\ wdq' = [wdq EXCEPT ![w] = dq]
              /\ widx' = [widx EXCEPT ![w] = 1]
              /\ wpc' = [wpc EXCEPT ![w] = "remove"]
              /\ UNCHANGED <<wroot, wdel, wseq>>
  BY Zenon DEF DequeueLeaves
<1>2. /\ wpc[w] = "dequeue" /\ UNCHANGED tables
      /\ unsequenced' = unsequenced /\ treeRoot' = treeRoot
  BY Zenon DEF DequeueLeaves, tables
<1>3. wdel[w] = {} /\ wdq[w] = <<>> /\ wseq[w] = {}
  BY <1>2, WriterParts, Zenon DEF DeletesOf, DeletedAt, InsertsOf
<1>4. CASE CloseWriter(w)
  BY <1>2, <1>4, CloseWriterInv, Zenon
<1>5. CASE /\ wpc' = [wpc EXCEPT ![w] = "storeRoot"]
           /\ UNCHANGED <<wroot, wdq, widx, wdel, wseq>>
  <2>1. wpc'[w] = "storeRoot" /\ \A x \in Writers \ {w} : SameWriter(x)
    BY <1>5, WriterDomains, Zenon DEF IInv, TypeInv, SameWriter
  <2>2. DeletesOf(w)' /\ WithinLimit(w)'
    BY <1>2, <1>3, <1>5, <2>1, WriterParts DEF DeletesOf, DeletedAt, WithinLimit
  <2>3. InsertsOf(w)'
    BY <1>3, <1>5, <2>1 DEF InsertsOf, AssignedRows
  <2>4. QED
    BY <1>2, <1>3, <1>5, <2>1, <2>2, <2>3, WriterParts, WriterFrame, Zenon DEF HoldsTreesRow
<1>6. ASSUME NEW dq \in [1..n -> Due(cutoff)], IsQueueHead(dq, Due(cutoff)),
             wdq' = [wdq EXCEPT ![w] = dq], widx' = [widx EXCEPT ![w] = 1],
             wpc' = [wpc EXCEPT ![w] = "remove"], UNCHANGED <<wroot, wdel, wseq>>
      PROVE  WriterInv'
  <2>1. n \in Nat /\ Due(cutoff) \in SUBSET unsequenced /\ Due(cutoff) \in SUBSET UnsequencedRow
    BY DequeueLimitAssumption DEF Due, IInv, TypeInv, TypeOK, TablesType
  <2>2. Len(dq) = n
    BY <2>1, DequeuedType, Zenon DEF IInv, TypeInv
  <2>3. \A i, j \in 1..n : i # j => dq[i] # dq[j]
    BY <1>6, <2>1, DequeuedDistinct, Zenon
  <2>4. /\ wpc'[w] = "remove" /\ wdq'[w] = dq /\ widx'[w] = 1
        /\ \A x \in Writers \ {w} : SameWriter(x)
    BY <1>6, WriterDomains, Zenon DEF IInv, TypeInv, SameWriter
  <2>5. {dq[i] : i \in 1..(1 - 1)} = {}
    OBVIOUS
  <2>6. DeletesOf(w)'
    BY <1>2, <1>3, <1>6, <2>2, <2>3, <2>4, <2>5 DEF DeletesOf, DeletedAt
  <2>7. WithinLimit(w)' /\ InsertsOf(w)'
    BY <1>3, <1>6, <2>2, <2>4 DEF WithinLimit, InsertsOf
  <2>8. QED
    BY <1>2, <1>3, <1>6, <2>4, <2>6, <2>7, WriterParts, WriterFrame, Zenon DEF HoldsTreesRow
<1>7. QED
  BY <1>1, <1>4, <1>5, <1>6, Zenon

\* The loop over the batch goes on or moves to its next statement.
LEMMA AdvanceFacts ==
  ASSUME IInv, NEW w \in Writers, NEW nextpc, Advance(w, nextpc)
  PROVE  /\ \A x \in Writers \ {w} : wpc'[x] = wpc[x] /\ widx'[x] = widx[x]
         /\ \/ wpc'[w] = wpc[w] /\ widx'[w] = widx[w] + 1
            \/ wpc'[w] = nextpc /\ widx'[w] = 1 /\ widx[w] = Len(wdq[w])
<1>1. CASE widx' = [widx EXCEPT ![w] = @ + 1] /\ UNCHANGED wpc
  BY <1>1, WriterDomains, Zenon DEF IInv, TypeInv
<1>2. CASE /\ widx[w] = Len(wdq[w]) /\ widx' = [widx EXCEPT ![w] = 1]
           /\ wpc' = [wpc EXCEPT ![w] = nextpc]
  BY <1>2, WriterDomains, Zenon DEF IInv, TypeInv
<1>3. QED
  BY <1>1, <1>2, Zenon DEF Advance

\* Deleting a queue row keeps the invariant: the row is in the queue and no
\* other open transaction has deleted it.
LEMMA RemoveSequencedLeafInv ==
  ASSUME IInv, NEW w \in Writers, RemoveSequencedLeaf(w)
  PROVE  WriterInv'
<1> DEFINE row == wdq[w][widx[w]]
<1>1. CASE RollbackWriter(w)
  BY <1>1, CloseWriterInv, Zenon DEF RollbackWriter
<1>2. CASE ~RollbackWriter(w)
  <2>1. /\ wpc[w] = "remove" /\ ~RowHeld(w, row) /\ row \in unsequenced
        /\ wdel' = [wdel EXCEPT ![w] = @ \cup {row}] /\ Advance(w, "sequence")
        /\ unsequenced' = unsequenced /\ treeRoot' = treeRoot
        /\ wroot' = wroot /\ wdq' = wdq /\ wseq' = wseq
    BY <1>2, Zenon DEF RemoveSequencedLeaf, tables
  <2>2. Len(wdq[w]) \in Nat /\ widx[w] \in 1..Len(wdq[w])
    BY <2>1, WriterTypes, Zenon
  <2>3. /\ wdel[w] = {wdq[w][i] : i \in 1..(widx[w] - 1)} /\ wseq[w] = {}
        /\ wdel[w] \subseteq unsequenced
        /\ \A i, j \in 1..Len(wdq[w]) : i # j => wdq[w][i] # wdq[w][j]
    BY <2>1, WriterParts, Zenon DEF DeletesOf, DeletedAt, InsertsOf
  <2>4. wdel'[w] = wdel[w] \cup {row} /\ \A x \in Writers \ {w} : wdel'[x] = wdel[x]
    BY <2>1, WriterDomains, Zenon DEF IInv, TypeInv
  <2>5. wdel'[w] = {wdq[w][i] : i \in 1..widx[w]}
    <3>1. 1..widx[w] = 1..(widx[w] - 1) \cup {widx[w]}
      BY <2>2
    <3>2. QED
      BY <2>3, <2>4, <3>1
  <2>6. /\ \A x \in Writers \ {w} : wpc'[x] = wpc[x] /\ widx'[x] = widx[x]
        /\ \/ wpc'[w] = "remove" /\ widx'[w] = widx[w] + 1
           \/ wpc'[w] = "sequence" /\ widx'[w] = 1 /\ widx[w] = Len(wdq[w])
    BY <2>1, AdvanceFacts, Zenon
  <2>7. \A x \in Writers \ {w} : row \notin wdel[x]
    BY <2>1, Zenon DEF RowHeld
  <2> HIDE DEF row
  <2>8. \A x \in Writers \ {w} : SameWriter(x)
    BY <2>1, <2>4, <2>6, Zenon DEF SameWriter
  <2>9. \A x \in Writers \ {w} : wdel'[w] \cap wdel[x] = {}
    BY <2>4, <2>7, WriterParts
  <2>10. DeletesOf(w)'
    <3>1. wdel'[w] \subseteq unsequenced'
      BY <2>1, <2>3, <2>4, Zenon
    <3>2. wpc'[w] = "remove" => widx'[w] - 1 = widx[w]
      BY <2>2, <2>6
    <3>3. wpc'[w] = "remove" => wdel'[w] = {wdq'[w][i] : i \in 1..(widx'[w] - 1)}
      BY <2>1, <2>5, <3>2, Zenon
    <3>4. wpc'[w] = "sequence" => wdel'[w] = {wdq'[w][i] : i \in 1..Len(wdq'[w])}
      BY <2>1, <2>5, <2>6, Zenon
    <3>5. QED
      BY <2>1, <2>3, <2>6, <3>1, <3>3, <3>4, Zenon DEF DeletesOf, DeletedAt
  <2>11. InsertsOf(w)'
    <3>1. wpc'[w] = "sequence" => AssignedRows(w, widx[w] - 1)' = {}
      BY <2>6 DEF AssignedRows
    <3>2. QED
      BY <2>1, <2>3, <2>6, <3>1, Zenon DEF InsertsOf
  <2>12. WithinLimit(w)'
    BY <2>1, WriterParts, Zenon DEF WithinLimit
  <2>13. /\ wroot'[w] = treeRoot \/ wroot'[w].revision < treeRoot.revision
         /\ wpc'[w] # "commit" /\ ~HoldsTreesRow(w)'
    BY <2>1, <2>6, WriterParts, Zenon DEF HoldsTreesRow
  <2>14. QED
    BY <2>1, <2>8, <2>9, <2>10, <2>11, <2>12, <2>13, WriterFrame, Zenon
<1>3. QED
  BY <1>1, <1>2, Zenon

\* Inserting a sequenced row keeps the invariant: under the current root the
\* sequence number is free, and under a stale one nothing is claimed.
LEMMA UpdateSequencedLeafInv ==
  ASSUME IInv, NEW w \in Writers, UpdateSequencedLeaf(w)
  PROVE  WriterInv'
<1> DEFINE row == AssignedRow(w, widx[w])
           taken == \E p \in sequenced : p.seq = row.seq
<1>1. /\ wpc[w] = "sequence" /\ Advance(w, "storeRoot")
      /\ wseq' = [wseq EXCEPT ![w] = IF taken THEN @ ELSE @ \cup {row}]
      /\ unsequenced' = unsequenced /\ treeRoot' = treeRoot
      /\ wroot' = wroot /\ wdq' = wdq /\ wdel' = wdel
  BY Zenon DEF UpdateSequencedLeaf, tables
<1>2. Len(wdq[w]) \in Nat /\ widx[w] \in 1..Len(wdq[w])
  BY <1>1, WriterTypes, Zenon
<1>3. /\ \A x \in Writers \ {w} : wseq'[x] = wseq[x]
      /\ ~taken => wseq'[w] = wseq[w] \cup {row}
  BY <1>1, WriterDomains, Zenon DEF IInv, TypeInv
<1>4. /\ \A x \in Writers \ {w} : wpc'[x] = wpc[x] /\ widx'[x] = widx[x]
      /\ \/ wpc'[w] = "sequence" /\ widx'[w] = widx[w] + 1
         \/ wpc'[w] = "storeRoot" /\ widx[w] = Len(wdq[w])
  BY <1>1, AdvanceFacts, Zenon
<1>5. ASSUME wroot[w] = treeRoot
      PROVE  wseq'[w] = AssignedRows(w, widx[w])
  <2>1. row.seq >= treeRoot.treeSize /\ treeRoot.treeSize \in Nat /\ row.seq \in Nat
    BY <1>2, <1>5, WriterTypes DEF AssignedRow
  <2>2. \A p \in sequenced : p.seq < treeRoot.treeSize /\ p.seq \in Nat
    BY Zenon DEF IInv, TableInv, RootMatchesRows, TypeInv, TypeOK, TablesType, SequencedRow
  <2>3. wseq'[w] = wseq[w] \cup {row}
    BY <1>3, <2>1, <2>2
  <2>4. wseq[w] = AssignedRows(w, widx[w] - 1)
    BY <1>1, <1>5, WriterParts, Zenon DEF InsertsOf
  <2>5. 1..widx[w] = 1..(widx[w] - 1) \cup {widx[w]}
    BY <1>2
  <2>6. QED
    BY <2>3, <2>4, <2>5, Zenon DEF AssignedRows
<1> HIDE DEF row, taken
<1>6. \A x \in Writers \ {w} : SameWriter(x)
  BY <1>1, <1>3, <1>4, Zenon DEF SameWriter
<1>7. DeletesOf(w)' /\ WithinLimit(w)'
  BY <1>1, <1>4, WriterParts DEF DeletesOf, DeletedAt, WithinLimit
<1>8. InsertsOf(w)'
  <2>1. \A i : AssignedRow(w, i)' = AssignedRow(w, i)
    BY <1>1, Zenon DEF AssignedRow
  <2>2. \A n : AssignedRows(w, n)' = AssignedRows(w, n)
    BY <2>1, Zenon DEF AssignedRows
  <2>3. wpc'[w] = "sequence" => widx'[w] - 1 = widx[w]
    BY <1>2, <1>4
  <2>4. QED
    BY <1>1, <1>4, <1>5, <2>2, <2>3 DEF InsertsOf
<1>9. /\ wroot'[w] = treeRoot \/ wroot'[w].revision < treeRoot.revision
      /\ wpc'[w] # "commit" /\ ~HoldsTreesRow(w)'
      /\ \A x \in Writers \ {w} : wdel'[w] \cap wdel[x] = {}
  BY <1>1, <1>4, WriterParts, Zenon DEF HoldsTreesRow
<1>10. QED
  BY <1>1, <1>6, <1>7, <1>8, <1>9, WriterFrame, Zenon

\* Storing the root keeps the invariant: a writer with a stale root finds its
\* revision in tree_head.
LEMMA StoreSignedLogRootInv ==
  ASSUME IInv, NEW w \in Writers, UpdateTreesRow(w) \/ InsertTreeHead(w)
  PROVE  WriterInv'
<1>1. CASE RollbackWriter(w)
  BY <1>1, CloseWriterInv, Zenon DEF RollbackWriter
<1>2. CASE ~RollbackWriter(w)
  <2>1. /\ wroot' = wroot /\ wdq' = wdq /\ widx' = widx /\ wdel' = wdel /\ wseq' = wseq
        /\ unsequenced' = unsequenced /\ treeRoot' = treeRoot
    BY <1>2, Zenon DEF UpdateTreesRow, InsertTreeHead, tables
  <2>2. /\ \A x \in Writers \ {w} : wpc'[x] = wpc[x]
        /\ \/ wpc[w] = "storeRoot" /\ wpc'[w] = "treeHead"
           \/ wpc[w] = "treeHead" /\ wpc'[w] = "commit"
    BY <1>2, WriterDomains, Zenon DEF IInv, TypeInv, UpdateTreesRow, InsertTreeHead
  <2>3. \A x \in Writers \ {w} : ~HoldsTreesRow(x)
    BY <1>2, WriterParts, Zenon DEF UpdateTreesRow, InsertTreeHead, HoldsTreesRow
  <2>4. ASSUME wpc'[w] = "commit"
        PROVE  wroot[w] = treeRoot
    <3>0. InsertTreeHead(w)
      BY <2>2, <2>4, Zenon DEF UpdateTreesRow
    <3>1. \A h \in treeHead : h.revision # wroot[w].revision + 1
      <4>1. \A h \in treeHead : h.revision # NewRoot(w).revision
        BY <1>2, <3>0, Zenon DEF InsertTreeHead
      <4>2. QED
        BY <4>1, Zenon DEF NewRoot
    <3>2. \A n \in 0..treeRoot.revision : \E h \in treeHead : h.revision = n
      BY Zenon DEF IInv, TableInv, OneRootPerRevision
    <3>3. ~(wroot[w].revision + 1 \in 0..treeRoot.revision)
      BY <3>1, <3>2, Zenon
    <3>4. /\ wroot[w].revision \in Int /\ wroot[w].revision >= -1
          /\ treeRoot.revision \in Int
      BY WriterTypes, Zenon
    <3>5. ~(wroot[w].revision < treeRoot.revision)
      BY <3>3, <3>4
    <3>6. QED
      BY <3>5, WriterParts, Zenon
  <2>5. \A x \in Writers \ {w} : SameWriter(x)
    BY <2>1, <2>2, Zenon DEF SameWriter
  <2>6. DeletesOf(w)' /\ WithinLimit(w)'
    <3>1. DeletesOf(w) /\ WithinLimit(w)
      BY WriterParts, Zenon
    <3>2. WithinLimit(w)'
      BY <3>1, <2>1, Zenon DEF WithinLimit
    <3>3. DeletesOf(w)'
      <4>1. /\ wpc'[w] \in {"treeHead", "commit"} /\ wpc[w] \in {"storeRoot", "treeHead"}
            /\ wdq'[w] = wdq[w] /\ wdel'[w] = wdel[w] /\ unsequenced' = unsequenced
        BY <2>1, <2>2, Zenon
      <4>2. /\ wdel[w] = {wdq[w][i] : i \in 1..Len(wdq[w])} /\ wdel[w] \subseteq unsequenced
            /\ \A i, j \in 1..Len(wdq[w]) : i # j => wdq[w][i] # wdq[w][j]
        BY <3>1, <4>1, Zenon DEF DeletesOf, DeletedAt
      <4>3. wdel'[w] = {wdq'[w][i] : i \in 1..Len(wdq'[w])}
        BY <4>1, <4>2, Zenon
      <4>4. /\ wdel'[w] \subseteq unsequenced'
            /\ \A i, j \in 1..Len(wdq'[w]) : i # j => wdq'[w][i] # wdq'[w][j]
        BY <4>1, <4>2, Zenon
      <4>5. /\ ~(wpc'[w] \in {"idle", "dequeue"}) /\ wpc'[w] # "remove"
        BY <4>1, Zenon
      <4>6. QED
        BY <4>3, <4>4, <4>5, Zenon DEF DeletesOf, DeletedAt
    <3>4. QED
      BY <3>2, <3>3
  <2>7. InsertsOf(w)'
    <3>1. \A i : AssignedRow(w, i)' = AssignedRow(w, i)
      BY <2>1, Zenon DEF AssignedRow
    <3>2. \A n : AssignedRows(w, n)' = AssignedRows(w, n)
      BY <3>1, Zenon DEF AssignedRows
    <3>3. QED
      BY <2>1, <2>2, <3>2, WriterParts, Zenon DEF InsertsOf
  <2>8. QED
    BY <2>1, <2>3, <2>4, <2>5, <2>6, <2>7, WriterParts, WriterFrame, Zenon
<1>3. QED
  BY <1>1, <1>2, Zenon

-----------------------------------------------------------------------------
(* The two commits, the only steps that change the tables, keep it.        *)

\* Writers are not touched by queuers: what a signer deletes is there before
\* and after, since a queuer's commit only adds queue entries.
LEMMA WritersUnchangedInv ==
  ASSUME IInv, UNCHANGED <<treeRoot, wvars>>, unsequenced \subseteq unsequenced'
  PROVE  WriterInv'
<1>1. /\ wpc' = wpc /\ wroot' = wroot /\ wdq' = wdq /\ widx' = widx /\ wdel' = wdel
      /\ wseq' = wseq /\ treeRoot' = treeRoot
  BY Zenon DEF wvars
<1>2. WriterRoots' /\ DeletesApart'
  BY <1>1, Zenon DEF IInv, WriterInv, WriterRoots, HoldsTreesRow, DeletesApart
<1>3. ASSUME NEW x \in Writers PROVE DeletesOf(x)' /\ InsertsOf(x)' /\ WithinLimit(x)'
  <2>1. SameWriter(x) /\ wdel[x] \subseteq unsequenced'
    BY <1>1, WriterParts, Zenon DEF SameWriter, DeletesOf, DeletedAt
  <2>2. QED
    BY <1>1, <2>1, WriterParts, SameWriterKeeps, Zenon
<1>4. QED
  BY <1>2, <1>3, Zenon DEF WriterInv

\* The identities of a union.
LEMMA IdsOfUnion ==
  ASSUME NEW A, NEW B
  PROVE  IdsOf(A \cup B) = IdsOf(A) \cup IdsOf(B)
  BY Zenon DEF IdsOf

\* A commit of QueueLeaves keeps the invariant.
LEMMA CommitQueueLeavesInv ==
  ASSUME IInv, NEW q \in Queuers, NEW delivered \in BOOLEAN, CommitQueueLeaves(q, delivered)
  PROVE  QueuerInv' /\ WriterInv' /\ TableInv'
<1>0. KeysOf(q) /\ RowsOf(q) /\ RepliesOf(q)
  BY Zenon DEF IInv, QueuerInv
<1>1. /\ leafData' = leafData \cup qleaf[q] /\ unsequenced' = unsequenced \cup qunseq[q]
      /\ sequenced' = sequenced /\ treeRoot' = treeRoot /\ treeHead' = treeHead
      /\ acked' \in {acked, acked \cup Reply(q)} /\ UNCHANGED wvars
      /\ qpc[q] \in {"insert", "commit"} /\ qtodo[q] = {}
  BY <1>0, Zenon DEF CommitQueueLeaves, RepliesOf
<1>2. /\ \A p \in Queuers \ {q} : SameQueuer(p)
      /\ qleaf'[q] = {} /\ KeysOf(q)' /\ RowsOf(q)' /\ RepliesOf(q)'
  BY ClosedQueuer, Zenon DEF CommitQueueLeaves
<1>3. \A p \in Queuers \ {q} : \A r \in qleaf[p], s \in qleaf[q] : r.id # s.id
  BY Zenon DEF IInv, QueuerInv, KeysApart
<1>4. ASSUME NEW p \in Queuers, p # q PROVE KeysOf(p)' /\ RowsOf(p)' /\ RepliesOf(p)'
  <2>1. SameQueuer(p) /\ KeysOf(p) /\ RowsOf(p) /\ RepliesOf(p)
    BY <1>2, <1>4, Zenon DEF IInv, QueuerInv
  <2>2. KeysOf(p)'
    <3>1. \A r \in qleaf[p] : r.id \notin IdsOf(leafData')
      BY <1>1, <1>3, <1>4, <2>1 DEF KeysOf, IdsOf
    <3>2. QED
      BY <2>1, <3>1, Zenon DEF SameQueuer, KeysOf
  <2>3. RowsOf(p)'
    <3>1. IdAt(p, qcur[p])' = IdAt(p, qcur[p])
      BY <2>1, Zenon DEF SameQueuer, IdAt
    <3>2. QED
      BY <2>1, <3>1 DEF SameQueuer, RowsOf
  <2>4. RepliesOf(p)'
    BY <1>1, <2>1, Zenon DEF SameQueuer, RepliesOf, RowFor, IdAt
  <2>5. QED
    BY <2>2, <2>3, <2>4, Zenon
<1>5. KeysApart'
  <2>1. \A x \in Queuers : qleaf'[x] \subseteq qleaf[x]
    BY <1>2, Zenon DEF SameQueuer
  <2>2. KeysApart
    BY Zenon DEF IInv, QueuerInv
  <2>3. QED
    BY <2>1, <2>2, Zenon DEF KeysApart
<1>6. QueuerInv'
  BY <1>2, <1>4, <1>5, Zenon DEF QueuerInv
<1>8. WriterInv'
  BY <1>1, WritersUnchangedInv, Zenon
<1>9. LeafAccounting'
  <2>1. /\ \A r \in qleaf[q] : r.id \in IdsOf(qunseq[q]) /\ r.id \notin IdsOf(leafData)
        /\ \A u \in qunseq[q] : u.id \in IdsOf(qleaf[q]) /\ u.ts = qreq[q].ts
        /\ \A r, s \in qleaf[q] : r.id = s.id => r = s
    BY <1>0, <1>1, Zenon DEF KeysOf, RowsOf
  <2>2. \A u, v \in qunseq[q] : u.id = v.id => u = v
    <3>1. qunseq[q] \subseteq UnsequencedRow
      BY Zenon DEF IInv, TypeInv, TypeOK, QueuersType
    <3>2. \A u, v \in UnsequencedRow : u.id = v.id /\ u.ts = v.ts => u = v
      BY DEF UnsequencedRow
    <3>3. QED
      BY <2>1, <3>1, <3>2, Zenon
  <2>3. /\ IdsOf(leafData') = IdsOf(leafData) \cup IdsOf(qleaf[q])
        /\ IdsOf(unsequenced') = IdsOf(unsequenced) \cup IdsOf(qunseq[q])
        /\ IdsOf(sequenced') = IdsOf(sequenced)
    BY <1>1, IdsOfUnion, Zenon
  <2>4. /\ IdsOf(qleaf[q]) = IdsOf(qunseq[q])
        /\ IdsOf(qleaf[q]) \cap IdsOf(leafData) = {}
    BY <2>1 DEF IdsOf
  <2>5. IdsOf(unsequenced) \cup IdsOf(sequenced) \subseteq IdsOf(leafData)
    BY Zenon DEF IInv, TableInv, LeafAccounting
  <2>6. \A r \in leafData : (r.id \in IdsOf(unsequenced)) # (r.id \in IdsOf(sequenced))
    BY Zenon DEF IInv, TableInv, LeafAccounting
  <2>7. \A r \in leafData : r.id \in IdsOf(leafData)
    BY Zenon DEF IdsOf
  <2>8. \A r \in leafData' : (r.id \in IdsOf(unsequenced')) # (r.id \in IdsOf(sequenced'))
    <3>1. ASSUME NEW r \in leafData
          PROVE  (r.id \in IdsOf(unsequenced')) # (r.id \in IdsOf(sequenced'))
      BY <2>3, <2>4, <2>6, <2>7
    <3>2. ASSUME NEW r \in qleaf[q]
          PROVE  r.id \in IdsOf(unsequenced') /\ r.id \notin IdsOf(sequenced')
      BY <2>1, <2>3, <2>5, Zenon
    <3>3. QED
      BY <1>1, <3>1, <3>2, Zenon
  <2>9. IdsOf(unsequenced') \cup IdsOf(sequenced') \subseteq IdsOf(leafData')
    BY <2>3, <2>4, <2>5, Zenon
  <2>10. \A r, s \in leafData' : r.id = s.id => r = s
    <3>1. \A r, s \in leafData : r.id = s.id => r = s
      BY Zenon DEF IInv, TableInv, LeafAccounting
    <3>2. QED
      BY <1>1, <2>1, <2>7, <3>1
  <2>11. \A r, s \in unsequenced' : r.id = s.id => r = s
    <3>1. \A r, s \in unsequenced : r.id = s.id => r = s
      BY Zenon DEF IInv, TableInv, LeafAccounting
    <3>2. \A r \in unsequenced, s \in qunseq[q] : r.id # s.id
      BY <2>4, <2>5, Zenon DEF IdsOf
    <3>3. QED
      BY <1>1, <2>2, <3>1, <3>2
  <2>12. \A r, s \in sequenced' : r.id = s.id => r = s
    BY <1>1, Zenon DEF IInv, TableInv, LeafAccounting
  <2>13. QED
    BY <2>8, <2>9, <2>10, <2>11, <2>12, Zenon DEF LeafAccounting
<1>10. RootMatchesRows' /\ OneRootPerRevision' /\ RootsConsistent'
  BY <1>1 DEF IInv, TableInv, RootMatchesRows, OneRootPerRevision, RootsConsistent
<1>11. RepliesAreStored'
  <2>1. \A a \in Reply(q) : \E r \in leafData' : r.id = a.id /\ r.value = a.value
    <3>1. ASSUME NEW r \in qfound[q]
          PROVE  r \in leafData'
      BY <1>0, <1>1, Zenon DEF RepliesOf
    <3>2. ASSUME NEW i \in DOMAIN qreq[q].leaves \ qdup[q]
          PROVE  /\ RowFor(q, i) \in leafData' /\ RowFor(q, i).id = qreq[q].leaves[i].id
                 /\ RowFor(q, i).value = qreq[q].leaves[i].value
      BY <1>0, <1>1, Zenon DEF RepliesOf, RowFor, IdAt
    <3>3. QED
      BY <3>1, <3>2 DEF Reply
  <2>2. \A a \in acked : \E r \in leafData' : r.id = a.id /\ r.value = a.value
    BY <1>1, Zenon DEF IInv, TableInv, RepliesAreStored
  <2>3. QED
    BY <1>1, <2>1, <2>2, Zenon DEF RepliesAreStored
<1>12. QED
  BY <1>6, <1>8, <1>9, <1>10, <1>11, Zenon DEF TableInv

\* A writer at its commit works from the current root, and its batch is
\* sequenced in full, none of it for the second time.
LEMMA CommitFacts ==
  ASSUME IInv, NEW w \in Writers, CommitWriter(w)
  PROVE  /\ wroot[w] = treeRoot
         /\ wseq[w] = {AssignedRow(w, i) : i \in 1..Len(wdq[w])}
         /\ wdel[w] = {wdq[w][i] : i \in 1..Len(wdq[w])}
         /\ wdel[w] \subseteq unsequenced
         /\ \A i, j \in 1..Len(wdq[w]) : wdq[w][i].id = wdq[w][j].id => i = j
         /\ \A i \in 1..Len(wdq[w]) : wdq[w][i].id \notin IdsOf(sequenced)
         /\ treeRoot' = [revision |-> treeRoot.revision + 1,
                         treeSize |-> treeRoot.treeSize + Len(wdq[w]),
                         rootHash |-> treeRoot.rootHash \cup wseq[w]]
<1>1. wpc[w] = "commit"
  BY Zenon DEF CommitWriter
<1>2. wroot[w] = treeRoot
  BY <1>1, WriterParts, Zenon
<1>3. wseq[w] = {AssignedRow(w, i) : i \in 1..Len(wdq[w])}
  BY <1>1, <1>2, WriterParts, Zenon DEF InsertsOf, AssignedRows
<1>4. /\ wdel[w] = {wdq[w][i] : i \in 1..Len(wdq[w])} /\ wdel[w] \subseteq unsequenced
      /\ \A i, j \in 1..Len(wdq[w]) : i # j => wdq[w][i] # wdq[w][j]
  BY <1>1, WriterParts, Zenon DEF DeletesOf, DeletedAt
<1>5. \A i \in 1..Len(wdq[w]) : wdq[w][i] \in unsequenced
  BY <1>4, Zenon
<1>6. \A r, s \in unsequenced : r.id = s.id => r = s
  BY Zenon DEF IInv, TableInv, LeafAccounting
<1>7. \A i, j \in 1..Len(wdq[w]) : wdq[w][i].id = wdq[w][j].id => i = j
  BY <1>4, <1>5, <1>6, Zenon
<1>8. \A r \in unsequenced : r.id \notin IdsOf(sequenced)
  <2>1. ASSUME NEW r \in unsequenced PROVE r.id \notin IdsOf(sequenced)
    <3>1. r.id \in IdsOf(unsequenced)
      BY <2>1, Zenon DEF IdsOf
    <3>2. PICK l \in leafData : l.id = r.id
      <4>1. r.id \in IdsOf(leafData)
        BY <3>1, Zenon DEF IInv, TableInv, LeafAccounting
      <4>2. QED
        BY <4>1, Zenon DEF IdsOf
    <3>3. (l.id \in IdsOf(unsequenced)) # (l.id \in IdsOf(sequenced))
      BY Zenon DEF IInv, TableInv, LeafAccounting
    <3>4. QED
      BY <3>1, <3>2, <3>3
  <2>2. QED
    BY <2>1, Zenon
<1>9. treeRoot' = [revision |-> treeRoot.revision + 1,
                   treeSize |-> treeRoot.treeSize + Len(wdq[w]),
                   rootHash |-> treeRoot.rootHash \cup wseq[w]]
  BY <1>2, <1>3, WriterTypes, Zenon DEF CommitWriter, NewRoot
<1>10. QED
  BY <1>2, <1>3, <1>4, <1>5, <1>7, <1>8, <1>9

\* The root of a commit follows the root it worked from.
LEMMA CommitRoot ==
  ASSUME IInv, NEW w \in Writers, CommitWriter(w)
  PROVE  /\ treeRoot'.revision = treeRoot.revision + 1
         /\ treeRoot'.treeSize = treeRoot.treeSize + Len(wdq[w])
         /\ treeRoot'.rootHash = treeRoot.rootHash \cup wseq[w]
<1>1. treeRoot' = [revision |-> treeRoot.revision + 1,
                   treeSize |-> treeRoot.treeSize + Len(wdq[w]),
                   rootHash |-> treeRoot.rootHash \cup wseq[w]]
  BY CommitFacts, Zenon
<1>2. QED
  BY <1>1, Zenon

\* A signer's commit keeps the invariant of the writers: all others become
\* stale.
LEMMA CommitWriterInv ==
  ASSUME IInv, NEW w \in Writers, CommitWriter(w)
  PROVE  WriterInv'
<1>1. /\ \A x \in Writers \ {w} : SameWriter(x)
      /\ wpc'[w] = "idle" /\ wroot'[w] = NoRoot /\ wdel'[w] = {}
      /\ DeletesOf(w)' /\ InsertsOf(w)' /\ WithinLimit(w)'
  BY ClosedWriter, Zenon DEF CommitWriter
<1>2. treeRoot'.revision = treeRoot.revision + 1 /\ treeRoot.revision \in Int
      /\ treeRoot.revision >= -1
  BY CommitRoot, WriterTypes, Zenon
<1>3. ASSUME NEW x \in Writers
      PROVE  wroot'[x].revision < treeRoot'.revision /\ wroot'[x] # treeRoot'
  <2>1. CASE x = w
    <3>1. wroot'[x].revision = -1
      BY <1>1, <2>1 DEF NoRoot
    <3>2. QED
      BY <1>2, <3>1
  <2>2. CASE x # w
    <3>1. wroot'[x] = wroot[x]
      BY <1>1, <2>2, Zenon DEF SameWriter
    <3>2. QED
      BY <1>2, <3>1, WriterParts, WriterTypes
  <2>3. QED
    BY <2>1, <2>2, Zenon
<1>4. \A x \in Writers \ {w} : ~HoldsTreesRow(x)
  BY WriterParts, Zenon DEF CommitWriter, HoldsTreesRow
<1>5. \A x \in Writers : ~HoldsTreesRow(x)' /\ wpc'[x] # "commit"
  BY <1>1, <1>4, Zenon DEF SameWriter, HoldsTreesRow
<1>6. WriterRoots'
  BY <1>3, <1>5, Zenon DEF WriterRoots
<1>7. DeletesApart'
  BY <1>1, Zenon DEF SameWriter, IInv, WriterInv, DeletesApart
<1>8. ASSUME NEW x \in Writers, x # w
      PROVE  DeletesOf(x)' /\ InsertsOf(x)' /\ WithinLimit(x)'
  <2>1. SameWriter(x) /\ unsequenced' = unsequenced \ wdel[w] /\ wdel[w] \cap wdel[x] = {}
    BY <1>1, <1>8, WriterParts, Zenon DEF CommitWriter
  <2>2. wdel'[x] \subseteq unsequenced'
    BY <2>1, WriterParts, Zenon DEF SameWriter, DeletesOf, DeletedAt
  <2>3. DeletesOf(x)'
    <3>1. DeletesOf(x)
      BY WriterParts, Zenon
    <3>2. QED
      BY <2>1, <2>2, <3>1, Zenon DEF SameWriter, DeletesOf
  <2>4. InsertsOf(x)'
    BY <1>3, <2>1, WriterParts, Zenon DEF SameWriter, InsertsOf
  <2>5. WithinLimit(x)'
    BY <2>1, WriterParts, Zenon DEF SameWriter, WithinLimit
  <2>6. QED
    BY <2>3, <2>4, <2>5, Zenon
<1>9. QED
  BY <1>1, <1>6, <1>7, <1>8, Zenon DEF WriterInv

\* A signer's commit keeps the invariant of the tables.
LEMMA CommitWriterTables ==
  ASSUME IInv, NEW w \in Writers, CommitWriter(w)
  PROVE  TableInv'
<1> DEFINE n == Len(wdq[w])
           new == {AssignedRow(w, i) : i \in 1..n}
           size == treeRoot.treeSize
<1>1. /\ leafData' = leafData /\ acked' = acked
      /\ unsequenced' = unsequenced \ wdel[w] /\ sequenced' = sequenced \cup new
      /\ treeHead' = treeHead \cup {treeRoot'}
  BY CommitFacts, Zenon DEF CommitWriter
<1>2. /\ treeRoot'.revision = treeRoot.revision + 1 /\ treeRoot'.treeSize = size + n
      /\ treeRoot'.rootHash = treeRoot.rootHash \cup new
  BY CommitRoot, CommitFacts, Zenon
<1>3. n \in Nat /\ size \in Nat /\ treeRoot.revision \in Int /\ treeRoot.revision >= -1
  BY WriterTypes, Zenon
<1>4. /\ \A i \in 1..n : /\ AssignedRow(w, i).seq = size + i - 1
                         /\ AssignedRow(w, i).id = wdq[w][i].id
      /\ \A p \in new : p.seq \in Nat /\ p.seq >= size /\ p.seq < size + n
  <2>1. \A i \in 1..n : /\ AssignedRow(w, i).seq = size + i - 1
                        /\ AssignedRow(w, i).id = wdq[w][i].id
    BY CommitFacts, Zenon DEF AssignedRow
  <2>2. ASSUME NEW p \in new PROVE p.seq \in Nat /\ p.seq >= size /\ p.seq < size + n
    <3>1. PICK i \in 1..n : p.seq = size + i - 1
      BY <2>1, <2>2, Zenon
    <3>2. QED
      BY <1>3, <3>1
  <2>3. QED
    BY <2>1, <2>2, Zenon
<1>5. \A p \in sequenced : p.seq \in Nat /\ p.seq < size
  BY Zenon DEF IInv, TableInv, TypeInv, TypeOK, TablesType, SequencedRow, RootMatchesRows
<1>6. LeafAccounting'
  <2>1. IdsOf(new) = IdsOf(wdel[w])
    <3>1. IdsOf(new) = {wdq[w][i].id : i \in 1..n}
      <4>1. IdsOf(new) = {AssignedRow(w, i).id : i \in 1..n}
        BY Zenon DEF IdsOf
      <4>2. QED
        BY <1>4, <4>1, Zenon
    <3>2. wdel[w] = {wdq[w][i] : i \in 1..n}
      BY CommitFacts, Zenon
    <3>3. IdsOf(wdel[w]) = {wdq[w][i].id : i \in 1..n}
      BY <3>2 DEF IdsOf
    <3>4. QED
      BY <3>1, <3>3, Zenon
  <2>2. IdsOf(sequenced') = IdsOf(sequenced) \cup IdsOf(wdel[w])
    BY <1>1, <2>1, IdsOfUnion
  <2>3. \A r, s \in unsequenced : r.id = s.id => r = s
    BY Zenon DEF IInv, TableInv, LeafAccounting
  <2>4. IdsOf(unsequenced') = IdsOf(unsequenced) \ IdsOf(wdel[w])
    <3>1. unsequenced' = unsequenced \ wdel[w] /\ wdel[w] \subseteq unsequenced
      BY <1>1, CommitFacts, Zenon
    <3>2. QED
      BY <2>3, <3>1 DEF IdsOf
  <2>5. IdsOf(wdel[w]) \subseteq IdsOf(unsequenced)
    BY CommitFacts, Zenon DEF IdsOf
  <2>6. \A r \in leafData : (r.id \in IdsOf(unsequenced)) # (r.id \in IdsOf(sequenced))
    BY Zenon DEF IInv, TableInv, LeafAccounting
  <2>7. IdsOf(unsequenced) \cup IdsOf(sequenced) \subseteq IdsOf(leafData)
    BY Zenon DEF IInv, TableInv, LeafAccounting
  <2>8. \A r \in leafData' : (r.id \in IdsOf(unsequenced')) # (r.id \in IdsOf(sequenced'))
    <3>1. ASSUME NEW r \in leafData
          PROVE  (r.id \in IdsOf(unsequenced')) # (r.id \in IdsOf(sequenced'))
      <4>1. CASE r.id \in IdsOf(wdel[w])
        BY <2>2, <2>4, <4>1, Zenon
      <4>2. CASE r.id \notin IdsOf(wdel[w])
        <5>1. /\ r.id \in IdsOf(unsequenced') <=> r.id \in IdsOf(unsequenced)
              /\ r.id \in IdsOf(sequenced') <=> r.id \in IdsOf(sequenced)
          BY <2>2, <2>4, <4>2, Zenon
        <5>2. QED
          BY <2>6, <3>1, <5>1
      <4>3. QED
        BY <4>1, <4>2, Zenon
    <3>2. QED
      BY <1>1, <3>1, Zenon
  <2>9. IdsOf(unsequenced') \cup IdsOf(sequenced') \subseteq IdsOf(leafData')
    BY <1>1, <2>2, <2>4, <2>5, <2>7, Zenon
  <2>10. \A r, s \in sequenced' : r.id = s.id => r = s
    <3>1. \A r, s \in sequenced : r.id = s.id => r = s
      BY Zenon DEF IInv, TableInv, LeafAccounting
    <3>2. \A r, s \in new : r.id = s.id => r = s
      <4>1. \A i, j \in 1..n : wdq[w][i].id = wdq[w][j].id => i = j
        BY CommitFacts, Zenon
      <4>2. ASSUME NEW i \in 1..n, NEW j \in 1..n, AssignedRow(w, i).id = AssignedRow(w, j).id
            PROVE  i = j
        BY <1>4, <4>1, <4>2, Zenon
      <4>3. QED
        BY <4>2, Zenon
    <3>3. \A r \in new : r.id \notin IdsOf(sequenced)
      BY <1>4, CommitFacts
    <3>4. QED
      BY <1>1, <3>1, <3>2, <3>3 DEF IdsOf
  <2>11. /\ \A r, s \in leafData' : r.id = s.id => r = s
         /\ \A r, s \in unsequenced' : r.id = s.id => r = s
    BY <1>1, <2>3, Zenon DEF IInv, TableInv, LeafAccounting
  <2>12. QED
    BY <2>8, <2>9, <2>10, <2>11, Zenon DEF LeafAccounting
<1>7. RootMatchesRows'
  <2>1. sequenced' = treeRoot'.rootHash
    BY <1>1, <1>2, Zenon DEF IInv, TableInv, RootMatchesRows
  <2>2. ASSUME NEW k \in 0..(treeRoot'.treeSize - 1)
        PROVE  \E p \in sequenced' : p.seq = k
    <3>1. CASE k < size
      BY <1>1, <1>3, <3>1 DEF IInv, TableInv, RootMatchesRows
    <3>2. CASE k >= size
      <4> HIDE DEF n, size
      <4>0. k \in Int /\ k <= size + n - 1
        BY <1>2, <1>3, <2>2
      <4>1. k - size + 1 \in 1..n /\ size + (k - size + 1) - 1 = k
        BY <1>3, <3>2, <4>0
      <4>2. AssignedRow(w, k - size + 1) \in new /\ AssignedRow(w, k - size + 1).seq = k
        BY <1>4, <4>1, Zenon
      <4>3. QED
        BY <1>1, <4>2, Zenon
    <3>3. QED
      BY <1>3, <2>2, <3>1, <3>2
  <2>3. \A p \in sequenced' : p.seq < treeRoot'.treeSize
    BY <1>1, <1>2, <1>3, <1>4, <1>5
  <2>4. \A p, r \in sequenced' : p.seq = r.seq => p = r
    <3>1. \A p, r \in sequenced : p.seq = r.seq => p = r
      BY Zenon DEF IInv, TableInv, RootMatchesRows
    <3>2. \A i, j \in 1..n : AssignedRow(w, i).seq = AssignedRow(w, j).seq => i = j
      BY <1>3, <1>4
    <3>3. ASSUME NEW p \in new, NEW r \in new, p.seq = r.seq PROVE p = r
      <4>1. PICK i \in 1..n : p = AssignedRow(w, i)
        OBVIOUS
      <4>2. PICK j \in 1..n : r = AssignedRow(w, j)
        OBVIOUS
      <4>3. QED
        BY <3>2, <3>3, <4>1, <4>2, Zenon
    <3>4. \A p \in sequenced, r \in new : p.seq # r.seq
      BY <1>3, <1>4, <1>5
    <3>5. QED
      BY <1>1, <3>1, <3>3, <3>4
  <2>5. QED
    BY <2>1, <2>2, <2>3, <2>4, Zenon DEF RootMatchesRows
<1>8. \A h \in treeHead : h.revision \in Nat /\ h.revision <= treeRoot.revision /\ h.treeSize \in Nat
  BY Zenon DEF IInv, TableInv, TypeInv, TypeOK, TablesType, LogRoot, OneRootPerRevision
<1>9. OneRootPerRevision'
  <2>1. \A h, g \in treeHead' : h.revision = g.revision => h = g
    <3>1. \A h, g \in treeHead : h.revision = g.revision => h = g
      BY Zenon DEF IInv, TableInv, OneRootPerRevision
    <3>2. \A h \in treeHead : h.revision # treeRoot'.revision
      BY <1>2, <1>3, <1>8
    <3>3. QED
      BY <1>1, <3>1, <3>2, Zenon
  <2>2. ASSUME NEW k \in 0..treeRoot'.revision
        PROVE  \E h \in treeHead' : h.revision = k
    <3>1. CASE k = treeRoot'.revision
      BY <1>1, <3>1, Zenon
    <3>2. CASE k # treeRoot'.revision
      <4>1. k \in 0..treeRoot.revision
        BY <1>2, <1>3, <2>2, <3>2
      <4>2. QED
        BY <1>1, <4>1, Zenon DEF IInv, TableInv, OneRootPerRevision
    <3>3. QED
      BY <3>1, <3>2, Zenon
  <2>3. \A h \in treeHead' : h.revision <= treeRoot'.revision
    BY <1>1, <1>2, <1>3, <1>8
  <2>4. treeRoot' \in treeHead'
    BY <1>1, Zenon
  <2>5. QED
    BY <2>1, <2>2, <2>3, <2>4, Zenon DEF OneRootPerRevision
<1>10. RootsConsistent'
  <2>1. ASSUME NEW h \in treeHead
        PROVE  /\ h.treeSize <= treeRoot'.treeSize
               /\ h.rootHash = {p \in treeRoot'.rootHash : p.seq < h.treeSize}
    <3>1. treeRoot \in treeHead
      <4>1. NoRoot.revision = -1
        BY Zenon DEF NoRoot
      <4>2. treeRoot.revision # -1
        BY <1>3, <1>8, <2>1
      <4>3. QED
        BY <4>1, <4>2, Zenon DEF IInv, TableInv, OneRootPerRevision
    <3>2. /\ h.treeSize <= size
          /\ h.rootHash = {p \in treeRoot.rootHash : p.seq < h.treeSize}
      BY <1>8, <2>1, <3>1, Zenon DEF IInv, TableInv, RootsConsistent
    <3>3. \A p \in new : ~(p.seq < h.treeSize)
      <4>1. ASSUME NEW i \in Nat, NEW j \in Int, NEW k \in Nat, i >= k, j <= k PROVE ~(i < j)
        BY <4>1
      <4>2. h.treeSize \in Int
        BY <1>8, <2>1
      <4>3. QED
        BY <1>3, <1>4, <3>2, <4>1, <4>2, Zenon
    <3>4. QED
      BY <1>2, <1>3, <1>8, <2>1, <3>2, <3>3
  <2>2. treeRoot'.rootHash = {p \in treeRoot'.rootHash : p.seq < treeRoot'.treeSize}
    BY <1>7, Zenon DEF RootMatchesRows
  <2>3. treeRoot'.treeSize <= treeRoot'.treeSize
    BY <1>2, <1>3
  <2>4. \A g \in treeHead : ~(treeRoot'.revision <= g.revision)
    BY <1>2, <1>3, <1>8
  <2>5. ASSUME NEW h \in treeHead', NEW g \in treeHead', h.revision <= g.revision
        PROVE  h.treeSize <= g.treeSize /\ h.rootHash = {p \in g.rootHash : p.seq < h.treeSize}
    <3>1. CASE h \in treeHead /\ g \in treeHead
      BY <2>5, <3>1, Zenon DEF IInv, TableInv, RootsConsistent
    <3>2. CASE h \in treeHead /\ g = treeRoot'
      BY <2>1, <3>2, Zenon
    <3>3. CASE h = treeRoot' /\ g = treeRoot'
      BY <2>2, <2>3, <3>3, Zenon
    <3>4. CASE h = treeRoot' /\ g \in treeHead
      BY <2>4, <2>5, <3>4, Zenon
    <3>5. QED
      BY <1>1, <3>1, <3>2, <3>3, <3>4, Zenon
  <2>6. QED
    BY <2>5, Zenon DEF RootsConsistent
<1>11. RepliesAreStored'
  BY <1>1, Zenon DEF IInv, TableInv, RepliesAreStored
<1>12. QED
  BY <1>6, <1>7, <1>9, <1>10, <1>11, Zenon DEF TableInv

-----------------------------------------------------------------------------
(* The invariant is inductive, and the properties follow from it.          *)

\* A step that changes no table keeps what is said of the tables.
LEMMA TablesUnchangedInv ==
  ASSUME IInv, UNCHANGED <<tables, acked>>
  PROVE  TableInv'
<1>1. LeafAccounting' /\ RepliesAreStored'
  BY Zenon DEF tables, IInv, TableInv, LeafAccounting, RepliesAreStored, IdsOf
<1>2. RootMatchesRows' /\ OneRootPerRevision' /\ RootsConsistent'
  BY DEF tables, IInv, TableInv, RootMatchesRows, OneRootPerRevision, RootsConsistent
<1>3. QED
  BY <1>1, <1>2, Zenon DEF TableInv

\* So does one that changes neither leaf_data nor a queuer.
LEMMA QueuersUnchangedInv ==
  ASSUME IInv, UNCHANGED <<leafData, qvars>>
  PROVE  QueuerInv'
<1>1. \A q \in Queuers : SameQueuer(q)
  BY Zenon DEF qvars, SameQueuer
<1>2. ASSUME NEW q \in Queuers PROVE KeysOf(q)' /\ RowsOf(q)' /\ RepliesOf(q)'
  <2>1. SameQueuer(q) /\ KeysOf(q) /\ RowsOf(q) /\ RepliesOf(q)
    BY <1>1, Zenon DEF IInv, QueuerInv
  <2>2. KeysOf(q)' /\ RowsOf(q)'
    BY <2>1 DEF SameQueuer, KeysOf, RowsOf, IdAt
  <2>3. RepliesOf(q)'
    BY <2>1 DEF SameQueuer, RepliesOf, RowFor, IdAt
  <2>4. QED
    BY <2>2, <2>3
<1>3. KeysApart'
  <2>1. qleaf' = qleaf
    BY Zenon DEF qvars
  <2>2. QED
    BY <2>1 DEF IInv, QueuerInv, KeysApart
<1>4. QED
  BY <1>2, <1>3 DEF QueuerInv

\* The invariant is inductive.
LEMMA IInvStep ==
  ASSUME IInv, [Next]_vars
  PROVE  IInv'
<1> DEFINE Parts == QueuerInv' /\ WriterInv' /\ TableInv'
<1>1. ASSUME NEW q \in Queuers,
             \/ \E leaves \in Batches, ts \in Times : BeginQueueLeaves(q, leaves, ts)
             \/ QueuerStep(q) \/ FailQueueLeaves(q) \/ CrashQueuer(q)
      PROVE  Parts
  <2>1. CASE \E delivered \in BOOLEAN : CommitQueueLeaves(q, delivered)
    BY <2>1, CommitQueueLeavesInv
  <2>2. CASE ~ \E delivered \in BOOLEAN : CommitQueueLeaves(q, delivered)
    <3>1. QueuerInv' /\ UNCHANGED <<tables, wvars, acked>>
      BY <1>1, <2>2, QueuerLocalStep DEF QueuerStep
    <3>2. QED
      BY <3>1, TablesUnchangedInv, WritersUnchangedInv DEF tables
  <2>3. QED
    BY <2>1, <2>2, Zenon
<1>2. ASSUME NEW w \in Writers, WriterStep(w) \/ AbortWriter(w) PROVE Parts
  <2>1. CASE CommitWriter(w)
    <3>1. UNCHANGED <<leafData, qvars>>
      BY <2>1 DEF CommitWriter
    <3>2. QED
      BY <2>1, <3>1, QueuersUnchangedInv, CommitWriterInv, CommitWriterTables
  <2>2. CASE ~CommitWriter(w)
    <3>1. UNCHANGED <<tables, qvars, acked>>
      BY <1>2, <2>2 DEF WriterStep, BeginInitLog, BeginIntegrate, DequeueLeaves,
         RemoveSequencedLeaf, RollbackWriter, UpdateSequencedLeaf, UpdateTreesRow,
         InsertTreeHead, AbortWriter
    <3>2. ASSUME AbortWriter(w) PROVE WriterInv'
      BY <3>1, <3>2, CloseWriterInv DEF AbortWriter, tables
    <3>3. WriterInv'
      BY <1>2, <2>2, <3>2, BeginWriterInv, DequeueLeavesInv, RemoveSequencedLeafInv,
         UpdateSequencedLeafInv, StoreSignedLogRootInv DEF WriterStep
    <3>4. QED
      BY <3>1, <3>3, TablesUnchangedInv, QueuersUnchangedInv, Zenon DEF tables
  <2>3. QED
    BY <2>1, <2>2, Zenon
<1>3. ASSUME UNCHANGED vars PROVE Parts
  <2>1. /\ UNCHANGED <<tables, acked>> /\ UNCHANGED <<leafData, qvars>>
        /\ UNCHANGED <<unsequenced, treeRoot, wvars>>
    BY <1>3, Zenon DEF vars, tables
  <2>2. QED
    BY <2>1, TablesUnchangedInv, QueuersUnchangedInv, WritersUnchangedInv
<1>4. Parts
  <2>1. CASE Next
    BY <1>1, <1>2, <2>1 DEF Next
  <2>2. QED
    BY <1>3, <2>1, Zenon
<1>5. TypeInv'
  BY TypeInvStep, Zenon DEF IInv
<1>6. QED
  BY <1>4, <1>5, Zenon DEF IInv

-----------------------------------------------------------------------------
(***************************************************************************)
(* The theorems.                                                           *)
(***************************************************************************)

\* IInv is an invariant.  It is what the other theorems follow from.
THEOREM Invariance == Spec => []IInv
<1>1. IInv /\ [Next]_vars => IInv'
  BY IInvStep, Zenon
<1>2. QED
  BY InitIInv, <1>1, PTL DEF Spec

\* No leaf that QueueLeaves stored is ever lost between the tables or
\* sequenced twice, whatever signers and log servers run at once.
THEOREM NoLeafLostOrRepeated == Spec => []LeafAccounting
<1>1. IInv => LeafAccounting
  BY Zenon DEF IInv, TableInv
<1>2. QED
  BY <1>1, Invariance, PTL

\* The root in trees always signs exactly the rows of sequenced_leaf_data,
\* which are numbered without gaps.
THEOREM RootIsOfRows == Spec => []RootMatchesRows
<1>1. IInv => RootMatchesRows
  BY Zenon DEF IInv, TableInv
<1>2. QED
  BY <1>1, Invariance, PTL

\* No two roots ever share a revision, none is missing, and the newest one is
\* the one in trees.
THEOREM RevisionsAreUnique == Spec => []OneRootPerRevision
<1>1. IInv => OneRootPerRevision
  BY Zenon DEF IInv, TableInv
<1>2. QED
  BY <1>1, Invariance, PTL

\* Every root ever signed is consistent with every later one.
THEOREM RootsStayConsistent == Spec => []RootsConsistent
<1>1. IInv => RootsConsistent
  BY Zenon DEF IInv, TableInv
<1>2. QED
  BY <1>1, Invariance, PTL

\* A leaf returned to a client is the one stored under its identity hash.
THEOREM RepliesComeFromStore == Spec => []RepliesAreStored
<1>1. IInv => RepliesAreStored
  BY Zenon DEF IInv, TableInv
<1>2. QED
  BY <1>1, Invariance, PTL

\* What a step does to the tables: nothing, or one of the two commits.
LEMMA TableSteps ==
  ASSUME IInv, [Next]_vars
  PROVE  \/ UNCHANGED tables
         \/ \E q \in Queuers, delivered \in BOOLEAN : CommitQueueLeaves(q, delivered)
         \/ \E w \in Writers : CommitWriter(w)
<1>1. CASE \E q \in Queuers :
             \/ \E leaves \in Batches, ts \in Times : BeginQueueLeaves(q, leaves, ts)
             \/ QueuerStep(q) \/ FailQueueLeaves(q) \/ CrashQueuer(q)
  BY <1>1, QueuerLocalStep, Zenon DEF QueuerStep
<1>2. CASE \E w \in Writers : WriterStep(w) \/ AbortWriter(w)
  <2>1. PICK w \in Writers : WriterStep(w) \/ AbortWriter(w)
    BY <1>2, Zenon
  <2>2. CASE BeginInitLog(w) \/ BeginIntegrate(w) \/ UpdateSequencedLeaf(w) \/ UpdateTreesRow(w)
    BY <2>2, Zenon DEF BeginInitLog, BeginIntegrate, UpdateSequencedLeaf, UpdateTreesRow
  <2>3. CASE \E cutoff \in Times : DequeueLeaves(w, cutoff)
    BY <2>3, Zenon DEF DequeueLeaves
  <2>4. CASE RemoveSequencedLeaf(w) \/ InsertTreeHead(w) \/ AbortWriter(w)
    BY <2>4, Zenon DEF RemoveSequencedLeaf, InsertTreeHead, RollbackWriter, AbortWriter
  <2>5. QED
    BY <2>1, <2>2, <2>3, <2>4, Zenon DEF WriterStep
<1>3. CASE UNCHANGED vars
  BY <1>3, Zenon DEF vars
<1>4. QED
  BY <1>1, <1>2, <1>3, Zenon DEF Next

\* No step takes a row of the log back, and a queue entry only goes away in
\* the transaction that sequences its leaf.
THEOREM LogOnlyGrows == Spec => AppendOnly
<1> DEFINE Grows ==
      /\ treeRoot.rootHash \subseteq treeRoot'.rootHash
      /\ treeRoot.revision <= treeRoot'.revision
      /\ treeHead \subseteq treeHead'
      /\ leafData \subseteq leafData'
      /\ \A r \in unsequenced \ unsequenced' : r.id \in IdsOf(sequenced' \ sequenced)
<1>1. ASSUME IInv, [Next]_vars PROVE [Grows]_tables
  <2>0. treeRoot.revision \in Int
    BY <1>1 DEF IInv, TypeInv, TypeOK, TablesType, LogRoot, NoRoot
  <2>1. ASSUME NEW q \in Queuers, NEW delivered \in BOOLEAN, CommitQueueLeaves(q, delivered)
        PROVE  Grows
    <3>1. /\ treeRoot' = treeRoot /\ treeHead' = treeHead /\ leafData \subseteq leafData'
          /\ unsequenced \subseteq unsequenced'
      BY <2>1, Zenon DEF CommitQueueLeaves
    <3>2. QED
      BY <2>0, <3>1
  <2>2. ASSUME NEW w \in Writers, CommitWriter(w) PROVE Grows
    <3>1. /\ wdel[w] = {wdq[w][i] : i \in 1..Len(wdq[w])}
          /\ wseq[w] = {AssignedRow(w, i) : i \in 1..Len(wdq[w])}
          /\ \A i \in 1..Len(wdq[w]) : wdq[w][i].id \notin IdsOf(sequenced)
      BY <1>1, <2>2, CommitFacts, Zenon
    <3>2. /\ treeRoot'.rootHash = treeRoot.rootHash \cup wseq[w]
          /\ treeRoot'.revision = treeRoot.revision + 1
      BY <1>1, <2>2, CommitRoot, Zenon
    <3>3. /\ unsequenced' = unsequenced \ wdel[w] /\ sequenced' = sequenced \cup wseq[w]
          /\ treeHead \subseteq treeHead' /\ leafData' = leafData
      BY <2>2 DEF CommitWriter
    <3>4. ASSUME NEW i \in 1..Len(wdq[w])
          PROVE  wdq[w][i].id \in IdsOf(sequenced' \ sequenced)
      <4>1. AssignedRow(w, i) \in sequenced' /\ AssignedRow(w, i).id = wdq[w][i].id
        BY <3>1, <3>3, Zenon DEF AssignedRow
      <4>2. AssignedRow(w, i) \notin sequenced
        BY <3>1, <4>1 DEF IdsOf
      <4>3. QED
        BY <4>1, <4>2 DEF IdsOf
    <3>5. treeRoot.revision <= treeRoot'.revision
      BY <2>0, <3>2
    <3>6. QED
      BY <3>1, <3>2, <3>3, <3>4, <3>5, Zenon
  <2>3. QED
    BY <1>1, <2>1, <2>2, TableSteps
<1>2. QED
  BY <1>1, Invariance, PTL DEF Spec, AppendOnly

\* The committing step of QueueLeaves accepts the identities it inserted.
LEMMA CommitQueueLeavesAccepts ==
  ASSUME IInv, NEW q \in Queuers, NEW delivered \in BOOLEAN, CommitQueueLeaves(q, delivered)
  PROVE  Log!Accept
<1>1. IdsOf(leafData') = IdsOf(leafData) \cup IdsOf(qleaf[q]) /\ treeRoot' = treeRoot
  BY IdsOfUnion DEF CommitQueueLeaves
<1>2. IdsOf(qleaf[q]) \subseteq LeafIds
  <2>1. qleaf[q] \subseteq LeafDataRow
    BY DEF IInv, TypeInv, TypeOK, QueuersType
  <2>2. QED
    BY <2>1, Zenon DEF IdsOf, LeafDataRow
<1>3. IdsOf(qleaf[q]) \cap IdsOf(leafData) = {}
  BY DEF IInv, QueuerInv, KeysOf, IdsOf
<1>4. IdsOf(qleaf[q]) \in SUBSET (LeafIds \ IdsOf(leafData))
  BY <1>2, <1>3
<1>5. QED
  BY <1>1, <1>4, Zenon DEF Log!Accept

\* A signer's commit integrates the leaves it dequeued, in their order; with
\* none it leaves the log as it was.
LEMMA CommitWriterIntegrates ==
  ASSUME IInv, NEW w \in Writers, CommitWriter(w)
  PROVE  Log!Integrate \/ UNCHANGED Log!logVars
<1> DEFINE n == Len(wdq[w])
           batch == [i \in 1..n |-> wdq[w][i].id]
<1>1. /\ n \in Nat /\ n <= DequeueLimit /\ treeRoot.treeSize \in Nat
      /\ leafData' = leafData
  BY WriterTypes, WriterParts DEF WithinLimit, CommitWriter
<1>2. /\ wroot[w] = treeRoot /\ wdel[w] \subseteq unsequenced
      /\ wdel[w] = {wdq[w][i] : i \in 1..n}
      /\ \A i, j \in 1..n : wdq[w][i].id = wdq[w][j].id => i = j
      /\ \A i \in 1..n : wdq[w][i].id \notin IdsOf(sequenced)
  BY CommitFacts, Zenon
<1>3. /\ treeRoot'.treeSize = treeRoot.treeSize + n
      /\ treeRoot'.rootHash = treeRoot.rootHash \cup {AssignedRow(w, i) : i \in 1..n}
  BY CommitRoot, CommitFacts, Zenon
<1>4. CASE n = 0
  <2>1. treeRoot'.treeSize = treeRoot.treeSize
    BY <1>1, <1>3, <1>4
  <2>2. {AssignedRow(w, i) : i \in 1..n} = {}
    BY <1>4
  <2>3. QED
    BY <1>1, <1>3, <2>1, <2>2 DEF Log!logVars
<1>5. CASE n # 0
  <2>1. n \in 1..DequeueLimit
    BY <1>1, <1>5, DequeueLimitAssumption
  <2>2. \A i \in 1..n : wdq[w][i].id \in Log!Waiting
    <3>1. sequenced = treeRoot.rootHash
      BY DEF IInv, TableInv, RootMatchesRows
    <3>2. \A i \in 1..n : wdq[w][i].id \in IdsOf(unsequenced)
      BY <1>2 DEF IdsOf
    <3>3. IdsOf(unsequenced) \subseteq IdsOf(leafData)
      BY DEF IInv, TableInv, LeafAccounting
    <3>4. Log!Waiting = IdsOf(leafData) \ IdsOf(sequenced)
      BY <3>1 DEF Log!Waiting, IdsOf
    <3>5. QED
      BY <1>2, <3>2, <3>3, <3>4
  <2>3. batch \in [1..n -> Log!Waiting] /\ \A i, j \in 1..n : i # j => batch[i] # batch[j]
    BY <1>2, <2>2
  <2>4. {AssignedRow(w, i) : i \in 1..n} =
          {[seq |-> treeRoot.treeSize + i - 1, id |-> batch[i]] : i \in 1..n}
    <3>1. \A i \in 1..n :
            AssignedRow(w, i) = [seq |-> treeRoot.treeSize + i - 1, id |-> batch[i]]
      BY <1>2, Zenon DEF AssignedRow
    <3>2. QED
      BY <3>1, Zenon
  <2> HIDE DEF n, batch
  <2>5. Log!Integrate
    BY <1>1, <1>3, <2>1, <2>3, <2>4 DEF Log!Integrate
  <2>6. QED
    BY <2>5, Zenon
<1>6. QED
  BY <1>4, <1>5, Zenon

\* The tables implement the append-only log, for any number of log servers,
\* signers, leaves and failures.
THEOREM StorageImplementsLog == Spec => ImplementsLog
<1>1. ASSUME Init PROVE Log!Init
  <2>1. IdsOf(leafData) = {} /\ treeRoot = NoRoot
    BY <1>1, Zenon DEF Init, IdsOf
  <2>2. NoRoot.treeSize = 0 /\ NoRoot.rootHash = {}
    BY Zenon DEF NoRoot
  <2>3. QED
    BY <2>1, <2>2, Zenon DEF Log!Init
<1>2. ASSUME IInv, [Next]_vars PROVE [Log!Next]_(Log!logVars)
  <2>1. CASE UNCHANGED tables
    BY <2>1, Zenon DEF tables, Log!logVars, IdsOf
  <2>2. QED
    BY <1>2, <2>1, TableSteps, CommitQueueLeavesAccepts, CommitWriterIntegrates DEF Log!Next
<1>3. QED
  BY <1>1, <1>2, Invariance, PTL DEF Spec, ImplementsLog, Log!Spec

\* A transaction that began at any root and reads a range later gets exactly
\* the leaves of that root.
THEOREM ReadsAreOfRoot == Spec => []ReadsMatchRoot
<1>1. ASSUME IInv PROVE ReadsMatchRoot
  <2> SUFFICES ASSUME NEW h \in treeHead, NEW start \in 0..(h.treeSize - 1),
                      NEW count \in 1..(h.treeSize + 1)
               PROVE  GetLeavesByRange(h, start, count) =
                        [code |-> "OK", leaves |->
                          {p \in h.rootHash : p.seq >= start /\ p.seq < start + count}]
    BY Zenon DEF ReadsMatchRoot
  <2> DEFINE size == h.treeSize
             clipped == IF count > size - start THEN size - start ELSE count
             rows == {p \in sequenced : /\ p.seq >= start /\ p.seq < start + clipped
                                        /\ p.id \in IdsOf(leafData)}
  <2>1. size \in Nat /\ start \in Nat /\ start < size /\ count \in Nat /\ count > 0
    BY <1>1 DEF IInv, TypeInv, TypeOK, TablesType, LogRoot
  <2>2. treeRoot \in treeHead /\ h.revision <= treeRoot.revision
    <3>1. h.revision \in Nat /\ h.revision <= treeRoot.revision
      BY <1>1, Zenon DEF IInv, TypeInv, TypeOK, TablesType, LogRoot, TableInv, OneRootPerRevision
    <3>2. NoRoot.revision = -1
      BY DEF NoRoot
    <3>3. QED
      BY <1>1, <3>1, <3>2 DEF IInv, TableInv, OneRootPerRevision
  <2>3. /\ size <= treeRoot.treeSize /\ treeRoot.treeSize \in Nat
        /\ h.rootHash = {p \in sequenced : p.seq < size}
    <3>1. sequenced = treeRoot.rootHash
      BY <1>1 DEF IInv, TableInv, RootMatchesRows
    <3>2. treeRoot.treeSize \in Nat
      BY <1>1, <2>2 DEF IInv, TypeInv, TypeOK, TablesType, LogRoot
    <3>3. QED
      BY <1>1, <2>2, <3>1, <3>2 DEF IInv, TableInv, RootsConsistent
  <2>4. \A p \in sequenced : p.seq \in Nat /\ p.id \in IdsOf(leafData)
    BY <1>1 DEF IInv, TypeInv, TypeOK, TablesType, SequencedRow, TableInv, LeafAccounting, IdsOf
  <2>5. rows = {p \in h.rootHash : p.seq >= start /\ p.seq < start + count}
    BY <2>1, <2>3, <2>4
  <2>6. ASSUME NEW p \in rows, NEW k \in start..(p.seq - 1)
        PROVE  \E r \in rows : r.seq = k
    <3>1. k \in Nat /\ k >= start /\ k < p.seq /\ p.seq \in Nat /\ p \in sequenced
      BY <2>1, <2>4, <2>6
    <3>2. k < size /\ k < start + clipped
      BY <2>1, <3>1
    <3>3. k \in 0..(treeRoot.treeSize - 1)
      BY <2>1, <2>3, <3>1, <3>2
    <3>4. PICK r \in sequenced : r.seq = k
      BY <1>1, <3>3 DEF IInv, TableInv, RootMatchesRows
    <3>5. QED
      BY <2>4, <3>1, <3>2, <3>4
  <2>7. ~ \E p \in rows : \E k \in start..(p.seq - 1) : \A r \in rows : r.seq # k
    BY <2>6
  <2>8. ~(count <= 0 \/ start < 0) /\ ~(start >= size)
    BY <2>1
  <2>9. GetLeavesByRange(h, start, count) = [code |-> "OK", leaves |-> rows]
    BY <2>7, <2>8, Zenon DEF GetLeavesByRange
  <2>10. QED
    BY <2>5, <2>9, Zenon
<1>2. QED
  BY <1>1, Invariance, PTL
=============================================================================
