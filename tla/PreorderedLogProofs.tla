--------------------------- MODULE PreorderedLogProofs ---------------------------
(***************************************************************************)
(* What a preordered log keeps for any batches, any number of concurrent    *)
(* calls and signers, and any faults: an acknowledged leaf is stored, a     *)
(* conflicting one leaves nothing behind, and the root is a prefix.         *)
(***************************************************************************)
EXTENDS PreorderedLog, TLAPS, WellFoundedInduction

Row == [idx : Nat, id : Nat]
Pcs == {"idle", "data", "sequence", "returned"}

AddersType ==
  /\ pc \in [Adders -> Pcs]
  /\ batch \in [Adders -> Seq(Leaf)] /\ todo \in [Adders -> SUBSET Nat]
  /\ cur \in [Adders -> Nat]
  /\ data \in [Adders -> SUBSET Nat] /\ seqs \in [Adders -> SUBSET Row]
  /\ saved \in [Adders -> [data : SUBSET Nat, seqs : SUBSET Row]]
  /\ DOMAIN status = Adders
  /\ \A c \in Adders : status[c] \in [DOMAIN batch[c] -> {"none", "ok", "conflict"}]

SignersType ==
  /\ spc \in [Signers -> {"idle", "dequeue", "store"}]
  /\ sroot \in [Signers -> Seq(Nat)] /\ got \in [Signers -> Seq(Nat)]

TablesType ==
  /\ leafData \subseteq Nat /\ acked \subseteq Row
  /\ DOMAIN sequenced \subseteq Nat /\ \A i \in DOMAIN sequenced : sequenced[i] \in Nat
  /\ root \in Seq(Nat)

RowOf(c, p) == [idx |-> leaf(c, p).idx, id |-> leaf(c, p).id]
Ids(rows) == {r.id : r \in rows}

\* A transaction that committed these rows would leave no row of one table
\* without its row in the other.
Paired(ids, rows) == ids \subseteq leafData \cup Ids(rows) /\ Ids(rows) \subseteq leafData \cup ids

\* The uncommitted rows of a call at each of its steps: between the two inserts
\* of a leaf its savepoint holds what was paired.
RowsOK(c) ==
  /\ pc[c] = "idle" => data[c] = {} /\ seqs[c] = {}
  /\ pc[c] = "data" => Paired(data[c], seqs[c])
  /\ pc[c] = "sequence" =>
       /\ cur[c] \in todo[c]
       /\ saved[c].seqs = seqs[c] /\ Paired(saved[c].data, seqs[c])
       /\ data[c] \subseteq leafData \cup saved[c].data \cup {leaf(c, cur[c]).id}
       /\ saved[c].data \subseteq data[c]
       /\ leaf(c, cur[c]).id \in leafData \cup data[c]
  /\ todo[c] \subseteq DOMAIN batch[c]

\* A leaf whose status is OK has its row, or is about to get it.
StatusOK(c) ==
  pc[c] \in {"data", "sequence"} =>
    \A p \in DOMAIN batch[c] :
      status[c][p] = "ok" => RowOf(c, p) \in seqs[c] \/ (pc[c] = "sequence" /\ p = cur[c])

\* The rows a call has inserted are the only ones of their index.
KeysOK(c) ==
  /\ \A r \in seqs[c] : r.idx \notin DOMAIN sequenced
  /\ \A r, q \in seqs[c] : r.idx = q.idx => r = q

KeysApart(c, d) == c # d => \A r \in seqs[c], q \in seqs[d] : r.idx # q.idx

\* What a signer holds are the committed rows that follow the root it began from.
SignerOK(s) ==
  /\ spc[s] # "store" => got[s] = <<>>
  /\ \A k \in DOMAIN got[s] :
       /\ Len(sroot[s]) + k - 1 \in DOMAIN sequenced
       /\ sequenced[Len(sroot[s]) + k - 1] = got[s][k]

TypeOK == TablesType /\ AddersType /\ SignersType

CallsOK ==
  /\ \A c \in Adders : RowsOK(c) /\ StatusOK(c) /\ KeysOK(c)
  /\ \A c, d \in Adders : KeysApart(c, d)

IInv ==
  /\ TypeOK
  /\ CallsOK
  /\ \A s \in Signers : SignerOK(s)
  /\ AckedAreStored /\ NoSideEffects /\ RootIsPrefix

-----------------------------------------------------------------------------
(* Lemmas about the operators *)

\* A non-empty set of naturals has a least element.
LEMMA NatLeast ==
  ASSUME NEW T \in SUBSET Nat, T # {}
  PROVE  \E n \in T : \A m \in T : n <= m
<1> DEFINE R == {ss \in Nat \X Nat : ss[1] < ss[2]}
<1>1. IsWellFoundedOn(R, Nat)
  BY NatLessThanWellFounded, Zenon DEF OpToRel
<1> HIDE DEF R
<1>2. PICK n \in T : \A m \in T : ~(<<m, n>> \in R)
  BY <1>1, WFMin, Zenon
<1>3. ASSUME NEW m \in T PROVE n <= m
  <2>1. m < n => <<m, n>> \in R
    BY Zenon DEF R
  <2>2. ~(m < n)
    BY <1>2, <2>1, Zenon
  <2>3. QED
    BY <2>2
<1>4. QED
  BY <1>3

\* GetLeavesByRange returns a sequence, whose k-th member is the row of index
\* start + k - 1.
LEMMA LeavesByRange ==
  ASSUME TablesType, NEW start \in Nat
  PROVE  /\ GetLeavesByRange(start, Limit) \in Seq(Nat)
         /\ \A k \in DOMAIN GetLeavesByRange(start, Limit) :
              /\ start + k - 1 \in DOMAIN sequenced
              /\ sequenced[start + k - 1] = GetLeavesByRange(start, Limit)[k]
<1> DEFINE rows == RowsInRange(start, Limit)
           good == {k \in 1 .. Limit : \A j \in 1 .. k : start + j - 1 \in rows}
           bad == {k \in 1 .. Limit + 1 : k \notin good}
           g == GetLeavesByRange(start, Limit)
<1>1. g = [k \in good |-> sequenced[start + k - 1]]
  BY Zenon DEF GetLeavesByRange
<1>2. bad \in SUBSET Nat /\ Limit + 1 \in bad
  BY LimitAssumption
<1>3. PICK n \in bad : \A m \in bad : n <= m
  BY <1>2, NatLeast, Zenon
<1>4. n \in 1 .. Limit + 1 /\ n \notin good
  BY <1>3, Zenon
<1>5. good \subseteq 1 .. Limit /\ \A k \in good : \A j \in 1 .. k : j \in good
  BY LimitAssumption
<1>6. ASSUME NEW k \in good
      PROVE start + k - 1 \in DOMAIN sequenced /\ sequenced[start + k - 1] \in Nat
  <2>1. start + k - 1 \in rows
    BY LimitAssumption
  <2>2. QED
    BY <2>1, Zenon DEF RowsInRange, TablesType
<1>7. ASSUME NEW k \in 1 .. n - 1 PROVE k \in good
  <2>1. k \in 1 .. Limit + 1 /\ ~(n <= k)
    BY <1>4, LimitAssumption
  <2>2. QED
    BY <1>3, <2>1, Zenon
<1> HIDE DEF good, bad, g
<1>8. ASSUME NEW k \in good PROVE k \in 1 .. n - 1
  <2>1. k \in 1 .. Limit /\ n \notin 1 .. k
    BY <1>4, <1>5, Zenon
  <2>2. QED
    BY <1>4, <2>1, LimitAssumption
<1>9. good = 1 .. n - 1
  BY <1>7, <1>8, Zenon
<1>10. g \in Seq(Nat)
  <2>1. n - 1 \in Nat
    BY <1>4, LimitAssumption
  <2>2. g \in [1 .. n - 1 -> Nat]
    BY <1>1, <1>6, <1>9, Zenon
  <2>3. QED
    BY <2>1, <2>2
<1>11. QED
  BY <1>1, <1>6, <1>10, Zenon DEF g
-----------------------------------------------------------------------------
(* The calls *)

\* Nothing is open in the initial state.
LEMMA InitIInv == Init => IInv
<1> SUFFICES ASSUME Init PROVE IInv
  OBVIOUS
<1>1. TablesType /\ AckedAreStored /\ NoSideEffects /\ RootIsPrefix
  BY DEF Init, TablesType, AckedAreStored, NoSideEffects, RootIsPrefix, Range
<1>2. AddersType /\ SignersType
  BY DEF Init, AddersType, SignersType, Pcs
<1>3. CallsOK
  BY DEF Init, CallsOK, RowsOK, StatusOK, KeysOK, KeysApart
<1>4. \A s \in Signers : SignerOK(s)
  BY DEF Init, SignerOK
<1>5. QED
  BY <1>1, <1>2, <1>3, <1>4, Zenon DEF IInv, TypeOK

\* A step leaves the call d alone.
SameCall(d) ==
  /\ pc'[d] = pc[d] /\ batch'[d] = batch[d] /\ todo'[d] = todo[d] /\ cur'[d] = cur[d]
  /\ data'[d] = data[d] /\ seqs'[d] = seqs[d] /\ saved'[d] = saved[d] /\ status'[d] = status[d]

\* What holds of a call holds on while the tables only get rows of other keys.
LEMMA CallFrame ==
  ASSUME CallsOK, NEW d \in Adders, SameCall(d), leafData \subseteq leafData'
  PROVE  RowsOK(d)' /\ StatusOK(d)'
<1>1. RowsOK(d) /\ StatusOK(d)
  BY Zenon DEF CallsOK
<1>2. RowsOK(d)'
  BY <1>1, Zenon DEF RowsOK, SameCall, Paired, leaf
<1>3. StatusOK(d)'
  BY <1>1, Zenon DEF StatusOK, SameCall, RowOf, leaf
<1>4. QED
  BY <1>2, <1>3, Zenon

\* A step of c that leaves the tables and the signers alone, when the keys of c
\* are still its own.
LEMMA LocalStep ==
  ASSUME IInv, NEW c \in Adders, UNCHANGED <<tables, svars>>,
         \A d \in Adders \ {c} : SameCall(d),
         AddersType', RowsOK(c)', StatusOK(c)', KeysOK(c)',
         \A d \in Adders \ {c} : \A r \in seqs'[c], q \in seqs[d] : r.idx # q.idx
  PROVE  IInv'
<1>1. TypeOK'
  BY Zenon DEF IInv, TypeOK, TablesType, SignersType, tables, svars
<1>2. AckedAreStored' /\ NoSideEffects' /\ RootIsPrefix' /\ \A s \in Signers : SignerOK(s)'
  BY Zenon DEF IInv, AckedAreStored, NoSideEffects, RootIsPrefix, SignerOK, tables, svars
<1>3. ASSUME NEW d \in Adders PROVE RowsOK(d)' /\ StatusOK(d)' /\ KeysOK(d)'
  <2>1. CASE d = c
    BY <2>1, Zenon
  <2>2. CASE d # c
    <3>1. SameCall(d) /\ leafData \subseteq leafData'
      BY <2>2, Zenon DEF tables
    <3>2. KeysOK(d)'
      BY <3>1, Zenon DEF IInv, CallsOK, KeysOK, SameCall, tables
    <3>3. QED
      BY <3>1, <3>2, CallFrame, Zenon DEF IInv
  <2>3. QED
    BY <2>1, <2>2, Zenon
<1>4. ASSUME NEW d \in Adders, NEW e \in Adders PROVE KeysApart(d, e)'
  <2>1. CASE d = c
    BY <2>1, Zenon DEF KeysApart, SameCall
  <2>2. CASE e = c
    BY <2>2, Zenon DEF KeysApart, SameCall
  <2>3. CASE d # c /\ e # c
    <3>1. KeysApart(d, e) /\ seqs'[d] = seqs[d] /\ seqs'[e] = seqs[e]
      BY <2>3, Zenon DEF SameCall, IInv, CallsOK
    <3>2. QED
      BY <3>1, Zenon DEF KeysApart
  <2>4. QED
    BY <2>1, <2>2, <2>3, Zenon
<1>5. QED
  BY <1>1, <1>2, <1>3, <1>4, Zenon DEF IInv, CallsOK

\* The same when c has no more rows than before.
LEMMA LocalStepNoRow ==
  ASSUME IInv, NEW c \in Adders, UNCHANGED <<tables, svars>>,
         \A d \in Adders \ {c} : SameCall(d),
         AddersType', RowsOK(c)', StatusOK(c)', seqs'[c] \subseteq seqs[c]
  PROVE  IInv'
<1>1. KeysOK(c)'
  BY Zenon DEF IInv, CallsOK, KeysOK, tables
<1>2. \A d \in Adders \ {c} : \A r \in seqs'[c], q \in seqs[d] : r.idx # q.idx
  BY Zenon DEF IInv, CallsOK, KeysApart
<1>3. QED
  BY <1>1, <1>2, LocalStep, Zenon

\* AddSequencedLeaves begins a transaction without rows.
LEMMA AddSequencedLeavesIInv ==
  ASSUME IInv, NEW c \in Adders, NEW b \in Batches, AddSequencedLeaves(c, b)
  PROVE  IInv'
<1>1. /\ UNCHANGED <<tables, svars>> /\ \A d \in Adders \ {c} : SameCall(d)
      /\ seqs' = seqs /\ data' = data
      /\ pc'[c] = "data" /\ batch'[c] = b /\ todo'[c] = DOMAIN b
      /\ status'[c] = [p \in DOMAIN b |-> "none"] /\ pc[c] = "idle"
  BY Zenon DEF IInv, TypeOK, AddersType, AddSequencedLeaves, SameCall
<1>2. b \in Seq(Leaf) /\ DOMAIN b \subseteq Nat
  BY BatchesAssumption
<1>3. AddersType'
  BY <1>2 DEF IInv, TypeOK, AddersType, AddSequencedLeaves, Pcs
<1>4. RowsOK(c)' /\ StatusOK(c)'
  BY <1>1, Zenon DEF IInv, CallsOK, RowsOK, StatusOK, Paired, Ids
<1>5. QED
  BY <1>1, <1>3, <1>4, LocalStepNoRow, Zenon

\* A leaf with a bad hash: the call returns and keeps its rows.
LEMMA BadHashIInv ==
  ASSUME IInv, NEW c \in Adders, BadHash(c)
  PROVE  IInv'
<1>1. /\ UNCHANGED <<tables, svars>> /\ \A d \in Adders \ {c} : SameCall(d)
      /\ pc'[c] = "returned" /\ todo'[c] = todo[c] /\ batch'[c] = batch[c] /\ seqs'[c] = seqs[c]
  BY Zenon DEF IInv, TypeOK, AddersType, BadHash, SameCall
<1>2. AddersType'
  BY Zenon DEF IInv, TypeOK, AddersType, BadHash, Pcs
<1>3. RowsOK(c)' /\ StatusOK(c)'
  BY <1>1, Zenon DEF IInv, CallsOK, RowsOK, StatusOK
<1>4. QED
  BY <1>1, <1>2, <1>3, LocalStepNoRow, Zenon

\* The end of a transaction that commits nothing.
LEMMA AbortIInv ==
  ASSUME IInv, NEW c \in Adders, NEW at \in {"idle", "returned"}, Abort(c, at)
  PROVE  IInv'
<1>1. /\ UNCHANGED <<tables, svars>> /\ \A d \in Adders \ {c} : SameCall(d)
      /\ pc'[c] = at /\ todo'[c] = {} /\ batch'[c] = <<>> /\ seqs'[c] = {} /\ data'[c] = {}
  BY Zenon DEF IInv, TypeOK, AddersType, Abort, End, SameCall
<1>2. AddersType'
  BY DEF IInv, TypeOK, AddersType, Abort, End, Pcs
<1>3. RowsOK(c)' /\ StatusOK(c)'
  BY <1>1, Zenon DEF RowsOK, StatusOK
<1>4. QED
  BY <1>1, <1>2, <1>3, LocalStepNoRow, Zenon

\* The position InsertLeafData takes is one of the batch.
LEMMA InOrderLeaf ==
  ASSUME IInv, NEW c \in Adders, NEW p \in InOrder(c)
  PROVE  p \in todo[c] /\ p \in DOMAIN batch[c] /\ p \in Nat /\ leaf(c, p) \in Leaf
<1>1. p \in todo[c] /\ p \in DOMAIN batch[c]
  BY Zenon DEF IInv, CallsOK, RowsOK, InOrder
<1>2. QED
  BY <1>1 DEF IInv, TypeOK, AddersType, leaf

\* The first insert of a leaf, after its savepoint.
LEMMA InsertLeafDataIInv ==
  ASSUME IInv, NEW c \in Adders, InsertLeafData(c)
  PROVE  IInv'
<1>1. PICK p \in InOrder(c) :
        /\ data' = [data EXCEPT ![c] = @ \cup ({leaf(c, p).id} \ leafData)]
        /\ status' = [status EXCEPT ![c][p] = "ok"]
        /\ cur' = [cur EXCEPT ![c] = p]
  BY Zenon DEF InsertLeafData
<1>2. p \in todo[c] /\ p \in DOMAIN batch[c] /\ p \in Nat /\ leaf(c, p).id \in Nat
  BY InOrderLeaf, Zenon DEF Leaf
<1>3. /\ UNCHANGED <<tables, svars>> /\ \A d \in Adders \ {c} : SameCall(d)
      /\ pc[c] = "data" /\ pc'[c] = "sequence"
      /\ todo' = todo /\ batch' = batch /\ seqs' = seqs /\ cur'[c] = p
      /\ data'[c] = data[c] \cup ({leaf(c, p).id} \ leafData)
      /\ saved'[c] = [data |-> data[c], seqs |-> seqs[c]]
      /\ status'[c] = [status[c] EXCEPT ![p] = "ok"]
  BY <1>1, Zenon DEF IInv, TypeOK, AddersType, InsertLeafData, SameCall
<1>4. AddersType'
  <2>1. /\ pc' \in [Adders -> Pcs] /\ cur' \in [Adders -> Nat]
        /\ data' \in [Adders -> SUBSET Nat]
        /\ saved' \in [Adders -> [data : SUBSET Nat, seqs : SUBSET Row]]
    BY <1>1, <1>2 DEF IInv, TypeOK, AddersType, InsertLeafData, Pcs
  <2>2. DOMAIN status' = Adders
    BY <1>1, Zenon DEF IInv, TypeOK, AddersType
  <2>3. ASSUME NEW d \in Adders
        PROVE  status'[d] \in [DOMAIN batch'[d] -> {"none", "ok", "conflict"}]
    <3>1. status[d] \in [DOMAIN batch[d] -> {"none", "ok", "conflict"}] /\ batch'[d] = batch[d]
      BY <1>3, Zenon DEF IInv, TypeOK, AddersType
    <3>2. status'[d] = status[d] \/ status'[d] = [status[d] EXCEPT ![p] = "ok"]
      BY <1>3, Zenon DEF SameCall
    <3>3. QED
      BY <3>1, <3>2
  <2>4. QED
    BY <1>3, <2>1, <2>2, <2>3, Zenon DEF IInv, TypeOK, AddersType
<1>5. RowsOK(c)'
  <2>1. Paired(data[c], seqs[c]) /\ todo[c] \subseteq DOMAIN batch[c]
    BY <1>3, Zenon DEF IInv, CallsOK, RowsOK
  <2>2. saved'[c].data = data[c] /\ saved'[c].seqs = seqs[c] /\ leaf(c, cur[c])' = leaf(c, p)
    BY <1>3 DEF leaf
  <2>3. Paired(saved[c].data, seqs[c])'
    BY <1>3, <2>1, <2>2, Zenon DEF Paired, tables
  <2>4. /\ data'[c] \subseteq leafData \cup data[c] \cup {leaf(c, p).id}
        /\ data[c] \subseteq data'[c] /\ leaf(c, p).id \in leafData \cup data'[c]
    BY <1>3, Zenon
  <2>5. leafData' = leafData
    BY <1>3, Zenon DEF tables
  <2>6. QED
    BY <1>2, <1>3, <2>1, <2>2, <2>3, <2>4, <2>5, Zenon DEF RowsOK
<1>6. StatusOK(c)'
  <2>1. \A q \in DOMAIN batch[c] : status'[c][q] = "ok" => q = p \/ status[c][q] = "ok"
    BY <1>3, Zenon DEF IInv, TypeOK, AddersType
  <2>2. QED
    BY <1>3, <2>1, Zenon DEF IInv, CallsOK, StatusOK, RowOf, leaf
<1>7. QED
  BY <1>3, <1>4, <1>5, <1>6, LocalStepNoRow, Zenon

\* The second insert of a leaf, which makes its row or takes the first one back.
LEMMA InsertSequencedLeafIInv ==
  ASSUME IInv, NEW c \in Adders, InsertSequencedLeaf(c)
  PROVE  IInv'
<1> DEFINE p == cur[c]
           l == leaf(c, p)
<1>1. /\ UNCHANGED <<tables, svars>> /\ \A d \in Adders \ {c} : SameCall(d)
      /\ pc[c] = "sequence" /\ pc'[c] = "data"
      /\ todo'[c] = todo[c] \ {p} /\ batch' = batch /\ cur' = cur /\ saved' = saved
      /\ \A d \in Adders \ {c} : \A r \in seqs[d] : r.idx # l.idx
  BY Zenon DEF IInv, TypeOK, AddersType, InsertSequencedLeaf, SameCall, Holders
<1>2. p \in todo[c] /\ p \in DOMAIN batch[c] /\ l \in Leaf
  <2>1. p \in todo[c] /\ p \in DOMAIN batch[c]
    BY <1>1, Zenon DEF IInv, CallsOK, RowsOK
  <2>2. QED
    BY <2>1 DEF IInv, TypeOK, AddersType, leaf
<1>3. /\ RowOf(c, p) = [idx |-> l.idx, id |-> l.id] /\ RowOf(c, p) \in Row
      /\ RowOf(c, p).idx = l.idx /\ RowOf(c, p).id = l.id
  BY <1>2, Zenon DEF Leaf, RowOf, Row
<1>4. pc' \in [Adders -> Pcs] /\ todo' \in [Adders -> SUBSET Nat]
  BY Zenon DEF IInv, TypeOK, AddersType, InsertSequencedLeaf, Pcs
<1>5. CASE Taken(c, l.idx)
  <2>1. /\ status' = [status EXCEPT ![c][p] = "conflict"]
        /\ data' = [data EXCEPT ![c] = saved[c].data]
        /\ seqs' = [seqs EXCEPT ![c] = saved[c].seqs]
    BY <1>5, Zenon DEF InsertSequencedLeaf
  <2>2. status'[c] = [status[c] EXCEPT ![p] = "conflict"] /\ data'[c] = saved[c].data
        /\ seqs'[c] = seqs[c]
    BY <1>1, <2>1, Zenon DEF IInv, TypeOK, AddersType, CallsOK, RowsOK
  <2>3. AddersType'
    <3>1. data' \in [Adders -> SUBSET Nat] /\ seqs' \in [Adders -> SUBSET Row]
      BY <2>1, Zenon DEF IInv, TypeOK, AddersType
    <3>2. DOMAIN status' = Adders
      BY <2>1, Zenon DEF IInv, TypeOK, AddersType
    <3>3. ASSUME NEW d \in Adders
          PROVE  status'[d] \in [DOMAIN batch'[d] -> {"none", "ok", "conflict"}]
      <4>1. status[d] \in [DOMAIN batch[d] -> {"none", "ok", "conflict"}] /\ batch'[d] = batch[d]
        BY <1>1, Zenon DEF IInv, TypeOK, AddersType
      <4>2. status'[d] = status[d] \/ status'[d] = [status[d] EXCEPT ![p] = "conflict"]
        BY <1>1, <2>2, Zenon DEF SameCall
      <4>3. QED
        BY <4>1, <4>2
    <3>4. QED
      BY <1>1, <1>4, <3>1, <3>2, <3>3, Zenon DEF IInv, TypeOK, AddersType
  <2>4. RowsOK(c)'
    BY <1>1, <2>2, Zenon DEF IInv, CallsOK, RowsOK, Paired, tables
  <2>5. StatusOK(c)'
    <3>1. \A q \in DOMAIN batch[c] : status'[c][q] = "ok" => q # p /\ status[c][q] = "ok"
      BY <2>2, Zenon DEF IInv, TypeOK, AddersType
    <3>2. QED
      BY <1>1, <2>2, <3>1, Zenon DEF IInv, CallsOK, StatusOK, RowOf, leaf
  <2>6. QED
    BY <1>1, <2>2, <2>3, <2>4, <2>5, LocalStepNoRow, Zenon
<1>6. CASE ~Taken(c, l.idx)
  <2>1. seqs' = [seqs EXCEPT ![c] = @ \cup {RowOf(c, p)}] /\ status' = status /\ data' = data
    BY <1>3, <1>6, Zenon DEF InsertSequencedLeaf
  <2>2. seqs'[c] = seqs[c] \cup {RowOf(c, p)}
    BY <2>1, Zenon DEF IInv, TypeOK, AddersType
  <2>3. AddersType'
    <3>1. seqs' \in [Adders -> SUBSET Row]
      BY <1>3, <2>1, Zenon DEF IInv, TypeOK, AddersType
    <3>2. QED
      BY <1>1, <1>4, <2>1, <3>1, Zenon DEF IInv, TypeOK, AddersType
  <2>4. RowsOK(c)'
    <3>1. Ids(seqs'[c]) = Ids(seqs[c]) \cup {l.id}
      BY <1>3, <2>2 DEF Ids
    <3>2. /\ Paired(saved[c].data, seqs[c]) /\ saved[c].data \subseteq data[c]
          /\ data[c] \subseteq leafData \cup saved[c].data \cup {l.id}
          /\ l.id \in leafData \cup data[c] /\ todo[c] \subseteq DOMAIN batch[c]
      BY <1>1, Zenon DEF IInv, CallsOK, RowsOK
    <3>3. Paired(data[c], seqs[c])'
      BY <1>1, <2>1, <3>1, <3>2, Zenon DEF Paired, tables
    <3>4. QED
      BY <1>1, <3>2, <3>3, Zenon DEF RowsOK
  <2>5. StatusOK(c)'
    BY <1>1, <2>1, <2>2, Zenon DEF IInv, CallsOK, StatusOK, RowOf, leaf
  <2>6. KeysOK(c)'
    <3>1. l.idx \notin DOMAIN sequenced /\ \A r \in seqs[c] : r.idx # l.idx
      BY <1>6, Zenon DEF Taken
    <3>2. QED
      BY <1>1, <1>3, <2>2, <3>1, Zenon DEF IInv, CallsOK, KeysOK, tables
  <2>7. \A d \in Adders \ {c} : \A r \in seqs'[c], q \in seqs[d] : r.idx # q.idx
    <3>1. ASSUME NEW d \in Adders \ {c}, NEW r \in seqs'[c], NEW q \in seqs[d] PROVE r.idx # q.idx
      <4>1. KeysApart(c, d) /\ c # d
        BY <1>1, <3>1, Zenon DEF IInv, CallsOK
      <4>2. CASE r \in seqs[c]
        BY <3>1, <4>1, <4>2, Zenon DEF KeysApart
      <4>3. CASE r = RowOf(c, p)
        BY <1>1, <1>3, <3>1, <4>3, Zenon DEF IInv, CallsOK, KeysApart
      <4>4. QED
        BY <2>2, <3>1, <4>2, <4>3, Zenon
    <3>2. QED
      BY <3>1, Zenon
  <2>8. QED
    BY <1>1, <2>3, <2>4, <2>5, <2>6, <2>7, LocalStep, Zenon
<1>7. QED
  BY <1>5, <1>6, Zenon
-----------------------------------------------------------------------------
(* Commit *)

\* A committed row stays as it is.
RowsKept ==
  /\ leafData \subseteq leafData'
  /\ \A i \in DOMAIN sequenced : i \in DOMAIN sequenced' /\ sequenced'[i] = sequenced[i]

\* The tables after a commit: the old rows and those of the transaction.
LEMMA CommitTables ==
  ASSUME IInv, NEW c \in Adders, Commit(c)
  PROVE  /\ RowsKept /\ leafData' = leafData \cup data[c]
         /\ \A r \in seqs[c] : r.idx \in DOMAIN sequenced' /\ sequenced'[r.idx] = r.id
         /\ \A i \in DOMAIN sequenced' : i \in DOMAIN sequenced \/ \E r \in seqs[c] : r.idx = i
<1> DEFINE new == DOMAIN sequenced \cup {r.idx : r \in seqs[c]}
           val(i) == IF i \in DOMAIN sequenced THEN sequenced[i]
                     ELSE (CHOOSE r \in seqs[c] : r.idx = i).id
<1>1. leafData' = leafData \cup data[c] /\ sequenced' = [i \in new |-> val(i)]
  BY Zenon DEF Commit
<1>2. ASSUME NEW r \in seqs[c] PROVE r.idx \in DOMAIN sequenced' /\ sequenced'[r.idx] = r.id
  <2>1. r.idx \notin DOMAIN sequenced /\ \A q \in seqs[c] : q.idx = r.idx => q = r
    BY Zenon DEF IInv, CallsOK, KeysOK
  <2>2. (CHOOSE q \in seqs[c] : q.idx = r.idx) = r
    BY <2>1
  <2>3. r.idx \in new /\ val(r.idx) = r.id
    BY <2>1, <2>2, Zenon
  <2> HIDE DEF new, val
  <2>4. QED
    BY <1>1, <2>3, Zenon
<1>3. \A i \in DOMAIN sequenced : i \in new /\ val(i) = sequenced[i]
  BY Zenon
<1> HIDE DEF val
<1>4. RowsKept
  BY <1>1, <1>3, Zenon DEF RowsKept
<1>5. \A i \in DOMAIN sequenced' : i \in DOMAIN sequenced \/ \E r \in seqs[c] : r.idx = i
  BY <1>1, Zenon
<1>6. QED
  BY <1>1, <1>2, <1>4, <1>5, Zenon

\* While rows are only added the root and the signers stay right.
LEMMA SigningFrame ==
  ASSUME IInv, RowsKept, UNCHANGED <<root, svars>>
  PROVE  SignersType' /\ RootIsPrefix' /\ \A s \in Signers : SignerOK(s)'
<1>1. RootIsPrefix'
  BY Zenon DEF IInv, RootIsPrefix, RowsKept
<1>2. ASSUME NEW s \in Signers PROVE SignerOK(s)'
  <2>1. SignerOK(s)
    BY Zenon DEF IInv
  <2>2. QED
    BY <2>1, Zenon DEF SignerOK, RowsKept, svars
<1>3. SignersType'
  BY Zenon DEF IInv, TypeOK, SignersType, svars
<1>4. QED
  BY <1>1, <1>2, <1>3, Zenon

\* Commit makes the rows of a call and its acknowledgements visible together.
LEMMA CommitIInv ==
  ASSUME IInv, NEW c \in Adders, Commit(c)
  PROVE  IInv'
<1>1. /\ UNCHANGED <<root, svars>> /\ \A d \in Adders \ {c} : SameCall(d)
      /\ pc[c] = "data" /\ pc'[c] = "idle" /\ todo'[c] = {} /\ batch'[c] = <<>>
      /\ seqs'[c] = {} /\ data'[c] = {}
      /\ acked' = acked \cup {RowOf(c, p) : p \in {q \in DOMAIN batch[c] : status[c][q] = "ok"}}
  BY Zenon DEF IInv, TypeOK, AddersType, Commit, Finished, End, SameCall, RowOf
<1>2. /\ RowsKept /\ leafData' = leafData \cup data[c]
      /\ \A r \in seqs[c] : r.idx \in DOMAIN sequenced' /\ sequenced'[r.idx] = r.id
      /\ \A i \in DOMAIN sequenced' : i \in DOMAIN sequenced \/ \E r \in seqs[c] : r.idx = i
  BY CommitTables, Zenon
<1>3. /\ Paired(data[c], seqs[c]) /\ seqs[c] \subseteq Row /\ data[c] \subseteq Nat
      /\ \A p \in DOMAIN batch[c] : status[c][p] = "ok" => RowOf(c, p) \in seqs[c]
  BY <1>1, Zenon DEF IInv, CallsOK, RowsOK, StatusOK, TypeOK, AddersType
<1>4. \A r \in seqs[c] : r.idx \in Nat /\ r.id \in Nat
  BY <1>3, Zenon DEF Row
<1>5. AddersType'
  BY DEF IInv, TypeOK, AddersType, Commit, End, Pcs
<1>6. TablesType'
  <2>1. leafData' \subseteq Nat /\ acked' \subseteq Row /\ root' \in Seq(Nat)
    BY <1>1, <1>3, <1>2, Zenon DEF IInv, TypeOK, TablesType
  <2>2. ASSUME NEW i \in DOMAIN sequenced' PROVE i \in Nat /\ sequenced'[i] \in Nat
    <3>1. CASE i \in DOMAIN sequenced
      BY <3>1, <1>2, Zenon DEF IInv, TypeOK, TablesType, RowsKept
    <3>2. CASE i \notin DOMAIN sequenced
      BY <1>4, <3>2, <1>2, Zenon
    <3>3. QED
      BY <3>1, <3>2, Zenon
  <2>3. QED
    BY <2>1, <2>2, Zenon DEF TablesType
<1>7. ASSUME NEW d \in Adders PROVE RowsOK(d)' /\ StatusOK(d)' /\ KeysOK(d)'
  <2>1. CASE d = c
    BY <1>1, <2>1, Zenon DEF RowsOK, StatusOK, KeysOK
  <2>2. CASE d # c
    <3>1. SameCall(d) /\ leafData \subseteq leafData'
      BY <1>1, <2>2, <1>2, Zenon DEF RowsKept
    <3>2. KeysApart(c, d) /\ KeysOK(d)
      BY Zenon DEF IInv, CallsOK
    <3>3. KeysOK(d)'
      <4>1. ASSUME NEW r \in seqs[d] PROVE r.idx \notin DOMAIN sequenced'
        <5>1. r.idx \notin DOMAIN sequenced /\ \A q \in seqs[c] : q.idx # r.idx
          BY <2>2, <3>2, Zenon DEF KeysOK, KeysApart
        <5>2. QED
          BY <1>2, <5>1, Zenon
      <4>2. QED
        BY <3>1, <3>2, <4>1, Zenon DEF KeysOK, SameCall
    <3>4. QED
      BY <3>1, <3>3, CallFrame, Zenon DEF IInv
  <2>3. QED
    BY <2>1, <2>2, Zenon
<1>8. ASSUME NEW d \in Adders, NEW e \in Adders PROVE KeysApart(d, e)'
  <2>1. KeysApart(d, e) /\ seqs'[d] \subseteq seqs[d] /\ seqs'[e] \subseteq seqs[e]
    BY <1>1, Zenon DEF SameCall, IInv, CallsOK
  <2>2. QED
    BY <2>1, Zenon DEF KeysApart
<1>9. AckedAreStored'
  <2>1. ASSUME NEW l \in acked'
        PROVE  l.idx \in DOMAIN sequenced' /\ sequenced'[l.idx] = l.id /\ l.id \in leafData'
    <3>1. CASE l \in acked
      BY <3>1, <1>2, Zenon DEF IInv, AckedAreStored, RowsKept
    <3>2. CASE l \in seqs[c]
      <4>1. l.id \in Ids(seqs[c])
        BY <3>2, Zenon DEF Ids
      <4>2. QED
        BY <1>3, <3>2, <4>1, <1>2, Zenon DEF Paired
    <3>3. QED
      BY <1>1, <1>3, <3>1, <3>2, Zenon
  <2>2. QED
    BY <2>1, Zenon DEF AckedAreStored
<1>10. NoSideEffects'
  <2>1. leafData = {sequenced[i] : i \in DOMAIN sequenced}
    BY Zenon DEF IInv, NoSideEffects, Range
  <2>2. ASSUME NEW x \in leafData' PROVE x \in {sequenced'[i] : i \in DOMAIN sequenced'}
    <3>1. CASE x \in leafData
      <4>1. PICK i \in DOMAIN sequenced : x = sequenced[i]
        BY <2>1, <3>1, Zenon
      <4>2. i \in DOMAIN sequenced' /\ sequenced'[i] = x
        BY <4>1, <1>2, Zenon DEF RowsKept
      <4>3. QED
        BY <4>2, Zenon
    <3>2. CASE x \in Ids(seqs[c])
      BY <3>2, <1>2, Zenon DEF Ids
    <3>3. QED
      BY <1>3, <3>1, <3>2, <1>2, Zenon DEF Paired
  <2>3. ASSUME NEW i \in DOMAIN sequenced' PROVE sequenced'[i] \in leafData'
    <3>1. CASE i \in DOMAIN sequenced
      BY <2>1, <3>1, <1>2, Zenon DEF RowsKept
    <3>2. CASE i \notin DOMAIN sequenced
      <4>1. PICK r \in seqs[c] : r.idx = i
        BY <3>2, <1>2, Zenon
      <4>2. r.id \in Ids(seqs[c])
        BY Zenon DEF Ids
      <4>3. QED
        BY <1>3, <4>1, <4>2, <1>2, Zenon DEF Paired
    <3>3. QED
      BY <3>1, <3>2, Zenon
  <2>4. QED
    BY <2>2, <2>3, Zenon DEF NoSideEffects, Range
<1>11. QED
  BY <1>1, <1>5, <1>6, <1>7, <1>8, <1>9, <1>10, <1>2, SigningFrame, Zenon DEF IInv, TypeOK, CallsOK

-----------------------------------------------------------------------------
(* Signing *)

\* A step that leaves the calls and their tables alone.
LEMMA SigningStep ==
  ASSUME IInv, UNCHANGED <<leafData, sequenced, acked, avars>>, SignersType',
         root' \in Seq(Nat), RootIsPrefix', \A s \in Signers : SignerOK(s)'
  PROVE  IInv'
<1>1. TypeOK'
  BY Zenon DEF IInv, TypeOK, TablesType, AddersType, avars
<1>2. AckedAreStored' /\ NoSideEffects'
  BY Zenon DEF IInv, AckedAreStored, NoSideEffects
<1>3. ASSUME NEW c \in Adders PROVE RowsOK(c)' /\ StatusOK(c)' /\ KeysOK(c)'
  <2>1. SameCall(c) /\ leafData \subseteq leafData'
    BY Zenon DEF SameCall, avars
  <2>2. KeysOK(c)'
    BY Zenon DEF IInv, CallsOK, KeysOK, avars
  <2>3. QED
    BY <2>1, <2>2, CallFrame, Zenon DEF IInv
<1>4. ASSUME NEW c \in Adders, NEW d \in Adders PROVE KeysApart(c, d)'
  BY Zenon DEF IInv, CallsOK, KeysApart, avars
<1>5. QED
  BY <1>1, <1>2, <1>3, <1>4, Zenon DEF IInv, CallsOK

\* A signer reads the root.
LEMMA BeginSignIInv ==
  ASSUME IInv, NEW s \in Signers, BeginSign(s)
  PROVE  IInv'
<1>1. UNCHANGED <<leafData, sequenced, acked, avars>> /\ root' = root /\ got' = got
  BY Zenon DEF BeginSign, tables
<1>2. SignersType' /\ root' \in Seq(Nat)
  BY <1>1, Zenon DEF IInv, TypeOK, TablesType, SignersType, BeginSign
<1>3. RootIsPrefix'
  BY <1>1, Zenon DEF IInv, RootIsPrefix
<1>4. ASSUME NEW x \in Signers PROVE SignerOK(x)'
  <2>1. CASE x = s
    <3>1. got'[x] = <<>>
      BY <1>1, <2>1, Zenon DEF IInv, SignerOK, BeginSign
    <3>2. QED
      BY <3>1 DEF SignerOK
  <2>2. CASE x # s
    <3>1. sroot'[x] = sroot[x] /\ spc'[x] = spc[x] /\ SignerOK(x)
      BY <2>2, Zenon DEF IInv, TypeOK, SignersType, BeginSign
    <3>2. QED
      BY <1>1, <3>1, Zenon DEF SignerOK
  <2>3. QED
    BY <2>1, <2>2, Zenon
<1>5. QED
  BY <1>1, <1>2, <1>3, <1>4, SigningStep, Zenon

\* A signer reads the rows that follow.
LEMMA DequeueLeavesIInv ==
  ASSUME IInv, NEW s \in Signers, DequeueLeaves(s)
  PROVE  IInv'
<1> DEFINE n == Len(sroot[s])
           leaves == GetLeavesByRange(n, Limit)
<1>1. /\ UNCHANGED <<leafData, sequenced, acked, avars>> /\ root' = root /\ sroot' = sroot
      /\ got' = [got EXCEPT ![s] = leaves]
  BY Zenon DEF DequeueLeaves, tables
<1>2. n \in Nat
  BY DEF IInv, TypeOK, SignersType
<1>3. /\ leaves \in Seq(Nat)
      /\ \A k \in DOMAIN leaves : n + k - 1 \in DOMAIN sequenced /\ sequenced[n + k - 1] = leaves[k]
  BY <1>2, LeavesByRange, Zenon DEF IInv, TypeOK
<1> HIDE DEF leaves
<1>4. SignersType' /\ root' \in Seq(Nat)
  BY <1>1, <1>3, Zenon DEF IInv, TypeOK, TablesType, SignersType, DequeueLeaves
<1>5. RootIsPrefix'
  BY <1>1, Zenon DEF IInv, RootIsPrefix
<1>6. ASSUME NEW x \in Signers PROVE SignerOK(x)'
  <2>1. CASE x = s
    <3>1. got'[x] = leaves /\ spc'[x] = "store"
      BY <1>1, <2>1, Zenon DEF IInv, TypeOK, SignersType, DequeueLeaves
    <3>2. QED
      BY <1>1, <1>3, <2>1, <3>1, Zenon DEF SignerOK
  <2>2. CASE x # s
    <3>1. got'[x] = got[x] /\ spc'[x] = spc[x] /\ SignerOK(x)
      BY <1>1, <2>2, Zenon DEF IInv, TypeOK, SignersType, DequeueLeaves
    <3>2. QED
      BY <1>1, <3>1, Zenon DEF SignerOK
  <2>3. QED
    BY <2>1, <2>2, Zenon
<1>7. QED
  BY <1>1, <1>4, <1>5, <1>6, SigningStep, Zenon

\* The new root covers the old one and what the signer holds.
LEMMA StoreSignedLogRootIInv ==
  ASSUME IInv, NEW s \in Signers, StoreSignedLogRoot(s)
  PROVE  IInv' /\ \A k \in DOMAIN root : k \in DOMAIN root' /\ root'[k] = root[k]
<1>1. UNCHANGED <<leafData, sequenced, acked, avars>>
  BY Zenon DEF StoreSignedLogRoot
<1>2. /\ root \in Seq(Nat) /\ got[s] \in Seq(Nat)
      /\ root' = root \/ (root' = root \o got[s] /\ sroot[s] = root)
  BY Zenon DEF IInv, TypeOK, TablesType, SignersType, StoreSignedLogRoot
<1>3. root' \in Seq(Nat) /\ \A k \in DOMAIN root : k \in DOMAIN root' /\ root'[k] = root[k]
  <2>1. CASE root' = root
    BY <1>2, <2>1, Zenon
  <2>2. CASE root' = root \o got[s]
    BY <1>2, <2>2
  <2>3. QED
    BY <1>2, <2>1, <2>2, Zenon
<1>4. RootIsPrefix'
  <2>1. ASSUME NEW k \in DOMAIN root'
        PROVE  k - 1 \in DOMAIN sequenced /\ sequenced[k - 1] = root'[k]
    <3>1. CASE k \in DOMAIN root
      BY <1>3, <3>1, Zenon DEF IInv, RootIsPrefix
    <3>2. CASE k \notin DOMAIN root
      <4>1. root' = root \o got[s] /\ sroot[s] = root
        BY <1>2, <3>2, Zenon
      <4>2. k - Len(root) \in DOMAIN got[s] /\ root'[k] = got[s][k - Len(root)]
            /\ Len(root) + (k - Len(root)) - 1 = k - 1
        BY <1>2, <3>2, <4>1
      <4>3. QED
        BY <4>1, <4>2, Zenon DEF IInv, SignerOK
    <3>3. QED
      BY <3>1, <3>2, Zenon
  <2>2. QED
    BY <1>1, <2>1, Zenon DEF RootIsPrefix
<1>5. SignersType'
  BY DEF IInv, TypeOK, SignersType, StoreSignedLogRoot
<1>6. ASSUME NEW x \in Signers PROVE SignerOK(x)'
  <2>1. CASE x = s
    <3>1. got'[x] = <<>>
      BY <2>1, Zenon DEF IInv, TypeOK, SignersType, StoreSignedLogRoot
    <3>2. QED
      BY <3>1 DEF SignerOK
  <2>2. CASE x # s
    <3>1. got'[x] = got[x] /\ sroot'[x] = sroot[x] /\ spc'[x] = spc[x] /\ SignerOK(x)
      BY <2>2, Zenon DEF IInv, TypeOK, SignersType, StoreSignedLogRoot
    <3>2. QED
      BY <1>1, <3>1, Zenon DEF SignerOK
  <2>3. QED
    BY <2>1, <2>2, Zenon
<1>7. QED
  BY <1>1, <1>3, <1>4, <1>5, <1>6, SigningStep, Zenon
-----------------------------------------------------------------------------
(* Theorems *)

\* The root is only ever extended.
RootKept == \A k \in DOMAIN root : k \in DOMAIN root' /\ root'[k] = root[k]

\* Every step keeps the invariant, the committed rows and the signed prefix.
LEMMA NextIInv == IInv /\ [Next]_vars => IInv' /\ RowsKept /\ RootKept
<1> SUFFICES ASSUME IInv, [Next]_vars PROVE IInv' /\ RowsKept /\ RootKept
  OBVIOUS
<1>1. CASE UNCHANGED vars
  <2>1. UNCHANGED <<leafData, sequenced, acked, root, avars, svars>>
    BY <1>1, Zenon DEF vars, tables
  <2>2. RowsKept /\ RootKept
    BY <2>1, Zenon DEF RowsKept, RootKept
  <2>3. root' \in Seq(Nat)
    BY <2>1, Zenon DEF IInv, TypeOK, TablesType
  <2>4. QED
    BY <2>1, <2>2, <2>3, SigningFrame, SigningStep, Zenon
<1>2. ASSUME NEW c \in Adders,
             \/ \E b \in Batches : AddSequencedLeaves(c, b)
             \/ Adding(c) \/ Fail(c) \/ CommitFails(c)
      PROVE  IInv' /\ RowsKept /\ RootKept
  <2>1. CASE Commit(c)
    <3>1. root' = root
      BY <2>1, Zenon DEF Commit
    <3>2. QED
      BY <2>1, <3>1, CommitTables, CommitIInv, Zenon DEF RootKept
  <2>2. CASE ~Commit(c)
    <3>1. UNCHANGED tables
      BY <1>2, <2>2, Zenon DEF AddSequencedLeaves, Adding, BadHash, InsertLeafData,
           InsertSequencedLeaf, Deadlock, ContextDone, Fail, CommitFails, Abort
    <3>2. RowsKept /\ RootKept
      BY <3>1, Zenon DEF RowsKept, RootKept, tables
    <3>3. \/ \E b \in Batches : AddSequencedLeaves(c, b)
          \/ BadHash(c) \/ InsertLeafData(c) \/ InsertSequencedLeaf(c)
          \/ \E at \in {"idle", "returned"} : Abort(c, at)
      BY <1>2, <2>2, Zenon DEF Adding, Deadlock, ContextDone, Fail, CommitFails
    <3>4. QED
      BY <3>2, <3>3, AddSequencedLeavesIInv, BadHashIInv, InsertLeafDataIInv,
         InsertSequencedLeafIInv, AbortIInv, Zenon
  <2>3. QED
    BY <2>1, <2>2, Zenon
<1>3. ASSUME NEW s \in Signers, Signing(s)
      PROVE  IInv' /\ RowsKept /\ RootKept
  <2>1. RowsKept
    BY <1>3, Zenon DEF Signing, BeginSign, DequeueLeaves, StoreSignedLogRoot, tables, RowsKept
  <2>2. CASE BeginSign(s)
    BY <2>1, <2>2, BeginSignIInv, Zenon DEF BeginSign, tables, RootKept
  <2>3. CASE DequeueLeaves(s)
    BY <2>1, <2>3, DequeueLeavesIInv, Zenon DEF DequeueLeaves, tables, RootKept
  <2>4. CASE StoreSignedLogRoot(s)
    BY <2>1, <2>4, StoreSignedLogRootIInv, Zenon DEF RootKept
  <2>5. QED
    BY <1>3, <2>2, <2>3, <2>4, Zenon DEF Signing
<1>4. QED
  BY <1>1, <1>2, <1>3, Zenon DEF Next

\* The invariant holds in every reachable state.
THEOREM Invariance == Spec => []IInv
<1>1. QED
  BY InitIInv, NextIInv, PTL DEF Spec

\* A leaf that AddSequencedLeaves reported OK is in both tables at the index it
\* asked for.
THEOREM AcknowledgedIsStored == Spec => []AckedAreStored
<1>1. IInv => AckedAreStored
  BY Zenon DEF IInv
<1>2. QED
  BY <1>1, Invariance, PTL

\* Whatever conflicts or fails, leaf_data holds exactly the sequenced leaves.
THEOREM ConflictsLeaveNothing == Spec => []NoSideEffects
<1>1. IInv => NoSideEffects
  BY Zenon DEF IInv
<1>2. QED
  BY <1>1, Invariance, PTL

\* The signed root covers the leaves of the indices from 0 on, without a gap.
THEOREM RootCoversPrefix == Spec => []RootIsPrefix
<1>1. IInv => RootIsPrefix
  BY Zenon DEF IInv
<1>2. QED
  BY <1>1, Invariance, PTL

\* No step of a call or of a signer takes a committed row back or changes what a
\* signed root covers.
THEOREM CommittedIsKept == Spec => [][RowsKept /\ RootKept]_vars
<1>1. QED
  BY Invariance, NextIInv, PTL DEF Spec
=============================================================================
