-------------------------- MODULE SubtreeStorageProofs --------------------------
(***************************************************************************)
(* The properties of SubtreeStorage for any set of subtrees and any number  *)
(* of transactions.                                                         *)
(***************************************************************************)
EXTENDS SubtreeStorage, FiniteSetTheorems, TLAPS

\* One revision per entry of the history, and no row beyond the head.
TablesOK ==
  /\ Len(history) = IF head = -1 THEN 0 ELSE head
  /\ \A s \in subtree : s.rev <= head

\* The row of trees is locked by one transaction at a time.
Exclusive ==
  \A t, u \in Txs : pc[t] \in {"stored", "flushed"} /\ pc[u] \in {"stored", "flushed"} => t = u

TxOK(t) ==
  /\ pc[t] # "idle" => root[t] <= head /\ batch[t] \in Batches
  /\ pc[t] \in {"stored", "flushed"} => head = root[t]
  /\ dirty[t] \subseteq loaded[t]
  /\ pc[t] # "idle" /\ root[t] = -1 => loaded[t] = {} /\ dirty[t] = {}
  /\ pc[t] = "idle" => ~live[t]
  /\ pc[t] \in {"open", "stored", "failed"} => ~closed[t]

\* What the cache holds.  A changed subtree is only right while the root is
\* still the newest one, which is what the tree_head key checks.
CacheOK(t) ==
  pc[t] \in {"open", "stored", "flushed"} =>
    /\ \A i \in loaded[t] \ dirty[t] : cached[t][i] = ContentAt(i, root[t])
    /\ head = root[t] =>
         \A i \in dirty[t] : cached[t][i] = ContentAt(i, root[t]) \cup {batch[t]}

\* A step that ends a transaction, or is about to, and commits nothing.
Ends(t) ==
  /\ UNCHANGED <<tables, root, batch, loaded, cached, dirty, begun>>
  /\ \E p \in {"idle", "failed"} :
       pc' = [pc EXCEPT ![t] = p] /\ (p = "failed" => pc[t] \in {"open", "stored"})
  /\ \E b \in BOOLEAN : closed' = [closed EXCEPT ![t] = b] /\ (pc'[t] = "failed" => ~b)
  /\ \E b \in BOOLEAN : live' = [live EXCEPT ![t] = b] /\ (pc'[t] = "idle" => ~b)
  /\ faults' \in 0 .. MaxFaults

IInv ==
  /\ TypeOK
  /\ TablesOK
  /\ RevisionsReadBack
  /\ Exclusive
  /\ \A t \in Txs : TxOK(t) /\ CacheOK(t)
-----------------------------------------------------------------------------
\* A read at the revision being written sees what the head has, as long as no
\* transaction has published that revision.
LEMMA ReadAhead ==
  ASSUME IInv, NEW i \in SubtreeIds, head \in Nat
  PROVE  getSubtree(i, head + 1) = ContentAt(i, head)
<1>1. \A s \in subtree : s.rev \in Nat /\ s.rev <= head
  BY Zenon DEF IInv, TypeOK, TablesOK, SubtreeRow
<1>2. Newest(i, head + 1) = Newest(i, head)
  BY <1>1 DEF Newest
<1>3. getSubtree(i, head + 1) = getSubtree(i, head)
  BY <1>2, Zenon DEF getSubtree
<1>4. head \in 0 .. head
  OBVIOUS
<1> QED
  BY <1>3, <1>4, Zenon DEF IInv, RevisionsReadBack

\* What a read returns is a set of batches.
LEMMA ReadType ==
  ASSUME TypeOK, NEW i \in SubtreeIds, NEW r
  PROVE  getSubtree(i, r) \in Nodes
BY DEF TypeOK, SubtreeRow, Nodes, getSubtree, Newest

\* A statement that commits nothing leaves what can be read alone.
LEMMA TablesKept ==
  ASSUME IInv, UNCHANGED tables
  PROVE  TablesOK' /\ RevisionsReadBack'
<1>1. subtree' = subtree /\ head' = head /\ history' = history
  BY Zenon DEF tables
<1>2. TablesOK'
  BY <1>1, Zenon DEF IInv, TablesOK
<1>3. \A i, r : getSubtree(i, r)' = getSubtree(i, r)
  BY <1>1, Zenon DEF getSubtree, Newest
<1>4. \A i, r : ContentAt(i, r)' = ContentAt(i, r)
  BY <1>1, Zenon DEF ContentAt
<1> QED
  BY <1>1, <1>2, <1>3, <1>4, Zenon DEF IInv, RevisionsReadBack

\* Nor does it change what the cache of a transaction it does not touch is
\* worth.
LEMMA CacheKept ==
  ASSUME IInv, UNCHANGED tables, NEW u \in Txs,
         pc'[u] \in {"open", "stored", "flushed"} =>
           /\ pc[u] \in {"open", "stored", "flushed"}
           /\ root'[u] = root[u] /\ batch'[u] = batch[u]
           /\ loaded'[u] = loaded[u] /\ dirty'[u] = dirty[u] /\ cached'[u] = cached[u]
  PROVE  CacheOK(u)'
<1>1. history' = history /\ head' = head
  BY Zenon DEF tables
<1>2. SUFFICES ASSUME pc'[u] \in {"open", "stored", "flushed"}
               PROVE  CacheOK(u)'
  BY Zenon DEF CacheOK
<1>3. /\ root'[u] = root[u] /\ batch'[u] = batch[u]
      /\ loaded'[u] = loaded[u] /\ dirty'[u] = dirty[u] /\ cached'[u] = cached[u]
  BY <1>2, Zenon
<1>4. /\ \A i \in loaded[u] \ dirty[u] : cached[u][i] = ContentAt(i, root[u])
      /\ head = root[u] => \A i \in dirty[u] : cached[u][i] = ContentAt(i, root[u]) \cup {batch[u]}
  BY <1>2, Zenon DEF IInv, CacheOK
<1>5. \A i, r : ContentAt(i, r)' = ContentAt(i, r)
  BY <1>1, Zenon DEF ContentAt
<1> QED
  BY <1>1, <1>3, <1>4, <1>5, Zenon DEF CacheOK

\* The inductive step: every statement of every transaction preserves IInv.
LEMMA Inductive == IInv /\ [Next]_vars => IInv'
<1> SUFFICES ASSUME IInv, [Next]_vars PROVE IInv'
  OBVIOUS
<1> USE DEF IInv, tables, txvars, vars
<1>1. ASSUME NEW t \in Txs, beginInternal(t) PROVE IInv'
  <2>1. TypeOK'
    BY <1>1, BoundsAssumption DEF TypeOK, beginInternal, Batches, Nodes
  <2>2. TablesOK' /\ RevisionsReadBack'
    BY <1>1, TablesKept, Zenon DEF beginInternal, Batches, Nodes
  <2>3. Exclusive'
    BY <1>1, Zenon DEF Exclusive, TypeOK, beginInternal, Batches, Nodes
  <2>4. ASSUME NEW u \in Txs PROVE TxOK(u)'
    BY <1>1, <2>4, BoundsAssumption DEF TxOK, TypeOK, beginInternal, Batches, Nodes
  <2>5. ASSUME NEW u \in Txs PROVE CacheOK(u)'
    <3>1. CASE u # t
      BY <1>1, <2>5, <3>1, CacheKept, Zenon DEF TypeOK, beginInternal
    <3>2. CASE u = t
      <4>1. loaded'[t] = {} /\ dirty'[t] = {}
        BY <1>1, Zenon DEF TypeOK, beginInternal
      <4> QED
        BY <3>2, <4>1, Zenon DEF CacheOK
    <3> QED
      BY <3>1, <3>2, Zenon
  <2> QED
    BY <2>1, <2>2, <2>3, <2>4, <2>5, Zenon
<1>2. ASSUME NEW t \in Txs, StoreSignedLogRoot(t) PROVE IInv'
  <2>1. TypeOK'
    BY <1>2, BoundsAssumption, Zenon DEF TypeOK, StoreSignedLogRoot, NewRevision
  <2>2. TablesOK' /\ RevisionsReadBack'
    BY <1>2, TablesKept, Zenon DEF StoreSignedLogRoot, NewRevision
  <2>3. Exclusive'
    BY <1>2 DEF Exclusive, TypeOK, StoreSignedLogRoot, NewRevision
  <2>4. ASSUME NEW u \in Txs PROVE TxOK(u)'
    BY <1>2, <2>4, BoundsAssumption DEF TxOK, TypeOK, StoreSignedLogRoot, NewRevision
  <2>5. ASSUME NEW u \in Txs PROVE CacheOK(u)'
    BY <1>2, <2>5, CacheKept, Zenon DEF TypeOK, StoreSignedLogRoot, NewRevision
  <2> QED
    BY <2>1, <2>2, <2>3, <2>4, <2>5, Zenon
<1>3. ASSUME NEW t \in Txs, Flush(t) PROVE IInv'
  <2>1. TypeOK'
    BY <1>3, BoundsAssumption, Zenon DEF TypeOK, Flush
  <2>2. TablesOK' /\ RevisionsReadBack'
    BY <1>3, TablesKept, Zenon DEF Flush
  <2>3. Exclusive'
    BY <1>3, Zenon DEF Exclusive, TypeOK, Flush
  <2>4. ASSUME NEW u \in Txs PROVE TxOK(u)'
    BY <1>3, <2>4, BoundsAssumption DEF TxOK, TypeOK, Flush
  <2>5. ASSUME NEW u \in Txs PROVE CacheOK(u)'
    BY <1>3, <2>5, CacheKept, Zenon DEF TypeOK, Flush
  <2> QED
    BY <2>1, <2>2, <2>3, <2>4, <2>5, Zenon
<1>4. ASSUME NEW t \in Txs, Ends(t) PROVE IInv'
  <2>1. TypeOK'
    BY <1>4, BoundsAssumption DEF TypeOK, Ends
  <2>2. TablesOK' /\ RevisionsReadBack'
    BY <1>4, TablesKept, Zenon DEF Ends
  <2>3. pc'[t] \in {"idle", "failed"} /\ \A u \in Txs \ {t} : pc'[u] = pc[u]
    BY <1>4, Zenon DEF Ends, TypeOK
  <2>4. Exclusive'
    BY <2>3, Zenon DEF Exclusive
  <2>5. ASSUME NEW u \in Txs PROVE TxOK(u)'
    BY <1>4, <2>5 DEF TxOK, TypeOK, Ends
  <2>6. ASSUME NEW u \in Txs PROVE CacheOK(u)'
    BY <1>4, <2>3, <2>6, CacheKept, Zenon DEF Ends
  <2> QED
    BY <2>1, <2>2, <2>4, <2>5, <2>6, Zenon
<1>5. ASSUME NEW t \in Txs, FlushFails(t) \/ Fail(t) PROVE Ends(t)
  <2>1. closed[t] = FALSE /\ live[t] \in BOOLEAN
    BY <1>5, Zenon DEF FlushFails, Fail, TxOK, TypeOK
  <2>2. closed' = [closed EXCEPT ![t] = FALSE] /\ live' = [live EXCEPT ![t] = live[t]]
    BY <1>5, <2>1 DEF FlushFails, Fail, TypeOK
  <2>3. pc' = [pc EXCEPT ![t] = "failed"] /\ faults' \in 0 .. MaxFaults
    BY <1>5, BoundsAssumption DEF FlushFails, Fail, TypeOK
  <2>4. pc'[t] = "failed"
    BY <2>3, Zenon DEF TypeOK
  <2> QED
    BY <1>5, <2>1, <2>2, <2>3, <2>4, Zenon DEF Ends, FlushFails, Fail
<1>6. ASSUME NEW t \in Txs, CommitFails(t) \/ CommitRead(t) \/ Close(t) PROVE Ends(t)
  <2>1. pc' = [pc EXCEPT ![t] = "idle"] /\ faults' \in 0 .. MaxFaults
    BY <1>6, BoundsAssumption DEF CommitFails, CommitRead, Close, TypeOK
  <2>2. live' = [live EXCEPT ![t] = FALSE]
    BY <1>6, Zenon DEF CommitFails, CommitRead, Close, TxOK, TypeOK
  <2>3. \E b \in BOOLEAN : closed' = [closed EXCEPT ![t] = b]
    <3>1. closed' = [closed EXCEPT ![t] = TRUE] \/ closed' = closed
      BY <1>6, Zenon DEF CommitFails, CommitRead, Close
    <3>2. closed = [closed EXCEPT ![t] = closed[t]] /\ closed[t] \in BOOLEAN
      BY Zenon DEF TypeOK
    <3> QED
      BY <3>1, <3>2, Zenon
  <2>4. pc'[t] = "idle"
    BY <2>1, Zenon DEF TypeOK
  <2> QED
    BY <1>6, <2>1, <2>2, <2>3, <2>4, Zenon DEF Ends, CommitFails, CommitRead, Close
<1>7. ASSUME NEW t \in Txs, NEW ids \in SUBSET SubtreeIds, GetMerkleNodes(t, ids) PROVE IInv'
  <2> USE <1>7 DEF GetMerkleNodes
  <2>0. /\ root[t] \in 0 .. head
        /\ loaded' = [loaded EXCEPT ![t] = @ \cup ids]
        /\ cached' = [cached EXCEPT ![t] =
             [i \in SubtreeIds |-> IF i \in ids THEN getSubtree(i, root[t]) ELSE @[i]]]
    BY DEF TypeOK, TxOK, getSubtrees
  <2>1. TypeOK'
    <3>1. \A i \in SubtreeIds : getSubtree(i, root[t]) \in Nodes
      BY ReadType, Zenon
    <3> QED
      BY <2>0, <3>1 DEF TypeOK
  <2>2. TablesOK' /\ RevisionsReadBack'
    BY TablesKept, Zenon
  <2>3. Exclusive'
    BY Zenon DEF Exclusive, TypeOK
  <2>4. ASSUME NEW u \in Txs PROVE TxOK(u)'
    BY <2>0, <2>4 DEF TxOK, TypeOK
  <2>5. ASSUME NEW u \in Txs PROVE CacheOK(u)'
    <3>1. \A i \in SubtreeIds : getSubtree(i, root[t]) = ContentAt(i, root[t])
      BY <2>0, Zenon DEF RevisionsReadBack
    <3>2. \A i, r : ContentAt(i, r)' = ContentAt(i, r)
      BY Zenon DEF ContentAt
    <3>3. CASE u # t
      BY <2>0, <3>3, <2>5, CacheKept, Zenon DEF TypeOK
    <3>4. CASE u = t
      <4>1. ASSUME NEW i \in loaded'[t] \ dirty[t] PROVE cached'[t][i] = ContentAt(i, root[t])
        BY <2>0, <3>1, <4>1 DEF CacheOK, TypeOK
      <4>2. ASSUME NEW i \in dirty[t] PROVE cached'[t][i] = cached[t][i]
        BY <2>0, <4>2 DEF TypeOK, TxOK
      <4> QED
        BY <3>4, <4>1, <4>2 DEF CacheOK, ContentAt
    <3> QED
      BY <3>3, <3>4, Zenon
  <2> QED
    BY <2>1, <2>2, <2>3, <2>4, <2>5, Zenon
<1>8. ASSUME NEW t \in Txs, NEW i \in SubtreeIds, SetMerkleNodes(t, i) PROVE IInv'
  <2> USE <1>8 DEF SetMerkleNodes
  <2>0. /\ batch[t] \in Batches /\ root[t] \in Nat /\ root[t] <= head
        /\ dirty' = [dirty EXCEPT ![t] = @ \cup {i}]
        /\ loaded' = [loaded EXCEPT ![t] = @ \cup {i}]
    BY DEF TypeOK, TxOK
  <2> DEFINE new == IF i \in loaded[t] THEN cached[t][i] ELSE getSubtree(i, root[t] + 1)
  <2>a. new \in Nodes
    BY ReadType DEF TypeOK
  <2>b. cached' = [cached EXCEPT ![t][i] = new \cup {batch[t]}]
    BY <2>0, Zenon DEF writeRevision, TypeOK
  <2> HIDE DEF new
  <2>1. TypeOK'
    <3>1. new \cup {batch[t]} \in Nodes
      BY <2>0, <2>a, Zenon DEF Nodes
    <3> QED
      BY <2>0, <2>b, <3>1 DEF TypeOK
  <2>2. TablesOK' /\ RevisionsReadBack'
    BY TablesKept, Zenon
  <2>3. Exclusive'
    BY Zenon DEF Exclusive, TypeOK
  <2>4. ASSUME NEW u \in Txs PROVE TxOK(u)'
    BY <2>0, <2>4 DEF TxOK, TypeOK
  <2>5. ASSUME NEW u \in Txs PROVE CacheOK(u)'
    <3>1. CASE u # t
      BY <2>0, <2>b, <3>1, <2>5, CacheKept DEF TypeOK
    <3>2. CASE u = t
      <4>1. head = root[t] => new = ContentAt(i, root[t])
        BY <2>0, ReadAhead DEF new, CacheOK
      <4>2. /\ cached'[t][i] = new \cup {batch[t]}
            /\ \A j \in SubtreeIds \ {i} : cached'[t][j] = cached[t][j]
        BY <2>b DEF TypeOK
      <4>3. dirty'[t] = dirty[t] \cup {i} /\ loaded'[t] = loaded[t] \cup {i}
        BY <2>0 DEF TypeOK
      <4>4. dirty[t] \subseteq SubtreeIds /\ loaded[t] \subseteq SubtreeIds
        BY Zenon DEF TypeOK
      <4> QED
        BY <3>2, <4>1, <4>2, <4>3, <4>4 DEF CacheOK, ContentAt
    <3> QED
      BY <3>1, <3>2
  <2> QED
    BY <2>1, <2>2, <2>3, <2>4, <2>5, Zenon
<1>9. ASSUME NEW t \in Txs, Commit(t) PROVE IInv'
  <2> USE <1>9 DEF Commit
  <2>0. head = root[t] /\ head \in Nat \cup {-1} /\ head' = head + 1 /\ dirty[t] \subseteq SubtreeIds
    BY Zenon DEF TypeOK, TxOK, NewRevision
  <2>a. CASE root[t] = -1
    <3>1. dirty[t] = {} /\ subtree = {} /\ history = <<>>
      BY <2>a, <2>0 DEF TypeOK, TxOK, TablesOK, SubtreeRow
    <3>2. subtree' = {} /\ head' = 0 /\ history' = <<>>
      BY <2>a, <2>0, <3>1 DEF storeSubtrees
    <3>3. TypeOK'
      BY <2>a, <3>1, <3>2 DEF TypeOK
    <3>4. TablesOK' /\ RevisionsReadBack'
      <4>1. TablesOK'
        BY <3>2, Zenon DEF TablesOK
      <4>2. \A i, r : getSubtree(i, r)' = {}
        BY <3>2, Zenon DEF getSubtree, Newest
      <4>3. \A i, r : ContentAt(i, r)' = {}
        <5>1. DOMAIN history' = {}
          BY <3>2
        <5> QED
          BY <5>1, Zenon DEF ContentAt
      <4> QED
        BY <4>1, <4>2, <4>3, Zenon DEF RevisionsReadBack
    <3>5. Exclusive'
      BY Zenon DEF Exclusive, TypeOK
    <3>6. ASSUME NEW u \in Txs PROVE TxOK(u)'
      BY <2>a, <2>0, <3>2, <3>6 DEF TxOK, TypeOK, Exclusive
    <3>7. ASSUME NEW u \in Txs PROVE CacheOK(u)'
      <4>1. root[u] \in Nat \cup {-1} /\ (pc[u] # "idle" => root[u] <= -1)
        BY <2>a, <2>0 DEF TxOK, TypeOK
      <4>2. pc[u] # "idle" => loaded[u] = {} /\ dirty[u] = {}
        BY <4>1 DEF TxOK
      <4>3. pc'[u] \in {"open", "stored", "flushed"} => pc[u] # "idle"
        BY Zenon DEF TypeOK
      <4> QED
        BY <4>2, <4>3, Zenon DEF CacheOK
    <3> QED
      BY <3>3, <3>4, <3>5, <3>6, <3>7, Zenon
  <2>b. CASE root[t] # -1
    <3> PICK h \in Nat : h = head
      BY <2>0, <2>b, Zenon
    <3> DEFINE e == [batch |-> batch[t], ids |-> dirty[t]]
               new == {[id |-> i, rev |-> h + 1, nodes |-> cached[t][i]] : i \in dirty[t]}
    <3>1. /\ head \in Nat /\ Len(history) = h
          /\ history' = Append(history, e) /\ subtree' = subtree \cup new
          /\ e \in [batch : Batches, ids : SUBSET SubtreeIds]
      BY <2>b, <2>0 DEF TablesOK, storeSubtrees, writeRevision, TxOK, TypeOK
    <3>2. /\ \A s \in new : s \in SubtreeRow /\ s.id \in dirty[t] /\ s.rev = h + 1
                            /\ s.nodes = cached[t][s.id]
          /\ \A i \in dirty[t] : \E s \in new : s.id = i
      <4>1. ASSUME NEW i \in dirty[t]
            PROVE  [id |-> i, rev |-> h + 1, nodes |-> cached[t][i]] \in SubtreeRow
        <5>1. i \in SubtreeIds /\ h + 1 \in Nat /\ cached[t][i] \in Nodes
          BY <3>1, <2>0, <4>1 DEF TypeOK
        <5> QED
          BY <5>1, Zenon DEF SubtreeRow
      <4>2. ASSUME NEW s \in new
            PROVE  s \in SubtreeRow /\ s.id \in dirty[t] /\ s.rev = h + 1 /\ s.nodes = cached[t][s.id]
        <5>1. PICK i \in dirty[t] : s = [id |-> i, rev |-> h + 1, nodes |-> cached[t][i]]
          BY <4>2, Zenon
        <5> QED
          BY <4>1, <5>1, Zenon
      <4>3. ASSUME NEW i \in dirty[t] PROVE \E s \in new : s.id = i
        <5>1. [id |-> i, rev |-> h + 1, nodes |-> cached[t][i]] \in new
          BY <4>3, Zenon
        <5> QED
          BY <5>1, Zenon
      <4> QED
        BY <4>2, <4>3, Zenon
    <3>e. e.batch = batch[t] /\ e.ids = dirty[t]
      BY Zenon
    <3> HIDE DEF e, new
    <3>3. /\ Len(history') = h + 1 /\ history'[h + 1] = e
          /\ \A n \in 1 .. h : history'[n] = history[n]
          /\ DOMAIN history = 1 .. h /\ DOMAIN history' = 1 .. h + 1
      BY <3>1 DEF TypeOK, e
    <3>4. TypeOK'
      <4>1. subtree' \subseteq SubtreeRow /\ head' \in Nat
        BY <3>1, <3>2, <2>0 DEF TypeOK
      <4>2. history' \in Seq([batch : Batches, ids : SUBSET SubtreeIds])
        <5>1. ASSUME NEW S, NEW s \in Seq(S), NEW x \in S PROVE Append(s, x) \in Seq(S)
          OBVIOUS
        <5>2. history \in Seq([batch : Batches, ids : SUBSET SubtreeIds])
          BY Zenon DEF TypeOK
        <5>3. history' = Append(history, e) /\ e \in [batch : Batches, ids : SUBSET SubtreeIds]
          BY <3>1, Zenon
        <5>4. Append(history, e) \in Seq([batch : Batches, ids : SUBSET SubtreeIds])
          BY <5>1, <5>2, <5>3
        <5> QED
          BY <5>3, <5>4, Zenon
      <4> QED
        BY <4>1, <4>2, Zenon DEF TypeOK
    <3>5. \A s \in subtree : s.rev \in Nat /\ s.rev <= h
      BY Zenon DEF TypeOK, TablesOK, SubtreeRow
    <3>6. \A i, r : r \in 0 .. h => ContentAt(i, r)' = ContentAt(i, r)
      <4>1. ASSUME NEW i, NEW r \in 0 .. h PROVE ContentAt(i, r)' = ContentAt(i, r)
        <5>1. {n \in DOMAIN history' : n <= r /\ i \in history'[n].ids}
                = {n \in DOMAIN history : n <= r /\ i \in history[n].ids}
          BY <3>3, <3>1
        <5>2. \A n \in {m \in DOMAIN history : m <= r /\ i \in history[m].ids} :
                history'[n] = history[n]
          BY <3>3, Zenon
        <5> QED
          BY <5>1, <5>2, Zenon DEF ContentAt
      <4> QED
        BY <4>1, Zenon
    <3>7. TablesOK'
      BY <3>1, <3>2, <3>3, <3>5, <2>0 DEF TablesOK
    <3>8. ASSUME NEW i \in SubtreeIds, NEW r \in 0 .. h PROVE getSubtree(i, r)' = ContentAt(i, r)'
      <4>1. Newest(i, r)' = Newest(i, r)
        BY <3>1, <3>2, <3>5 DEF Newest
      <4>2. getSubtree(i, r)' = getSubtree(i, r)
        BY <4>1, Zenon DEF getSubtree
      <4> QED
        BY <4>2, <3>6, <3>8, Zenon DEF RevisionsReadBack
    <3>9. ASSUME NEW i \in dirty[t] PROVE getSubtree(i, h + 1)' = ContentAt(i, h + 1)'
      <4>1. PICK s \in new : s.id = i
        BY <3>2, <3>9, Zenon
      <4>2. s.rev = h + 1 /\ s.nodes = cached[t][i]
        BY <3>2, <4>1, Zenon
      <4>3. \A o \in new : o.id = i => o = s
        BY <3>9, <4>1 DEF new
      <4>4. Newest(i, h + 1)' = {s}
        <5>1. s \in Newest(i, h + 1)'
          BY <3>1, <3>2, <3>5, <4>1, <4>2 DEF Newest
        <5>2. ASSUME NEW o \in Newest(i, h + 1)' PROVE o = s
          <6>1. o \in subtree' /\ o.id = i /\ s.rev <= o.rev
            BY <5>1, <5>2, Zenon DEF Newest
          <6>2. o \notin subtree
            BY <3>5, <3>1, <4>2, <6>1
          <6> QED
            BY <6>1, <6>2, <4>3, <3>1, Zenon
        <5> QED
          BY <5>1, <5>2, Zenon
      <4>5. getSubtree(i, h + 1)' = cached[t][i]
        BY <4>4, <4>2 DEF getSubtree
      <4>6. cached[t][i] = ContentAt(i, h) \cup {batch[t]}
        BY <2>0, <3>9, Zenon DEF CacheOK
      <4>7. {n \in DOMAIN history' : n <= h + 1 /\ i \in history'[n].ids}
              = {n \in DOMAIN history : n <= h /\ i \in history[n].ids} \cup {h + 1}
        <5>1. history'[h + 1].ids = dirty[t]
          BY <3>3, <3>e
        <5> QED
          BY <3>3, <3>9, <5>1
      <4>8. ContentAt(i, h + 1)' = ContentAt(i, h) \cup {batch[t]}
        <5>1. history'[h + 1].batch = batch[t]
          BY <3>3, <3>e
        <5>2. ContentAt(i, h + 1)' = {history'[n].batch : n \in
                {m \in DOMAIN history : m <= h /\ i \in history[m].ids} \cup {h + 1}}
          BY <4>7, <2>0, Zenon DEF ContentAt
        <5>3. \A n \in {m \in DOMAIN history : m <= h /\ i \in history[m].ids} :
                history'[n].batch = history[n].batch
          BY <3>3, Zenon
        <5> DEFINE A == {m \in DOMAIN history : m <= h /\ i \in history[m].ids}
        <5>4. {history'[n].batch : n \in A \cup {h + 1}} = {history'[n].batch : n \in A} \cup {batch[t]}
          <6> HIDE DEF A
          <6> QED
            BY <5>1, Zenon
        <5>5. {history'[n].batch : n \in A} = {history[n].batch : n \in A}
          BY <5>3, Zenon
        <5> QED
          BY <5>2, <5>4, <5>5, Zenon DEF ContentAt
      <4> QED
        BY <4>5, <4>6, <4>8, Zenon
    <3>10. ASSUME NEW i \in SubtreeIds \ dirty[t]
           PROVE  getSubtree(i, h + 1)' = ContentAt(i, h + 1)'
      <4>1. Newest(i, h + 1)' = Newest(i, h + 1)
        <5>1. \A s \in subtree' : s.id = i => s \in subtree
          BY <3>1, <3>2, <3>10
        <5>2. subtree \subseteq subtree'
          BY <3>1, Zenon
        <5> QED
          BY <5>1, <5>2, Zenon DEF Newest
      <4>2. getSubtree(i, h + 1)' = ContentAt(i, h)
        BY <4>1, <3>1, ReadAhead, Zenon DEF getSubtree
      <4>3. {n \in DOMAIN history' : n <= h + 1 /\ i \in history'[n].ids}
              = {n \in DOMAIN history : n <= h /\ i \in history[n].ids}
        BY <3>1, <3>3, <3>10 DEF e
      <4>4. \A n \in {m \in DOMAIN history : m <= h /\ i \in history[m].ids} :
              history'[n] = history[n]
        BY <3>3, Zenon
      <4> QED
        BY <4>2, <4>3, <4>4 DEF ContentAt
    <3>11. RevisionsReadBack'
      <4> SUFFICES ASSUME NEW r \in 0 .. h + 1, NEW i \in SubtreeIds
                   PROVE  getSubtree(i, r)' = ContentAt(i, r)'
        BY <2>0, <3>1, Zenon DEF RevisionsReadBack
      <4>1. r \in 0 .. h \/ r = h + 1
        BY <3>1
      <4> QED
        BY <4>1, <3>8, <3>9, <3>10, Zenon
    <3>12. Exclusive'
      BY Zenon DEF Exclusive, TypeOK
    <3>13. ASSUME NEW u \in Txs PROVE TxOK(u)'
      BY <2>0, <3>1, <3>13 DEF TxOK, TypeOK, Exclusive
    <3>14. ASSUME NEW u \in Txs PROVE CacheOK(u)'
      <4>1. CASE u = t \/ pc[u] \notin {"open", "stored", "flushed"}
        BY <4>1, <3>14 DEF CacheOK, TypeOK
      <4>2. CASE u # t /\ pc[u] \in {"open", "stored", "flushed"}
        <5>1. root[u] # h + 1 /\ root[u] <= h /\ root[u] \in Nat \cup {-1}
          BY <3>1, <4>2 DEF TxOK, TypeOK
        <5>2. root[u] \in 0 .. h \/ loaded[u] \ dirty[u] = {}
          BY <5>1, <4>2 DEF TxOK, TypeOK
        <5> QED
          BY <5>1, <5>2, <2>0, <3>6, <4>2 DEF CacheOK, TypeOK
      <4> QED
        BY <4>1, <4>2, Zenon
    <3> QED
      BY <3>4, <3>7, <3>11, <3>12, <3>13, <3>14, Zenon
  <2> QED
    BY <2>a, <2>b, Zenon
<1>10. CASE UNCHANGED vars
  <2>1. TablesOK' /\ RevisionsReadBack'
    BY <1>10, TablesKept, Zenon
  <2>2. TypeOK' /\ Exclusive'
    BY <1>10, Zenon DEF TypeOK, Exclusive
  <2>3. \A t \in Txs : TxOK(t)' /\ CacheOK(t)'
    BY <1>10, CacheKept DEF TxOK
  <2> QED
    BY <2>1, <2>2, <2>3, Zenon
<1> QED
  BY <1>1, <1>2, <1>3, <1>4, <1>5, <1>6, <1>7, <1>8, <1>9, <1>10, Zenon DEF Next, Done

\* The inductive invariant holds in every reachable state.
THEOREM Invariance == Spec => []IInv
<1>1. Init => IInv
  <2> SUFFICES ASSUME Init PROVE IInv
    OBVIOUS
  <2>1. TypeOK
    BY BoundsAssumption DEF Init, TypeOK, Nodes
  <2>2. TablesOK /\ RevisionsReadBack /\ Exclusive
    BY DEF Init, TablesOK, RevisionsReadBack, Exclusive, getSubtree, Newest, ContentAt
  <2>3. \A t \in Txs : TxOK(t) /\ CacheOK(t)
    BY Zenon DEF Init, TxOK, CacheOK
  <2> QED
    BY <2>1, <2>2, <2>3, Zenon DEF IInv
<1> QED
  BY <1>1, Inductive, PTL DEF Spec

\* Every published revision reads back as it was integrated, for any number of
\* signers and snapshots: getSubtrees and the tree_head key together.
THEOREM RevisionsAreKept == Spec => []RevisionsReadBack
BY Invariance, PTL DEF IInv

\* A transaction's subtrees are all of the root it began from.
THEOREM SnapshotsAreConsistent == Spec => []ReadsAreOfTheRoot
<1>1. IInv => ReadsAreOfTheRoot
  BY Zenon DEF IInv, CacheOK, ReadsAreOfTheRoot
<1> QED
  BY Invariance, <1>1, PTL

\* No path through ReadWriteTransaction, Commit and Close leaks a transaction.
THEOREM NoTransactionLeaks == Spec => []TransactionsEnd
<1>1. IInv => TransactionsEnd
  BY Zenon DEF IInv, TxOK, TransactionsEnd
<1> QED
  BY Invariance, <1>1, PTL

\* Every statement getStmt caches takes as many arguments as its callers pass,
\* in their order, for every number of subtrees.
THEOREM StatementsTakeArguments == Spec => []ArgumentsInOrder
<1>1. Init => ArgumentsInOrder
  BY Zenon DEF Init, ArgumentsInOrder
<1>2. ASSUME NEW sql \in {"select", "insert"}, NEW num \in Nat, ArgumentsInOrder, getStmt(sql, num)
      PROVE  ArgumentsInOrder'
  <2>1. Slots(Skeleton[sql], num) = [j \in 1 .. Passed(sql, num) |-> j]
    <3>1. CASE sql = "select"
      BY <3>1 DEF Slots, Skeleton, expandPlaceholderSQL, Passed
    <3>2. CASE sql = "insert"
      BY <3>2 DEF Slots, Skeleton, expandPlaceholderSQL, Passed
    <3> QED
      BY <3>1, <3>2
  <2>2. DOMAIN statements' = DOMAIN statements \cup {<<sql, num>>}
    BY <1>2, Zenon DEF getStmt
  <2>3. \A k \in DOMAIN statements' :
          statements'[k] = IF k \in DOMAIN statements THEN statements[k] ELSE Slots(Skeleton[sql], num)
    BY <1>2, Zenon DEF getStmt
  <2>4. <<sql, num>>[1] = sql /\ <<sql, num>>[2] = num
    OBVIOUS
  <2> QED
    BY <1>2, <2>1, <2>2, <2>3, <2>4, Zenon DEF ArgumentsInOrder
<1>3. IInv /\ ArgumentsInOrder /\ [Next]_vars => ArgumentsInOrder'
  <2> SUFFICES ASSUME IInv, ArgumentsInOrder, [Next]_vars PROVE ArgumentsInOrder'
    OBVIOUS
  <2>1. ASSUME NEW S \in SUBSET SubtreeIds PROVE Cardinality(S) \in Nat
    BY <2>1, FiniteAssumption, FS_Subset, FS_CardinalityType, Zenon
  <2>2. ASSUME NEW t \in Txs, NEW ids \in SUBSET SubtreeIds, GetMerkleNodes(t, ids)
        PROVE  ArgumentsInOrder'
    BY <2>1, <2>2, <1>2, Zenon DEF GetMerkleNodes
  <2>3. ASSUME NEW t \in Txs, NEW i \in SubtreeIds, SetMerkleNodes(t, i) PROVE ArgumentsInOrder'
    <3>1. UNCHANGED statements \/ getStmt("select", 1)
      BY <2>3, Zenon DEF SetMerkleNodes
    <3> QED
      BY <3>1, <1>2, Zenon DEF ArgumentsInOrder
  <2>4. ASSUME NEW t \in Txs, Flush(t) PROVE ArgumentsInOrder'
    <3>1. UNCHANGED statements \/ getStmt("insert", Cardinality(dirty[t]))
      BY <2>4, Zenon DEF Flush
    <3>2. Cardinality(dirty[t]) \in Nat
      BY <2>1, Zenon DEF IInv, TypeOK
    <3> QED
      BY <3>1, <3>2, <1>2, Zenon DEF ArgumentsInOrder
  <2>5. CASE UNCHANGED statements
    BY <2>5, Zenon DEF ArgumentsInOrder
  <2> QED
    BY <2>2, <2>3, <2>4, <2>5, Zenon DEF Next, Done, vars, txvars, tables, beginInternal,
       StoreSignedLogRoot, FlushFails, Commit, CommitFails, CommitRead, Fail, Close
<1> QED
  BY <1>1, <1>3, Invariance, PTL DEF Spec
=============================================================================
