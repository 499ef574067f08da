------------------------------- MODULE LogStorage -------------------------------
(***************************************************************************)
(* The PostgreSQL log storage of one LOG tree: pkg/storage/postgres.       *)
(*                                                                         *)
(* The tables are sets of rows.  A transaction runs one SQL statement per  *)
(* step at READ COMMITTED (BeginTx is given no options): a statement sees  *)
(* the committed rows and the transaction's own, it waits for a row or a   *)
(* key that another open transaction has written, and nothing a            *)
(* transaction wrote is visible before it commits.                         *)
(*                                                                         *)
(* Queuers run QueueLeaves (log servers).  Writers run a                   *)
(* ReadWriteTransaction: a signer integrating a batch, or InitLog.  The    *)
(* embedded signer forces mastership, so several writers may run at once.  *)
(***************************************************************************)
EXTENDS Integers, Sequences, FiniteSets

CONSTANTS
  LeafIds,        \* leaf identity hashes; their order is that of bytes.Compare
  LeafValues,     \* what a submission puts in leaf_value (VC entry, timestamp)
  Times,          \* queue timestamps and dequeue cutoffs
  Batches,        \* the batches of leaves clients submit
  Queuers,        \* concurrent QueueLeaves calls
  Writers,        \* concurrent read-write transactions
  DequeueLimit,   \* the limit given to DequeueLeaves
  MaxRevision,    \* bound: an unchanged root is re-signed only below it
  MaxFaults       \* bound: how many statements or processes fail

Leaf == [id : LeafIds, value : LeafValues]
LeafDataRow == [id : LeafIds, value : LeafValues, ts : Times]
UnsequencedRow == [id : LeafIds, ts : Times]
SequencedRow == [seq : Nat, id : LeafIds]

\* A log root.  The root hash commits to the index and the identity of every
\* leaf below the tree size, and to nothing else: it is that set of rows.
LogRoot == [revision : Nat, treeSize : Nat, rootHash : SUBSET SequencedRow]

\* trees.current_tree_data is NULL: storage.ErrTreeNeedsInit.
NoRoot == [revision |-> -1, treeSize |-> 0, rootHash |-> {}]

ASSUME LeafIdsAssumption == LeafIds \subseteq Nat
ASSUME TimesAssumption == Times \subseteq Nat /\ Times # {}
ASSUME BatchesAssumption == Batches \subseteq Seq(Leaf)
ASSUME DequeueLimitAssumption == DequeueLimit \in Nat \ {0}
ASSUME TransactionsAssumption == IsFiniteSet(Queuers) /\ IsFiniteSet(Writers)
ASSUME BoundsAssumption == MaxRevision \in Nat /\ MaxFaults \in Nat

VARIABLES
  \* committed tables
  leafData,       \* leaf_data, primary key id
  unsequenced,    \* unsequenced, primary key <<ts, id>>
  sequenced,      \* sequenced_leaf_data, primary key seq
  treeRoot,       \* current_tree_data of the tree's row in trees
  treeHead,       \* tree_head, primary key revision
  \* one QueueLeaves transaction per queuer
  qpc,            \* the statement it is at
  qreq,           \* the leaves of the request and its queue timestamp
  qtodo,          \* positions of the batch not yet processed
  qcur,           \* position whose unsequenced row comes next
  qdup,           \* existingLeaves: positions that hit a leaf_data row
  qfound,         \* the stored leaves that answer for qdup
  qleaf,          \* leaf_data rows it inserted
  qunseq,         \* unsequenced rows it inserted
  \* one read-write transaction per writer
  wpc,            \* the statement it is at
  wroot,          \* the root beginInternal read
  wdq,            \* the rows DequeueLeaves selected, in order
  widx,           \* loop index over wdq
  wdel,           \* unsequenced rows it deleted
  wseq,           \* sequenced_leaf_data rows it inserted
  \* history and bound
  acked,          \* leaves returned to a client by QueueLeaves
  faults          \* failures so far

tables == <<leafData, unsequenced, sequenced, treeRoot, treeHead>>
qvars == <<qpc, qreq, qtodo, qcur, qdup, qfound, qleaf, qunseq>>
wvars == <<wpc, wroot, wdq, widx, wdel, wseq>>
vars == <<tables, qvars, wvars, acked, faults>>

NoRequest == [leaves |-> <<>>, ts |-> 0]

Init ==
  /\ leafData = {} /\ unsequenced = {} /\ sequenced = {}
  /\ treeRoot = NoRoot /\ treeHead = {}
  /\ qpc = [q \in Queuers |-> "idle"]
  /\ qreq = [q \in Queuers |-> NoRequest]
  /\ qtodo = [q \in Queuers |-> {}]
  /\ qcur = [q \in Queuers |-> 0]
  /\ qdup = [q \in Queuers |-> {}]
  /\ qfound = [q \in Queuers |-> {}]
  /\ qleaf = [q \in Queuers |-> {}]
  /\ qunseq = [q \in Queuers |-> {}]
  /\ wpc = [w \in Writers |-> "idle"]
  /\ wroot = [w \in Writers |-> NoRoot]
  /\ wdq = [w \in Writers |-> <<>>]
  /\ widx = [w \in Writers |-> 0]
  /\ wdel = [w \in Writers |-> {}]
  /\ wseq = [w \in Writers |-> {}]
  /\ acked = {}
  /\ faults = 0

IdsOf(rows) == {r.id : r \in rows}

-----------------------------------------------------------------------------
(***************************************************************************)
(* QueueLeaves.                                                            *)
(***************************************************************************)

\* The end of a transaction, committed or rolled back: its rows and locks go.
CloseQueuer(q) ==
  /\ qpc' = [qpc EXCEPT ![q] = "idle"]
  /\ qreq' = [qreq EXCEPT ![q] = NoRequest]
  /\ qtodo' = [qtodo EXCEPT ![q] = {}]
  /\ qcur' = [qcur EXCEPT ![q] = 0]
  /\ qdup' = [qdup EXCEPT ![q] = {}]
  /\ qfound' = [qfound EXCEPT ![q] = {}]
  /\ qleaf' = [qleaf EXCEPT ![q] = {}]
  /\ qunseq' = [qunseq EXCEPT ![q] = {}]

\* beginInternal; a tree without a root is refused with ErrTreeNeedsInit.
BeginQueueLeaves(q, leaves, ts) ==
  /\ qpc[q] = "idle"
  /\ treeRoot # NoRoot
  /\ qpc' = [qpc EXCEPT ![q] = "insert"]
  /\ qreq' = [qreq EXCEPT ![q] = [leaves |-> leaves, ts |-> ts]]
  /\ qtodo' = [qtodo EXCEPT ![q] = DOMAIN leaves]
  /\ UNCHANGED <<tables, wvars, qcur, qdup, qfound, qleaf, qunseq, acked, faults>>

IdAt(q, i) == qreq[q].leaves[i].id

\* Mutant: the leaves are inserted in the order of the request's loop.
NextInAnyOrder(q, i) == i \in qtodo[q]

\* sortLeavesForInsert: the next leaf is one with the least identity hash
\* (sort.Sort is not stable, so equal hashes come in any order).
NextInOrder(q, i) ==
  /\ i \in qtodo[q]
  /\ \A j \in qtodo[q] : IdAt(q, i) <= IdAt(q, j)

\* Another open transaction has inserted the leaf_data key.
LeafKeyHeld(q, id) == \E p \in Queuers \ {q} : id \in IdsOf(qleaf[p])

\* Mutant: a duplicate is noted but the loop does not continue with the next
\* leaf, so it gets a queue entry as well.
InsertLeafDataNoContinue(q, i) ==
  /\ qpc[q] = "insert"
  /\ NextInOrder(q, i)
  /\ ~LeafKeyHeld(q, IdAt(q, i))
  /\ \/ /\ IdAt(q, i) \in IdsOf(leafData \cup qleaf[q])
        /\ qdup' = [qdup EXCEPT ![q] = @ \cup {i}]
        /\ UNCHANGED qleaf
     \/ /\ IdAt(q, i) \notin IdsOf(leafData \cup qleaf[q])
        /\ qleaf' = [qleaf EXCEPT ![q] = @ \cup
             {[id |-> IdAt(q, i), value |-> qreq[q].leaves[i].value, ts |-> qreq[q].ts]}]
        /\ UNCHANGED qdup
  /\ qcur' = [qcur EXCEPT ![q] = i]
  /\ qpc' = [qpc EXCEPT ![q] = "enqueue"]
  /\ UNCHANGED <<tables, wvars, qreq, qtodo, qfound, qunseq, acked, faults>>

\* insert_leaf_data_ignore_duplicates on leaf_data: false for a duplicate.
InsertLeafData(q, i) ==
  /\ qpc[q] = "insert"
  /\ NextInOrder(q, i)
  /\ ~LeafKeyHeld(q, IdAt(q, i))
  /\ \/ /\ IdAt(q, i) \in IdsOf(leafData \cup qleaf[q])
        /\ qdup' = [qdup EXCEPT ![q] = @ \cup {i}]
        /\ qtodo' = [qtodo EXCEPT ![q] = @ \ {i}]
        /\ UNCHANGED <<qpc, qcur, qleaf>>
     \/ /\ IdAt(q, i) \notin IdsOf(leafData \cup qleaf[q])
        /\ qleaf' = [qleaf EXCEPT ![q] = @ \cup
             {[id |-> IdAt(q, i), value |-> qreq[q].leaves[i].value, ts |-> qreq[q].ts]}]
        /\ qcur' = [qcur EXCEPT ![q] = i]
        /\ qpc' = [qpc EXCEPT ![q] = "enqueue"]
        /\ UNCHANGED <<qdup, qtodo>>
  /\ UNCHANGED <<tables, wvars, qreq, qfound, qunseq, acked, faults>>

\* The work queue entry of the leaf just inserted.  The boolean the SQL
\* function returns is not looked at: a duplicate key inserts nothing.
InsertUnsequenced(q) ==
  LET row == [id |-> IdAt(q, qcur[q]), ts |-> qreq[q].ts] IN
  /\ qpc[q] = "enqueue"
  /\ qunseq' = [qunseq EXCEPT ![q] = @ \cup ({row} \ unsequenced)]
  /\ qtodo' = [qtodo EXCEPT ![q] = @ \ {qcur[q]}]
  /\ qcur' = [qcur EXCEPT ![q] = 0]
  /\ qpc' = [qpc EXCEPT ![q] = "insert"]
  /\ UNCHANGED <<tables, wvars, qreq, qdup, qfound, qleaf, acked, faults>>

\* getLeafDataByIdentityHash: leaf_data LEFT JOIN sequenced_leaf_data gives one
\* result per stored leaf and sequenced row of it, one if it has none.
ExistingRows(q) ==
  {r \in leafData \cup qleaf[q] : \E i \in qdup[q] : r.id = IdAt(q, i)}

ResultCount(q) ==
  LET joined == {p \in sequenced : p.id \in IdsOf(ExistingRows(q))}
      unjoined == {r \in ExistingRows(q) : r.id \notin IdsOf(sequenced)}
  IN  Cardinality(joined) + Cardinality(unjoined)

\* The stored leaves replace the requested ones, unless their number is not
\* that of the duplicates: two duplicates of one hash give a single result.
RetrieveExisting(q) ==
  /\ qpc[q] = "insert"
  /\ qtodo[q] = {}
  /\ qdup[q] # {}
  /\ \/ /\ ResultCount(q) = Cardinality(qdup[q])
        /\ qfound' = [qfound EXCEPT ![q] = ExistingRows(q)]
        /\ qpc' = [qpc EXCEPT ![q] = "commit"]
     \/ /\ ResultCount(q) # Cardinality(qdup[q])
        /\ qpc' = [qpc EXCEPT ![q] = "failed"]
        /\ UNCHANGED qfound
  /\ UNCHANGED <<tables, wvars, qreq, qtodo, qcur, qdup, qleaf, qunseq, acked, faults>>

\* Mutant: the submitted leaves are returned, also for duplicates.
ReplySubmitted(q) == {qreq[q].leaves[i] : i \in DOMAIN qreq[q].leaves}

\* The leaves of the answer: the stored leaf for a duplicate, otherwise the
\* submitted one.
Reply(q) ==
  {[id |-> r.id, value |-> r.value] : r \in qfound[q]} \cup
  {qreq[q].leaves[i] : i \in DOMAIN qreq[q].leaves \ qdup[q]}

\* The commit and the return.  The answer may be lost on its way (delivered
\* is FALSE): the client does not know whether the batch was queued.
CommitQueueLeaves(q, delivered) ==
  /\ \/ qpc[q] = "insert" /\ qtodo[q] = {} /\ qdup[q] = {}
     \/ qpc[q] = "commit"
  /\ leafData' = leafData \cup qleaf[q]
  /\ unsequenced' = unsequenced \cup qunseq[q]
  /\ acked' = IF delivered THEN acked \cup Reply(q) ELSE acked
  /\ CloseQueuer(q)
  /\ UNCHANGED <<sequenced, treeRoot, treeHead, wvars, faults>>

\* A statement fails.  QueueLeaves returns without closing the transaction,
\* which keeps its locks until the call's context ends.
FailQueueLeaves(q) ==
  /\ qpc[q] \in {"insert", "enqueue", "commit"}
  /\ faults < MaxFaults
  /\ faults' = faults + 1
  /\ qpc' = [qpc EXCEPT ![q] = "failed"]
  /\ UNCHANGED <<tables, wvars, qreq, qtodo, qcur, qdup, qfound, qleaf, qunseq, acked>>

\* Mutant: the transaction was begun with a context that never ends.
ContextNeverDone(q) ==
  /\ qpc[q] = "failed"
  /\ UNCHANGED vars

\* The context of a failed call ends: database/sql rolls back.
ContextDone(q) ==
  /\ qpc[q] = "failed"
  /\ CloseQueuer(q)
  /\ UNCHANGED <<tables, wvars, acked, faults>>

\* The log server dies, or the call is cancelled, in the middle.
CrashQueuer(q) ==
  /\ qpc[q] \in {"insert", "enqueue", "commit"}
  /\ faults < MaxFaults
  /\ faults' = faults + 1
  /\ CloseQueuer(q)
  /\ UNCHANGED <<tables, wvars, acked>>

-----------------------------------------------------------------------------
(***************************************************************************)
(* ReadWriteTransaction.                                                   *)
(***************************************************************************)

CloseWriter(w) ==
  /\ wpc' = [wpc EXCEPT ![w] = "idle"]
  /\ wroot' = [wroot EXCEPT ![w] = NoRoot]
  /\ wdq' = [wdq EXCEPT ![w] = <<>>]
  /\ widx' = [widx EXCEPT ![w] = 0]
  /\ wdel' = [wdel EXCEPT ![w] = {}]
  /\ wseq' = [wseq EXCEPT ![w] = {}]

\* Any error: the deferred Close rolls the transaction back.
RollbackWriter(w) ==
  /\ CloseWriter(w)
  /\ UNCHANGED <<tables, qvars, acked, faults>>

\* beginInternal reads the root once; ErrTreeNeedsInit is tolerated and
\* InitLog goes on to store the first root.  With a root it gives up.
BeginInitLog(w) ==
  /\ wpc[w] = "idle"
  /\ treeRoot = NoRoot
  /\ wpc' = [wpc EXCEPT ![w] = "storeRoot"]
  /\ UNCHANGED <<tables, qvars, wroot, wdq, widx, wdel, wseq, acked, faults>>

\* beginInternal for the sequencer: the transaction works from this root.
BeginIntegrate(w) ==
  /\ wpc[w] = "idle"
  /\ treeRoot # NoRoot
  /\ wpc' = [wpc EXCEPT ![w] = "dequeue"]
  /\ wroot' = [wroot EXCEPT ![w] = treeRoot]
  /\ UNCHANGED <<tables, qvars, wdq, widx, wdel, wseq, acked, faults>>

\* ORDER BY queue_timestamp_nanos, leaf_identity_hash.
Before(r, s) == r.ts < s.ts \/ (r.ts = s.ts /\ r.id < s.id)

\* The rows queued up to the cutoff, and a mutant that leaves out the cutoff.
DueBefore(cutoff) == {r \in unsequenced : r.ts < cutoff}

Due(cutoff) == {r \in unsequenced : r.ts <= cutoff}

\* Mutant: ORDER BY is missing.
IsSomeOfQueue(dq, due) ==
  /\ \A i, j \in DOMAIN dq : i # j => dq[i] # dq[j]
  /\ \A r \in due : Len(dq) = DequeueLimit \/ \E i \in DOMAIN dq : dq[i] = r

\* dq holds the first DequeueLimit rows that are due, in order.
IsQueueHead(dq, due) ==
  /\ \A i, j \in DOMAIN dq : i < j => Before(dq[i], dq[j])
  /\ \A r \in due : \/ \E i \in DOMAIN dq : dq[i] = r
                    \/ /\ Len(dq) = DequeueLimit
                       /\ \A i \in DOMAIN dq : Before(dq[i], r)

\* DequeueLeaves, the SELECT.  With nothing due the sequencer either ends
\* the transaction or, when the root is old, signs it again unchanged.
DequeueLeaves(w, cutoff) ==
  /\ wpc[w] = "dequeue"
  /\ \E n \in 0..DequeueLimit : \E dq \in [1..n -> Due(cutoff)] :
       /\ IsQueueHead(dq, Due(cutoff))
       /\ \/ /\ n = 0
             /\ CloseWriter(w)
          \/ /\ n = 0
             /\ wroot[w].revision < MaxRevision
             /\ wpc' = [wpc EXCEPT ![w] = "storeRoot"]
             /\ UNCHANGED <<wroot, wdq, widx, wdel, wseq>>
          \/ /\ n > 0
             /\ wdq' = [wdq EXCEPT ![w] = dq]
             /\ widx' = [widx EXCEPT ![w] = 1]
             /\ wpc' = [wpc EXCEPT ![w] = "remove"]
             /\ UNCHANGED <<wroot, wdel, wseq>>
  /\ UNCHANGED <<tables, qvars, acked, faults>>

\* The loop index after one round of the loop over wdq, or the next loop.
Advance(w, nextpc) ==
  \/ /\ widx[w] < Len(wdq[w])
     /\ widx' = [widx EXCEPT ![w] = @ + 1]
     /\ UNCHANGED wpc
  \/ /\ widx[w] = Len(wdq[w])
     /\ widx' = [widx EXCEPT ![w] = 1]
     /\ wpc' = [wpc EXCEPT ![w] = nextpc]

\* Another open transaction has deleted the row.
RowHeld(w, row) == \E x \in Writers \ {w} : row \in wdel[x]

\* Mutant: the queue entries of the batch are not deleted.
RemoveNothing(w) ==
  /\ wpc[w] = "remove"
  /\ ~RowHeld(w, wdq[w][widx[w]])
  /\ Advance(w, "sequence")
  /\ UNCHANGED <<tables, qvars, wroot, wdq, wdel, wseq, acked, faults>>

\* removeSequencedLeaves: each DELETE must affect exactly one row.
RemoveSequencedLeaf(w) ==
  LET row == wdq[w][widx[w]] IN
  /\ wpc[w] = "remove"
  /\ ~RowHeld(w, row)
  /\ \/ /\ row \in unsequenced
        /\ wdel' = [wdel EXCEPT ![w] = @ \cup {row}]
        /\ Advance(w, "sequence")
        /\ UNCHANGED <<tables, qvars, wroot, wdq, wseq, acked, faults>>
     \/ /\ row \notin unsequenced
        /\ RollbackWriter(w)

\* The sequencer numbers the dequeued leaves from the tree size it read.
AssignedRow(w, i) == [seq |-> wroot[w].treeSize + i - 1, id |-> wdq[w][i].id]

\* Another open transaction has inserted the sequence number.
SeqKeyHeld(w, seq) == \E x \in Writers \ {w} : \E p \in wseq[x] : p.seq = seq

\* Mutant: the loop returns after its first leaf.
UpdateFirstLeafOnly(w) ==
  /\ wpc[w] = "sequence"
  /\ ~SeqKeyHeld(w, AssignedRow(w, 1).seq)
  /\ wseq' = [wseq EXCEPT ![w] = @ \cup {AssignedRow(w, 1)}]
  /\ wpc' = [wpc EXCEPT ![w] = "storeRoot"]
  /\ UNCHANGED <<tables, qvars, wroot, wdq, widx, wdel, acked, faults>>

\* UpdateSequencedLeaves: insert_sequenced_leaf_data_ignore_duplicates answers
\* false for a sequence number that is taken, and nobody looks at the answer.
UpdateSequencedLeaf(w) ==
  LET row == AssignedRow(w, widx[w])
      taken == \E p \in sequenced : p.seq = row.seq
  IN
  /\ wpc[w] = "sequence"
  /\ ~SeqKeyHeld(w, row.seq)
  /\ wseq' = [wseq EXCEPT ![w] = IF taken THEN @ ELSE @ \cup {row}]
  /\ Advance(w, "storeRoot")
  /\ UNCHANGED <<tables, qvars, wroot, wdq, wdel, acked, faults>>

\* The root the sequencer (or InitLog) stores: its revision is the write
\* revision, its hash covers the old leaves and the new ones.
NewRoot(w) ==
  [revision |-> wroot[w].revision + 1,
   treeSize |-> wroot[w].treeSize + Len(wdq[w]),
   rootHash |-> wroot[w].rootHash \cup {AssignedRow(w, i) : i \in DOMAIN wdq[w]}]

\* StoreSignedLogRoot, first statement: UPDATE trees, which waits for the row
\* and then overwrites whatever root is there.
HoldsTreesRow(w) == wpc[w] \in {"treeHead", "commit"}

UpdateTreesRow(w) ==
  /\ wpc[w] = "storeRoot"
  /\ \A x \in Writers \ {w} : ~HoldsTreesRow(x)
  /\ wpc' = [wpc EXCEPT ![w] = "treeHead"]
  /\ UNCHANGED <<tables, qvars, wroot, wdq, widx, wdel, wseq, acked, faults>>

\* Mutant: a duplicate revision is ignored, as it is for the other tables.
InsertTreeHeadIgnoreDuplicate(w) ==
  /\ wpc[w] = "treeHead"
  /\ wpc' = [wpc EXCEPT ![w] = "commit"]
  /\ UNCHANGED <<tables, qvars, wroot, wdq, widx, wdel, wseq, acked, faults>>

\* StoreSignedLogRoot, second statement: INSERT INTO tree_head, which fails on
\* a revision that is already there.
InsertTreeHead(w) ==
  /\ wpc[w] = "treeHead"
  /\ \/ /\ \A h \in treeHead : h.revision # NewRoot(w).revision
        /\ wpc' = [wpc EXCEPT ![w] = "commit"]
        /\ UNCHANGED <<tables, qvars, wroot, wdq, widx, wdel, wseq, acked, faults>>
     \/ /\ \E h \in treeHead : h.revision = NewRoot(w).revision
        /\ RollbackWriter(w)

CommitWriter(w) ==
  /\ wpc[w] = "commit"
  /\ unsequenced' = unsequenced \ wdel[w]
  /\ sequenced' = sequenced \cup wseq[w]
  /\ treeRoot' = NewRoot(w)
  /\ treeHead' = treeHead \cup {NewRoot(w)}
  /\ CloseWriter(w)
  /\ UNCHANGED <<leafData, qvars, acked, faults>>

\* A statement fails, the context ends or the signer dies in the middle.
AbortWriter(w) ==
  /\ wpc[w] # "idle"
  /\ faults < MaxFaults
  /\ faults' = faults + 1
  /\ CloseWriter(w)
  /\ UNCHANGED <<tables, qvars, acked>>

-----------------------------------------------------------------------------
QueuerStep(q) ==
  \/ \E i \in qtodo[q] : InsertLeafData(q, i)
  \/ InsertUnsequenced(q)
  \/ RetrieveExisting(q)
  \/ \E delivered \in BOOLEAN : CommitQueueLeaves(q, delivered)
  \/ ContextDone(q)

WriterStep(w) ==
  \/ BeginInitLog(w)
  \/ BeginIntegrate(w)
  \/ \E cutoff \in Times : DequeueLeaves(w, cutoff)
  \/ RemoveSequencedLeaf(w)
  \/ UpdateSequencedLeaf(w)
  \/ UpdateTreesRow(w)
  \/ InsertTreeHead(w)
  \/ CommitWriter(w)

Next ==
  \/ \E q \in Queuers :
       \/ \E leaves \in Batches, ts \in Times : BeginQueueLeaves(q, leaves, ts)
       \/ QueuerStep(q)
       \/ FailQueueLeaves(q)
       \/ CrashQueuer(q)
  \/ \E w \in Writers : WriterStep(w) \/ AbortWriter(w)

Spec == Init /\ [][Next]_vars

-----------------------------------------------------------------------------
(***************************************************************************)
(* Reading.  A reader begins a transaction, keeps the root it read there,  *)
(* and runs its SELECT later on whatever rows are committed by then.       *)
(***************************************************************************)

Failure(code) == [code |-> code, leaves |-> {}]

\* Mutant: the count is not clipped to the tree size.
GetLeavesUnclipped(root, start, count) ==
  LET rows == {p \in sequenced : /\ p.seq >= start /\ p.seq < start + count
                                 /\ p.id \in IdsOf(leafData)}
  IN  [code |-> "OK", leaves |-> rows]

\* GetLeavesByRange of a transaction that began at root.
GetLeavesByRange(root, start, count) ==
  LET clipped == IF count > root.treeSize - start THEN root.treeSize - start ELSE count
      rows == {p \in sequenced : /\ p.seq >= start /\ p.seq < start + clipped
                                 /\ p.id \in IdsOf(leafData)}
      gap == \E p \in rows : \E k \in start..(p.seq - 1) : \A r \in rows : r.seq # k
  IN  CASE count <= 0 \/ start < 0 -> Failure("InvalidArgument")
        [] count > 0 /\ start >= 0 /\ start >= root.treeSize -> Failure("OutOfRange")
        [] OTHER -> IF gap THEN Failure("Internal") ELSE [code |-> "OK", leaves |-> rows]

-----------------------------------------------------------------------------
(***************************************************************************)
(* Properties.                                                             *)
(***************************************************************************)

QueuerPcs == {"idle", "insert", "enqueue", "commit", "failed"}
WriterPcs == {"idle", "dequeue", "remove", "sequence", "storeRoot", "treeHead", "commit"}

TablesType ==
  /\ leafData \subseteq LeafDataRow
  /\ unsequenced \subseteq UnsequencedRow
  /\ sequenced \subseteq SequencedRow
  /\ treeRoot \in LogRoot \cup {NoRoot}
  /\ treeHead \subseteq LogRoot

QueuersType ==
  /\ qpc \in [Queuers -> QueuerPcs]
  /\ qreq \in [Queuers -> [leaves : Batches, ts : Times] \cup {NoRequest}]
  /\ qtodo \in [Queuers -> SUBSET Nat]
  /\ qcur \in [Queuers -> Nat]
  /\ qdup \in [Queuers -> SUBSET Nat]
  /\ qfound \in [Queuers -> SUBSET LeafDataRow]
  /\ qleaf \in [Queuers -> SUBSET LeafDataRow]
  /\ qunseq \in [Queuers -> SUBSET UnsequencedRow]

WritersType ==
  /\ wpc \in [Writers -> WriterPcs]
  /\ wroot \in [Writers -> LogRoot \cup {NoRoot}]
  /\ wdq \in [Writers -> Seq(UnsequencedRow)]
  /\ widx \in [Writers -> Nat]
  /\ wdel \in [Writers -> SUBSET UnsequencedRow]
  /\ wseq \in [Writers -> SUBSET SequencedRow]

\* The tables hold rows of their columns' types; a transaction's local state is
\* that of the statement it is at.
TypeOK ==
  /\ TablesType /\ QueuersType /\ WritersType
  /\ acked \subseteq Leaf
  /\ faults \in 0..MaxFaults

\* No leaf is lost and none is logged twice: every leaf that was accepted into
\* leaf_data is either waiting in unsequenced or has a row in
\* sequenced_leaf_data, never both, and never more than one of either; and
\* both tables only name leaves that leaf_data holds.  It is at stake when two
\* signers dequeue at once, because UpdateSequencedLeaves ignores the answer
\* "duplicate" for a row whose queue entry the transaction has deleted.
LeafAccounting ==
  /\ \A r \in leafData : (r.id \in IdsOf(unsequenced)) # (r.id \in IdsOf(sequenced))
  /\ IdsOf(unsequenced) \cup IdsOf(sequenced) \subseteq IdsOf(leafData)
  /\ \A r, s \in leafData : r.id = s.id => r = s
  /\ \A r, s \in unsequenced : r.id = s.id => r = s
  /\ \A r, s \in sequenced : r.id = s.id => r = s

\* The rows in sequenced_leaf_data are what the current root signs: the hash
\* stored by StoreSignedLogRoot covers exactly them, and their sequence
\* numbers are 0..TreeSize-1 without a gap or a repetition.
RootMatchesRows ==
  /\ sequenced = treeRoot.rootHash
  /\ \A n \in 0..(treeRoot.treeSize - 1) : \E p \in sequenced : p.seq = n
  /\ \A p \in sequenced : p.seq < treeRoot.treeSize
  /\ \A p, r \in sequenced : p.seq = r.seq => p = r

\* There is one root at each revision, from 0 to that of the current root
\* without a gap, and current_tree_data (which every transaction begins from)
\* is the newest of them although UPDATE trees overwrites it blindly.
OneRootPerRevision ==
  /\ \A h, g \in treeHead : h.revision = g.revision => h = g
  /\ \A n \in 0..treeRoot.revision : \E h \in treeHead : h.revision = n
  /\ \A h \in treeHead : h.revision <= treeRoot.revision
  /\ treeRoot # NoRoot => treeRoot \in treeHead

\* Any two roots ever signed are consistent: the later one covers the leaves
\* of the earlier one at the same indices and is at least as large.
RootsConsistent ==
  \A h, g \in treeHead : h.revision <= g.revision =>
    /\ h.treeSize <= g.treeSize
    /\ h.rootHash = {p \in g.rootHash : p.seq < h.treeSize}

\* A reader that began at any root ever signed and reads a range at any later
\* moment gets the leaves that root covers, never the error for a gap, however
\* many commits came between its two statements.
ReadsMatchRoot ==
  \A h \in treeHead : \A start \in 0..(h.treeSize - 1) : \A count \in 1..(h.treeSize + 1) :
    GetLeavesByRange(h, start, count) =
      [code |-> "OK", leaves |-> {p \in h.rootHash : p.seq >= start /\ p.seq < start + count}]

\* What QueueLeaves returns to a client is the leaf that leaf_data holds under
\* that identity hash, for the first submission, for a duplicate of a
\* committed leaf and for a duplicate racing the first one: AddVC signs it.
RepliesAreStored ==
  \A a \in acked : \E r \in leafData : r.id = a.id /\ r.value = a.value

\* p waits for r: the statement p is at needs a key or a row that r has written.
QueuerWaits(p, r) ==
  /\ p # r
  /\ qpc[p] = "insert"
  /\ \E i \in qtodo[p] : NextInOrder(p, i) /\ IdAt(p, i) \in IdsOf(qleaf[r])

WriterWaits(x, y) ==
  /\ x # y
  /\ \/ wpc[x] = "remove" /\ wdq[x][widx[x]] \in wdel[y]
     \/ wpc[x] = "sequence" /\ \E p \in wseq[y] : p.seq = AssignedRow(x, widx[x]).seq
     \/ wpc[x] = "storeRoot" /\ HoldsTreesRow(y)

\* No set of transactions waits on itself, so PostgreSQL never has a deadlock
\* to break: QueueLeaves inserts in hash order, removeSequencedLeaves deletes
\* in queue order, sequence numbers are inserted in ascending order, and the
\* row of trees is taken last.
NoDeadlock ==
  /\ ~ \E S \in (SUBSET Queuers) \ {{}} : \A p \in S : \E r \in S : QueuerWaits(p, r)
  /\ ~ \E S \in (SUBSET Writers) \ {{}} : \A x \in S : \E y \in S : WriterWaits(x, y)

\* The log only grows: a step that stores a root keeps every leaf of the old
\* root at its index, keeps the rows of all tables that make up the log, and
\* removes a queue entry only by sequencing its leaf.
AppendOnly ==
  [][/\ treeRoot.rootHash \subseteq treeRoot'.rootHash
     /\ treeRoot.revision <= treeRoot'.revision
     /\ treeHead \subseteq treeHead'
     /\ leafData \subseteq leafData'
     /\ \A r \in unsequenced \ unsequenced' : r.id \in IdsOf(sequenced' \ sequenced)]_tables

-----------------------------------------------------------------------------
(***************************************************************************)
(* The tables implement the append-only log: committing QueueLeaves accepts *)
(* leaves, committing a signer's batch integrates them, and every other     *)
(* step (a statement, a rollback, InitLog, a root signed again) changes     *)
(* nothing.                                                                 *)
(***************************************************************************)
Log == INSTANCE AppendOnlyLog WITH
         MaxBatch <- DequeueLimit,
         accepted <- IdsOf(leafData),
         size <- treeRoot.treeSize,
         log <- treeRoot.rootHash

\* The storage refines AppendOnlyLog, under any interleaving of log servers,
\* signers and failures.
ImplementsLog == Log!Spec

-----------------------------------------------------------------------------
(***************************************************************************)
(* Liveness.  Signers run in a loop and every call is driven to its end;   *)
(* the cutoff is the signer's clock, which passes every queue timestamp.   *)
(* A queuer that waits for a key gets it when the holder ends (PostgreSQL  *)
(* wakes waiters in order), hence strong fairness: holders may come and    *)
(* go for ever.  Clients owe nothing.  Failures are finite (MaxFaults).    *)
(***************************************************************************)

LastTime == CHOOSE t \in Times : \A u \in Times : u <= t

Fairness ==
  /\ \A q \in Queuers : SF_vars(QueuerStep(q))
  /\ \A w \in Writers : WF_vars(WriterStep(w)) /\ SF_vars(DequeueLeaves(w, LastTime))

FairSpec == Spec /\ Fairness

\* Every leaf a client was told is queued is sequenced and covered by a root
\* in the end, in spite of signers that conflict with each other and roll back.
QueuedIsLogged ==
  \A id \in LeafIds :
    (id \in IdsOf(acked)) ~> (id \in IdsOf(treeRoot.rootHash))

\* Every QueueLeaves call ends, also when it has to wait for a transaction that
\* failed and was left open: its locks go when its context ends.
CallsEnd == \A q \in Queuers : (qpc[q] # "idle") ~> (qpc[q] = "idle")
=============================================================================
