----------------------------- MODULE PreorderedLog -----------------------------
(***************************************************************************)
(* A PREORDERED_LOG tree of pkg/storage/postgres/log_storage.go: clients    *)
(* choose the index of every leaf (AddSequencedLeaves) and signers extend   *)
(* the root over what has become contiguous (DequeueLeaves).                *)
(*                                                                         *)
(* A call is one transaction at READ COMMITTED, one SQL statement per step. *)
(* An insert waits for a key another open transaction has inserted; a       *)
(* circle of waits is broken by PostgreSQL.  An error returns from          *)
(* AddSequencedLeaves without a rollback: the transaction lives until       *)
(* database/sql sees that the context it was begun with is done.            *)
(***************************************************************************)
EXTENDS Naturals, Sequences, FiniteSets, Functions

CONSTANTS
  Batches,      \* what clients submit: sequences of leaves
  Adders,       \* concurrent AddSequencedLeaves calls
  Signers,      \* concurrent signing transactions
  Limit,        \* the limit given to DequeueLeaves
  MaxCalls,     \* bound: calls begun
  MaxFaults     \* bound: statements and commits that fail

\* A leaf: its index, its identity hash, whether the hash has the right size.
Leaf == [idx : Nat, id : Nat, sized : BOOLEAN]

ASSUME BatchesAssumption == Batches \subseteq Seq(Leaf)
ASSUME LimitAssumption == Limit \in Nat

VARIABLES
  leafData,     \* committed identity hashes of leaf_data
  sequenced,    \* committed rows of sequenced_leaf_data: index -> identity hash
  root,         \* the signed root: the identity hashes it covers, in order
  pc,           \* "idle", "data", "sequence", "returned"
  batch, todo, cur,   \* the leaves, the positions left, the position at hand
  data, seqs,   \* uncommitted rows of the two tables
  saved,        \* what the innermost savepoint goes back to
  status,       \* per position: "ok" or "conflict"
  acked,        \* history: leaves reported OK by a call that returned
  spc, sroot, got,    \* signing transactions: step, root begun from, leaves
  calls, faults

tables == <<leafData, sequenced, root, acked>>
avars == <<pc, batch, todo, cur, data, seqs, saved, status>>
svars == <<spc, sroot, got>>
vars == <<tables, avars, svars, calls, faults>>

Init ==
  /\ leafData = {} /\ sequenced = <<>> /\ root = <<>> /\ acked = {}
  /\ pc = [c \in Adders |-> "idle"]
  /\ batch = [c \in Adders |-> <<>>]
  /\ todo = [c \in Adders |-> {}]
  /\ cur = [c \in Adders |-> 0]
  /\ data = [c \in Adders |-> {}] /\ seqs = [c \in Adders |-> {}]
  /\ saved = [c \in Adders |-> [data |-> {}, seqs |-> {}]]
  /\ status = [c \in Adders |-> <<>>]
  /\ spc = [s \in Signers |-> "idle"]
  /\ sroot = [s \in Signers |-> <<>>] /\ got = [s \in Signers |-> <<>>]
  /\ calls = 0 /\ faults = 0

leaf(c, p) == batch[c][p]

\* sortLeavesForInsert: in the order of the identity hashes, ties in any order.
InOrder(c) == {p \in todo[c] : \A q \in todo[c] : leaf(c, p).id <= leaf(c, q).id}

\* Who holds the key that c's statement needs.
Holders(c) ==
  {d \in Adders \ {c} :
     \/ /\ pc[c] = "data"
        /\ \E p \in InOrder(c) : leaf(c, p).sized /\ leaf(c, p).id \in data[d]
     \/ /\ pc[c] = "sequence"
        /\ \E r \in seqs[d] : r.idx = leaf(c, cur[c]).idx}

AddSequencedLeaves(c, b) ==
  /\ pc[c] = "idle" /\ calls < MaxCalls
  /\ calls' = calls + 1
  /\ batch' = [batch EXCEPT ![c] = b]
  /\ todo' = [todo EXCEPT ![c] = DOMAIN b]
  /\ saved' = [saved EXCEPT ![c] = [data |-> {}, seqs |-> {}]]
  /\ status' = [status EXCEPT ![c] = [p \in DOMAIN b |-> "none"]]
  /\ pc' = [pc EXCEPT ![c] = "data"]
  /\ UNCHANGED <<tables, cur, data, seqs, svars, faults>>

\* A leaf whose hash has the wrong size: the call returns, nothing is undone.
BadHash(c) ==
  /\ pc[c] = "data" /\ \E p \in InOrder(c) : ~leaf(c, p).sized
  /\ pc' = [pc EXCEPT ![c] = "returned"]
  /\ UNCHANGED <<tables, batch, todo, cur, data, seqs, saved, status, svars, calls, faults>>

InsertWithoutSavepoint(c) ==
  /\ pc[c] = "data"
  /\ \E p \in InOrder(c) :
       /\ leaf(c, p).sized /\ \A d \in Adders \ {c} : leaf(c, p).id \notin data[d]
       /\ data' = [data EXCEPT ![c] = @ \cup ({leaf(c, p).id} \ leafData)]
       /\ status' = [status EXCEPT ![c][p] = "ok"]
       /\ cur' = [cur EXCEPT ![c] = p]
  /\ pc' = [pc EXCEPT ![c] = "sequence"]
  /\ UNCHANGED <<tables, batch, todo, seqs, saved, svars, calls, faults>>

\* SAVEPOINT, then insert_leaf_data_ignore_duplicates, whose answer is unused.
InsertLeafData(c) ==
  /\ pc[c] = "data"
  /\ \E p \in InOrder(c) :
       /\ leaf(c, p).sized /\ \A d \in Adders \ {c} : leaf(c, p).id \notin data[d]
       /\ data' = [data EXCEPT ![c] = @ \cup ({leaf(c, p).id} \ leafData)]
       /\ status' = [status EXCEPT ![c][p] = "ok"]
       /\ cur' = [cur EXCEPT ![c] = p]
  /\ saved' = [saved EXCEPT ![c] = [data |-> data[c], seqs |-> seqs[c]]]
  /\ pc' = [pc EXCEPT ![c] = "sequence"]
  /\ UNCHANGED <<tables, batch, todo, seqs, svars, calls, faults>>

Taken(c, i) == i \in DOMAIN sequenced \/ \E r \in seqs[c] : r.idx = i

InsertKeepingData(c) ==
  LET l == leaf(c, cur[c])
  IN /\ pc[c] = "sequence" /\ Holders(c) = {}
     /\ todo' = [todo EXCEPT ![c] = @ \ {cur[c]}]
     /\ pc' = [pc EXCEPT ![c] = "data"]
     /\ IF Taken(c, l.idx)
        THEN /\ status' = [status EXCEPT ![c][cur[c]] = "conflict"]
             /\ UNCHANGED <<seqs, data>>
        ELSE /\ seqs' = [seqs EXCEPT ![c] = @ \cup {[idx |-> l.idx, id |-> l.id]}]
             /\ UNCHANGED <<status, data>>
     /\ UNCHANGED <<tables, batch, cur, saved, svars, calls, faults>>

\* insert_sequenced_leaf_data_ignore_duplicates; FALSE rolls back to the
\* savepoint and reports "conflicting LeafIndex" for this leaf alone.
InsertSequencedLeaf(c) ==
  LET l == leaf(c, cur[c])
  IN /\ pc[c] = "sequence" /\ Holders(c) = {}
     /\ todo' = [todo EXCEPT ![c] = @ \ {cur[c]}]
     /\ pc' = [pc EXCEPT ![c] = "data"]
     /\ IF Taken(c, l.idx)
        THEN /\ status' = [status EXCEPT ![c][cur[c]] = "conflict"]
             /\ data' = [data EXCEPT ![c] = saved[c].data]
             /\ seqs' = [seqs EXCEPT ![c] = saved[c].seqs]
        ELSE /\ seqs' = [seqs EXCEPT ![c] = @ \cup {[idx |-> l.idx, id |-> l.id]}]
             /\ UNCHANGED <<status, data>>
     /\ UNCHANGED <<tables, batch, cur, saved, svars, calls, faults>>

\* The transaction is over in the database, its uncommitted rows and its locks
\* with it.
End(c, at) ==
  /\ pc' = [pc EXCEPT ![c] = at]
  /\ batch' = [batch EXCEPT ![c] = <<>>] /\ status' = [status EXCEPT ![c] = <<>>]
  /\ todo' = [todo EXCEPT ![c] = {}] /\ cur' = [cur EXCEPT ![c] = 0]
  /\ data' = [data EXCEPT ![c] = {}] /\ seqs' = [seqs EXCEPT ![c] = {}]
  /\ saved' = [saved EXCEPT ![c] = [data |-> {}, seqs |-> {}]]

Abort(c, at) == End(c, at) /\ UNCHANGED <<tables, svars, calls>>

Finished(c) == pc[c] = "data" /\ todo[c] = {}

\* RELEASE, Commit and the return of the statuses.
Commit(c) ==
  /\ Finished(c)
  /\ leafData' = leafData \cup data[c]
  /\ sequenced' = [i \in DOMAIN sequenced \cup {r.idx : r \in seqs[c]} |->
                     IF i \in DOMAIN sequenced THEN sequenced[i]
                     ELSE (CHOOSE r \in seqs[c] : r.idx = i).id]
  /\ acked' = acked \cup {[idx |-> leaf(c, p).idx, id |-> leaf(c, p).id] :
                            p \in {q \in DOMAIN batch[c] : status[c][q] = "ok"}}
  /\ End(c, "idle")
  /\ UNCHANGED <<root, svars, calls, faults>>

CommitFails(c) == Finished(c) /\ faults < MaxFaults /\ faults' = faults + 1 /\ Abort(c, "idle")

\* A statement fails: PostgreSQL aborts the transaction, the call returns.
Fail(c) ==
  /\ pc[c] \in {"data", "sequence"} /\ faults < MaxFaults
  /\ faults' = faults + 1 /\ Abort(c, "returned")

\* PostgreSQL breaks a circle of waiting transactions by failing one of them.
Deadlock(c) ==
  /\ \E d \in Holders(c) : c \in Holders(d)
  /\ Abort(c, "returned") /\ UNCHANGED faults

ContextIgnored(c) == FALSE /\ Abort(c, "idle") /\ UNCHANGED faults

\* beginTreeTx begins with the caller's context: when the call has returned and
\* its context is done, the transaction is rolled back.
ContextDone(c) == pc[c] = "returned" /\ Abort(c, "idle") /\ UNCHANGED faults

-----------------------------------------------------------------------------
(* Signing *)

BeginSign(s) ==
  /\ spc[s] = "idle"
  /\ sroot' = [sroot EXCEPT ![s] = root]
  /\ spc' = [spc EXCEPT ![s] = "dequeue"]
  /\ UNCHANGED <<tables, avars, got, calls, faults>>

RowsAfterStart(start, count) == {i \in DOMAIN sequenced : i > start /\ i < start + count}

\* Rows of [start, start + count).
RowsInRange(start, count) == {i \in DOMAIN sequenced : i >= start /\ i < start + count}

EveryRowInRange(start, count) ==
  LET rows == RowsInRange(start, count)
      Before(i) == {j \in rows : j < i}
  IN [k \in 1 .. Cardinality(rows) |-> sequenced[CHOOSE i \in rows : Cardinality(Before(i)) = k - 1]]

\* The rows come in the order of their index, from start on, and the loop stops
\* at the first index that is not the wanted one: the k-th leaf is returned when
\* the k first indices are all there.
GetLeavesByRange(start, count) ==
  LET rows == RowsInRange(start, count)
      good == {k \in 1 .. count : \A j \in 1 .. k : start + j - 1 \in rows}
  IN [k \in good |-> sequenced[start + k - 1]]

DequeueLeaves(s) ==
  /\ spc[s] = "dequeue"
  /\ got' = [got EXCEPT ![s] = GetLeavesByRange(Len(sroot[s]), Limit)]
  /\ spc' = [spc EXCEPT ![s] = "store"]
  /\ UNCHANGED <<tables, avars, sroot, calls, faults>>

\* StoreSignedLogRoot and Commit: the revision key admits one successor of a
\* root, a signer that began from an older one fails.
StoreSignedLogRoot(s) ==
  /\ spc[s] = "store"
  /\ root' = IF root = sroot[s] THEN sroot[s] \o got[s] ELSE root
  /\ spc' = [spc EXCEPT ![s] = "idle"]
  /\ sroot' = [sroot EXCEPT ![s] = <<>>] /\ got' = [got EXCEPT ![s] = <<>>]
  /\ UNCHANGED <<leafData, sequenced, acked, avars, calls, faults>>

-----------------------------------------------------------------------------
Adding(c) ==
  \/ BadHash(c) \/ InsertLeafData(c) \/ InsertSequencedLeaf(c) \/ Commit(c)
  \/ Deadlock(c) \/ ContextDone(c)

Signing(s) == BeginSign(s) \/ DequeueLeaves(s) \/ StoreSignedLogRoot(s)

Next ==
  \/ \E c \in Adders : \/ \E b \in Batches : AddSequencedLeaves(c, b)
                       \/ Adding(c) \/ Fail(c) \/ CommitFails(c)
  \/ \E s \in Signers : Signing(s)

\* A call runs on in its goroutine and a signer in its loop.
Fairness == /\ \A c \in Adders : WF_vars(Adding(c))
            /\ \A s \in Signers : WF_vars(Signing(s))

Spec == Init /\ [][Next]_vars /\ Fairness

-----------------------------------------------------------------------------
(* Properties *)

\* A leaf reported OK is in both tables at the index it asked for, whatever
\* other leaf of its batch conflicted and whoever raced for the index.
AckedAreStored ==
  \A l \in acked : /\ l.idx \in DOMAIN sequenced /\ sequenced[l.idx] = l.id
                   /\ l.id \in leafData

\* No leaf_data row without a sequenced row: "if one of the two inserts fails,
\* we remove the side effect" (log_storage.go:611-613).
NoSideEffects == leafData = Range(sequenced)

\* The root covers exactly the leaves from index 0 on, in order, also while
\* indices are filled out of order.
RootIsPrefix ==
  \A k \in DOMAIN root : k - 1 \in DOMAIN sequenced /\ sequenced[k - 1] = root[k]

\* Every call gives its transaction back: calls do not wait for each other for
\* ever, neither in a circle of key waits nor for a call that returned early.
CallsEnd == \A c \in Adders : pc[c] # "idle" ~> pc[c] = "idle"

\* Signers reach every leaf that has become contiguous.
PrefixIsSigned ==
  \A n \in 0 .. MaxCalls : (\A i \in 0 .. n : i \in DOMAIN sequenced) ~> Len(root) > n
=============================================================================
