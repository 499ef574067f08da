----------------------------- MODULE SubtreeStorage -----------------------------
(***************************************************************************)
(* The Merkle nodes of a log: pkg/storage/postgres/tree_storage.go and the  *)
(* parts of log_storage.go that begin and publish a revision.               *)
(*                                                                         *)
(* A transaction reads subtrees at the revision of the root it began from,  *)
(* changes them in its own subtree cache, publishes a root with the next    *)
(* revision and writes the changed subtrees when it commits.  A subtree's   *)
(* nodes are abstracted to the set of batches integrated into it, which is  *)
(* all its hashes depend on.  Transactions interleave at READ COMMITTED,    *)
(* one SQL statement per step.                                              *)
(***************************************************************************)
EXTENDS Integers, Sequences, FiniteSets

CONSTANTS
  SubtreeIds,   \* subtree prefixes
  Txs,          \* concurrent logTreeTX: signers, InitLog and snapshots
  MaxBegun,     \* bound: transactions begun
  MaxFaults     \* bound: statements and commits that fail

ASSUME FiniteAssumption == IsFiniteSet(SubtreeIds)
ASSUME BoundsAssumption == MaxBegun \in Nat /\ MaxFaults \in Nat

Batches == 1 .. MaxBegun
Nodes == SUBSET Batches
SubtreeRow == [id : SubtreeIds, rev : Nat, nodes : Nodes]

VARIABLES
  subtree,      \* committed rows, primary key <<id, rev>>
  head,         \* revision of the newest committed tree_head row, -1 when none
  statements,   \* the shared cache of prepared statements
  pc,           \* "idle", "open", "stored", "flushed", "failed"
  root,         \* revision of the root the transaction began from
  batch,        \* the batch of leaves it integrates
  loaded,       \* subtrees in its subtree cache
  cached,       \* the nodes of the loaded subtrees
  dirty,        \* subtrees SetMerkleNodes changed
  closed,       \* treeTX.closed
  live,         \* whether the database still has the transaction open
  history,      \* history: batch and subtrees of each committed revision
  begun, faults

tables == <<subtree, head, history>>
txvars == <<pc, root, batch, loaded, cached, dirty, closed, live>>
vars == <<tables, statements, txvars, begun, faults>>

Init ==
  /\ subtree = {} /\ head = -1 /\ history = <<>>
  /\ statements = [k \in {} |-> <<>>]
  /\ pc = [t \in Txs |-> "idle"]
  /\ root = [t \in Txs |-> -1]
  /\ batch = [t \in Txs |-> 0]
  /\ loaded = [t \in Txs |-> {}]
  /\ cached = [t \in Txs |-> [i \in SubtreeIds |-> {}]]
  /\ dirty = [t \in Txs |-> {}]
  /\ closed = [t \in Txs |-> TRUE]
  /\ live = [t \in Txs |-> FALSE]
  /\ begun = 0 /\ faults = 0

-----------------------------------------------------------------------------
(* Prepared statements: the numbers of the $n slots, in the order in which   *)
(* they stand in the text.                                                   *)

\* The arguments for num subtrees: their ids, tree, revision and tree; or four
\* columns for each.
Passed(sql, num) == IF sql = "select" THEN num + 3 ELSE 4 * num

Skeleton == [select |-> [first |-> 1, rest |-> 1, params |-> 3],
             insert |-> [first |-> 4, rest |-> 4, params |-> 0]]

expandPlaceholderSQL(sk, num) == sk.first + sk.rest * (num - 1)

Slots(sk, num) ==
  LET n == expandPlaceholderSQL(sk, num)
  IN [j \in 1 .. n + sk.params |-> IF j <= n THEN j ELSE sk.rest * num + (j - n)]

\* A slip: the number is not part of the key.
getStmtByText(sql, num) ==
  LET hits == {k \in DOMAIN statements : k[1] = sql} IN
  statements' = [k \in DOMAIN statements \cup {<<sql, num>>} |->
                   IF k \in DOMAIN statements THEN statements[k]
                   ELSE IF hits # {} THEN statements[CHOOSE h \in hits : TRUE]
                   ELSE Slots(Skeleton[sql], num)]

\* A hit leaves the cache alone, a miss prepares and adds the statement.
getStmt(sql, num) ==
  statements' = [k \in DOMAIN statements \cup {<<sql, num>>} |->
                   IF k \in DOMAIN statements THEN statements[k]
                   ELSE Slots(Skeleton[sql], num)]

-----------------------------------------------------------------------------
(* selectSubtreeSQL: the row with the greatest revision not above rev *)

Newest(i, rev) ==
  {s \in subtree : /\ s.id = i /\ s.rev <= rev
                   /\ \A o \in subtree : o.id = i /\ o.rev <= rev => o.rev <= s.rev}

getSubtree(i, rev) == UNION {s.nodes : s \in Newest(i, rev)}

getSubtrees(t, ids, rev) ==
  /\ loaded' = [loaded EXCEPT ![t] = @ \cup ids]
  /\ cached' = [cached EXCEPT ![t] =
                  [i \in SubtreeIds |-> IF i \in ids THEN getSubtree(i, rev) ELSE @[i]]]

writeRevision(t) == IF root[t] = -1 THEN -1 ELSE root[t] + 1

-----------------------------------------------------------------------------
(* Transactions *)

beginInternal(t) ==
  /\ pc[t] = "idle" /\ begun < MaxBegun
  /\ pc' = [pc EXCEPT ![t] = "open"]
  /\ root' = [root EXCEPT ![t] = head]
  /\ begun' = begun + 1
  /\ batch' = [batch EXCEPT ![t] = begun + 1]
  /\ loaded' = [loaded EXCEPT ![t] = {}]
  /\ cached' = [cached EXCEPT ![t] = [i \in SubtreeIds |-> {}]]
  /\ dirty' = [dirty EXCEPT ![t] = {}]
  /\ closed' = [closed EXCEPT ![t] = FALSE]
  /\ live' = [live EXCEPT ![t] = TRUE]
  /\ UNCHANGED <<tables, statements, faults>>

GetAtWriteRevision(t, ids) ==
  /\ pc[t] = "open" /\ root[t] # -1
  /\ ids # {} /\ ids \cap loaded[t] = {}
  /\ getStmt("select", Cardinality(ids))
  /\ getSubtrees(t, ids, writeRevision(t))
  /\ UNCHANGED <<tables, pc, root, batch, dirty, closed, live, begun, faults>>

\* The subtree cache asks only for the subtrees it does not hold.
GetMerkleNodes(t, ids) ==
  /\ pc[t] = "open" /\ root[t] # -1
  /\ ids # {} /\ ids \cap loaded[t] = {}
  /\ getStmt("select", Cardinality(ids))
  /\ getSubtrees(t, ids, root[t])
  /\ UNCHANGED <<tables, pc, root, batch, dirty, closed, live, begun, faults>>

\* A subtree already in the cache is changed there; another is read first,
\* at the revision about to be written.
SetMerkleNodes(t, i) ==
  /\ pc[t] = "open" /\ root[t] # -1 /\ i \notin dirty[t]
  /\ dirty' = [dirty EXCEPT ![t] = @ \cup {i}]
  /\ \/ /\ i \in loaded[t]
        /\ cached' = [cached EXCEPT ![t][i] = @ \cup {batch[t]}]
        /\ UNCHANGED <<loaded, statements>>
     \/ /\ i \notin loaded[t]
        /\ getStmt("select", 1)
        /\ loaded' = [loaded EXCEPT ![t] = @ \cup {i}]
        /\ cached' = [cached EXCEPT ![t][i] =
                        getSubtree(i, writeRevision(t)) \cup {batch[t]}]
  /\ UNCHANGED <<tables, pc, root, batch, closed, live, begun, faults>>

\* The revision the signer (or InitLog) gives the new root.
NewRevision(t) == root[t] + 1

StoreIgnoringConflict(t) ==
  /\ pc[t] = "open"
  /\ \A o \in Txs : pc[o] \notin {"stored", "flushed"}
  /\ pc' = [pc EXCEPT ![t] = "stored"]
  /\ UNCHANGED <<tables, statements, root, batch, loaded, cached, dirty, closed, live,
                 begun, faults>>

\* The UPDATE of trees waits for a transaction that has already updated the
\* row; the INSERT into tree_head fails when the revision is taken.
StoreSignedLogRoot(t) ==
  /\ pc[t] = "open"
  /\ \A o \in Txs : pc[o] \notin {"stored", "flushed"}
  /\ pc' = [pc EXCEPT ![t] = IF head < NewRevision(t) THEN "stored" ELSE "failed"]
  /\ UNCHANGED <<tables, statements, root, batch, loaded, cached, dirty, closed, live,
                 begun, faults>>

-----------------------------------------------------------------------------
(* Commit: flush, mark closed, commit *)

storeSubtrees(t) ==
  {[id |-> i, rev |-> writeRevision(t), nodes |-> cached[t][i]] : i \in dirty[t]}

\* The INSERT meets the primary key of a committed row.
KeyTaken(t) == \E s \in subtree : s.id \in dirty[t] /\ s.rev = writeRevision(t)

\* Nothing is flushed by InitLog (writeRevision -1) or when nothing is dirty.
Flush(t) ==
  /\ pc[t] = "stored" /\ ~KeyTaken(t)
  /\ IF dirty[t] = {} THEN UNCHANGED statements
     ELSE getStmt("insert", Cardinality(dirty[t]))
  /\ pc' = [pc EXCEPT ![t] = "flushed"]
  /\ closed' = [closed EXCEPT ![t] = TRUE]
  /\ UNCHANGED <<tables, root, batch, loaded, cached, dirty, live, begun, faults>>

FlushFailsClosed(t) ==
  /\ pc[t] = "stored" /\ dirty[t] # {}
  /\ \/ KeyTaken(t) /\ UNCHANGED faults
     \/ faults < MaxFaults /\ faults' = faults + 1
  /\ pc' = [pc EXCEPT ![t] = "failed"]
  /\ closed' = [closed EXCEPT ![t] = TRUE]
  /\ UNCHANGED <<tables, statements, root, batch, loaded, cached, dirty, live, begun>>

\* The flush error returns before closed is set.
FlushFails(t) ==
  /\ pc[t] = "stored" /\ dirty[t] # {}
  /\ \/ KeyTaken(t) /\ UNCHANGED faults
     \/ faults < MaxFaults /\ faults' = faults + 1
  /\ pc' = [pc EXCEPT ![t] = "failed"]
  /\ UNCHANGED <<tables, statements, root, batch, loaded, cached, dirty, closed, live, begun>>

Commit(t) ==
  /\ pc[t] = "flushed"
  /\ subtree' = subtree \cup storeSubtrees(t)
  /\ head' = NewRevision(t)
  /\ history' = IF root[t] = -1 THEN history
                ELSE Append(history, [batch |-> batch[t], ids |-> dirty[t]])
  /\ live' = [live EXCEPT ![t] = FALSE]
  /\ pc' = [pc EXCEPT ![t] = "idle"]
  /\ UNCHANGED <<statements, root, batch, loaded, cached, dirty, closed, begun, faults>>

\* A failed commit ends the transaction in the database as well.
CommitFails(t) ==
  /\ pc[t] = "flushed" /\ faults < MaxFaults
  /\ faults' = faults + 1
  /\ live' = [live EXCEPT ![t] = FALSE]
  /\ pc' = [pc EXCEPT ![t] = "idle"]
  /\ UNCHANGED <<tables, statements, root, batch, loaded, cached, dirty, closed, begun>>

\* A snapshot that changed nothing commits: there is nothing to flush.
CommitRead(t) ==
  /\ pc[t] = "open" /\ dirty[t] = {}
  /\ closed' = [closed EXCEPT ![t] = TRUE]
  /\ live' = [live EXCEPT ![t] = FALSE]
  /\ pc' = [pc EXCEPT ![t] = "idle"]
  /\ UNCHANGED <<tables, statements, root, batch, loaded, cached, dirty, begun, faults>>

\* A statement fails, a statement cannot be prepared, or the caller gives up:
\* the function of the transaction returns the error.
Fail(t) ==
  /\ pc[t] \in {"open", "stored"} /\ faults < MaxFaults
  /\ faults' = faults + 1
  /\ pc' = [pc EXCEPT ![t] = "failed"]
  /\ UNCHANGED <<tables, statements, root, batch, loaded, cached, dirty, closed, live, begun>>

\* The deferred Close rolls back a transaction that is not closed.
Close(t) ==
  /\ pc[t] = "failed"
  /\ live' = [live EXCEPT ![t] = @ /\ closed[t]]
  /\ closed' = [closed EXCEPT ![t] = TRUE]
  /\ pc' = [pc EXCEPT ![t] = "idle"]
  /\ UNCHANGED <<tables, statements, root, batch, loaded, cached, dirty, begun, faults>>

Done ==
  /\ begun = MaxBegun /\ \A t \in Txs : pc[t] = "idle"
  /\ UNCHANGED vars

Next ==
  \/ \E t \in Txs :
       \/ beginInternal(t) \/ StoreSignedLogRoot(t)
       \/ \E ids \in SUBSET SubtreeIds : GetMerkleNodes(t, ids)
       \/ \E i \in SubtreeIds : SetMerkleNodes(t, i)
       \/ Flush(t) \/ FlushFails(t) \/ Commit(t) \/ CommitFails(t) \/ CommitRead(t)
       \/ Fail(t) \/ Close(t)
  \/ Done

Spec == Init /\ [][Next]_vars

-----------------------------------------------------------------------------
(* Properties *)

TypeOK ==
  /\ subtree \subseteq SubtreeRow
  /\ head \in Nat \cup {-1}
  /\ history \in Seq([batch : Batches, ids : SUBSET SubtreeIds])
  /\ pc \in [Txs -> {"idle", "open", "stored", "flushed", "failed"}]
  /\ root \in [Txs -> Nat \cup {-1}]
  /\ batch \in [Txs -> Batches \cup {0}]
  /\ loaded \in [Txs -> SUBSET SubtreeIds]
  /\ cached \in [Txs -> [SubtreeIds -> Nodes]]
  /\ dirty \in [Txs -> SUBSET SubtreeIds]
  /\ closed \in [Txs -> BOOLEAN] /\ live \in [Txs -> BOOLEAN]
  /\ begun \in 0 .. MaxBegun /\ faults \in 0 .. MaxFaults

\* What revision r of the tree has in subtree i: the batches of the committed
\* revisions up to r that touched it.
ContentAt(i, r) ==
  {history[k].batch : k \in {n \in DOMAIN history : n <= r /\ i \in history[n].ids}}

\* Reading at any published revision returns exactly the nodes of that
\* revision, whatever was read stale, raced or failed before: getSubtrees'
\* "newest row not above the revision", although SetMerkleNodes reads at the
\* revision another transaction may be committing.
RevisionsReadBack ==
  \A r \in 0 .. head, i \in SubtreeIds : getSubtree(i, r) = ContentAt(i, r)

\* Every subtree an open transaction got from GetMerkleNodes is of the root it
\* began from, also when newer revisions were committed between its reads.
ReadsAreOfTheRoot ==
  \A t \in Txs : pc[t] = "open" =>
    \A i \in loaded[t] \ dirty[t] : cached[t][i] = ContentAt(i, root[t])

\* When ReadWriteTransaction has returned the database holds no transaction
\* open for it, also when the flush inside Commit or the commit failed.
TransactionsEnd == \A t \in Txs : pc[t] = "idle" => ~live[t]

\* Whichever transaction filled the cache, the statement that getStmt returns
\* for a text and a number of subtrees has a slot for each argument that
\* getSubtrees and storeSubtrees pass with that number, and slot $n takes the
\* n-th: no statement expanded for another number, no gap before the <param>s.
ArgumentsInOrder ==
  \A k \in DOMAIN statements : statements[k] = [j \in 1 .. Passed(k[1], k[2]) |-> j]
=============================================================================
