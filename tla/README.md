# Verifiable Credential Transparency: specifications and proofs

TLA+ modules for the VCT log (`src/`): what they model, what TLC checks on small
instances and what TLAPS proves for all instances. Paths below are relative to
`src/`; `postgres/` stands for `pkg/storage/postgres/`.

## 1. The system

VCT is a transparency log of verifiable credentials in the style of RFC 6962.

| Part | State | Operations |
|---|---|---|
| **vct agent** (`cmd/vct`, `pkg/controller`) | configuration store: alias to tree id; keys; log permissions | start-up (`getOrInit`, `createTreeAndInit`), `AddVC`, `GetSTH`, `GetEntries`, `GetEntryAndProof`, `GetProofByHash`, `GetSTHConsistency`, `GetIssuers`, `Webfinger` |
| **log server** (`cmd/log_server`) | none of its own | Trillian's gRPC API on top of the storage: `QueueLeaves`, `InitLog`, reads, `CreateTree` |
| **log signer** (`cmd/log_signer`, also embedded) | none of its own | Trillian's sequencer loop: one read-write transaction per batch |
| **log storage** (`postgres/log_storage.go`, `queue.go`) | tables `leaf_data`, `unsequenced`, `sequenced_leaf_data`, `tree_head`, `trees.current_tree_data` | `QueueLeaves`, `DequeueLeaves`, `UpdateSequencedLeaves`, `StoreSignedLogRoot`, `GetLeavesByRange`, `AddSequencedLeaves`, reads by hash |
| **tree storage** (`postgres/tree_storage.go`) | table `subtree`, subtree cache, prepared-statement cache | begin, commit, rollback, `SetMerkleNodes`, `getSubtrees`, `storeSubtrees`, `getStmt` |
| **admin storage** (`postgres/admin_storage.go`) | tables `trees`, `tree_control` | create, update, soft delete, undelete, hard delete, list |
| **certificate pool** (`internal/pkg/tlsutil`) | certificates, pool, dirty flag | `Add`, `Get` from several goroutines |
| **logging** (`internal/pkg/log`) | the level of each module | `SetSpec`, `GetSpec`, `SetLevel` from several goroutines |
| **client** (`pkg/client/vct`), REST handlers | none | requests, leaf hash, verification; error to status code |
| **JSON canonicalizer** (`internal/pkg/jsoncanonicalizer`) | none | text to canonical text |

Trillian (v1.3.14), PostgreSQL and `database/sql` are not part of the repository.
They are modelled from the way `src/` uses them, and so marked in the map.

How the parts interact. `AddVC` queues one leaf, identified by the hash of the
credential, and signs a timestamp over the leaf the storage *returns*, so that a
resubmission gets the timestamp of the first submission. Signers take batches
from the queue in transactions of their own, give the leaves the next indices
and store a new root. Log servers and signers share nothing but the database,
and `BeginTx` is called without options: transactions are READ COMMITTED.

What makes it hard:

- Several log servers insert overlapping batches; a duplicate may be of a leaf
  whose first insert has not been committed yet.
- Several signers may run: with `--force_master` (as in `README.md:67` and in the
  signer embedded in the agent) there is no election. They read the root and
  select from the queue without locks.
- Many results are ignored: the `false` of a duplicate sequenced row
  (`queue.go:92`), the error of `UPDATE trees` (`log_storage.go:824`).
- `QueueLeaves` returns errors without closing its transaction.
- A reader uses the tree size it read first for a SELECT that sees later commits.
- Processes die between statements; answers are lost after the commit.
- Agents that start together agree on keys and trees by sleeping between two reads
  of a store that has no compare-and-swap.
- Checks and the writes they guard are separate statements (`admin_storage.go`) or
  separate critical sections (`certpool.go`).

`PROJECT.json` lists each hazard at its line with the properties that cover it.

## 2. Modules

| Module | What it is |
|---|---|
| `AppendOnlyLog` | abstract specification: leaves are accepted once and appended once, in batches, at the next free index |
| `LogStorage` | the log storage of one LOG tree, with its callers; properties |
| `MCLogStorage` | small instances of `LogStorage` |
| `LogStorageProofs`, `LockOrderProofs` | its type correctness, inductive invariant and theorems; why its transactions never deadlock |
| `SubtreeStorage`, `MCSubtreeStorage`, `SubtreeStorageProofs` | Merkle nodes by revision, subtree cache, flush, statement cache |
| `PreorderedLog`, `MCPreorderedLog`, `PreorderedLogProofs` | a PREORDERED tree: `AddSequencedLeaves` with savepoints, and its signers |
| `AdminStorage`, `MCAdminStorage`, `AdminStorageProofs` | the life of trees in `trees` and `tree_control` |
| `Bootstrap`, `MCBootstrap` | agents that start on a shared configuration store |
| `Controller` | the agent's commands, REST handlers and status codes, as operators |
| `Agent`, `MCAgent` | clients, agents and logs together: `Controller` composed with `AppendOnlyLog` |
| `AgentProofs` | what the handlers of `Controller` answer, and the theorems about `Agent` |
| `ServerRun`, `MCServerRun` | log servers and signers from start to return: schema, etcd, goroutines, signals |
| `StartupProofs` | the theorems about `Bootstrap` and `ServerRun` |
| `CertPool`, `MCCertPool`, `CertPoolProofs` | concurrent `Add` and `Get` |
| `JSONTexts` | the reference: JSON texts by their grammar, what they denote and their canonical form |
| `Canonical`, `MCCanonical` | the canonicalizer as operators |

### State and actions of LogStorage

The tables are sets of rows (`leafData`, `unsequenced`, `sequenced`, `treeHead`)
and the root in the tree's row of `trees` (`treeRoot`). One tree is modelled: all
statements are qualified by `tree_id`. A leaf identity hash is a number, because
its order matters; a leaf value is a model value. The root hash is the set of
rows it covers: two roots are equal exactly if they cover the same leaves at the
same indices, which is what an injective hash gives.

Each *queuer* is one `QueueLeaves` call at a time, each *writer* one
`ReadWriteTransaction`. A step is one SQL statement. What a transaction wrote is
kept in its own variables (`qleaf`, `qunseq`, `wdel`, `wseq`) until it commits; a
statement that needs a key or a row another open transaction has written is not
enabled until that transaction ends.

| Action | Code |
|---|---|
| `BeginQueueLeaves` | `beginInternal`, `log_storage.go:241-276`; refused without a root |
| `InsertLeafData` | first statement of the insert loop, in the order of `sortLeavesForInsert`; a duplicate is remembered (`480-524`) |
| `InsertUnsequenced` | the work queue entry (`526-548`) |
| `RetrieveExisting` | the stored leaves of the duplicates, with the count check at `572` (`554-603`) |
| `CommitQueueLeaves` | commit and reply (`321-353`); the reply may be lost |
| `FailQueueLeaves`, `ContextDone` | an error returned without `Close`; the context's end rolls back |
| `CrashQueuer`, `AbortWriter` | a process or a statement fails in the middle |
| `BeginInitLog`, `BeginIntegrate` | `ReadWriteTransaction` on a tree without and with a root |
| `DequeueLeaves` | the SELECT of `log_storage.go:381-444`: due rows in order, at most the limit |
| `RemoveSequencedLeaf` | one DELETE of `queue.go:109-132`, with the row count check |
| `UpdateSequencedLeaf` | one insert of `queue.go:79-107`; a taken number is ignored |
| `UpdateTreesRow`, `InsertTreeHead` | the two statements of `StoreSignedLogRoot`, `813-842` |
| `CommitWriter` | `tree_storage.go:329-341` |

`GetLeavesByRange` is an operator: the root of a reader's transaction is any root
ever stored, its SELECT runs in the current state, and `ReadsMatchRoot` ranges
over all of these. The numbering of leaves (`AssignedRow`) is Trillian's.

Decisions worth knowing:

- The error of `UPDATE trees` and a failed `Scan` in `fetchLatestRoot` are
  ignored by the code, but PostgreSQL then refuses every later statement of the
  transaction: the next checked statement fails. Both are `AbortWriter`.
- The SQL functions answer other errors than a duplicate key with a notice and no
  `RETURN`, which PostgreSQL turns into an error: `FailQueueLeaves`, `AbortWriter`.
- `QueueLeaves` on a tree without a root returns with an open transaction that
  has written nothing: no step.
- The flush of subtrees in `Commit` is modelled in `SubtreeStorage`.

### The other modules

**SubtreeStorage.** `subtree` is the table, `head` the newest revision in
`tree_head`, `statements` the cache of prepared statements. A transaction reads
subtrees at the revision of its root (`GetMerkleNodes`), changes them in its cache
(`SetMerkleNodes`, which reads at the *write* revision), publishes a root
(`StoreSignedLogRoot`), writes the changed subtrees (`Flush`) and commits. The
nodes of a subtree are the set of batches integrated into it, which is what its
hashes depend on. `expandPlaceholderSQL` and `getStmt` are operators on the
positions of placeholders: what they must get right is which argument lands where.
A failed flush returns with the transaction open (`FlushFails`); `Close` rolls back.

**PreorderedLog.** One step per statement of `AddSequencedLeaves`: the savepoint
and the insert into `leaf_data` (`InsertLeafData`), the insert into
`sequenced_leaf_data` with the rollback to the savepoint on a conflict
(`InsertSequencedLeaf`), commit. An error returns without a rollback; the
transaction lives until its context ends (`ContextDone`). Signers take the
contiguous rows behind the root (`GetLeavesByRange`) and store a longer root.

**AdminStorage.** Each client runs one operation per transaction, one statement
per step; `UPDATE` and `DELETE` wait for a row another transaction has written and
then act on what it left. `last` remembers the last committed delete or undelete.

**Bootstrap.** Each agent resolves the keys of its `Plan` with `getOrInit`: `Get`,
then either sleep and compare (`Wake`) or `Create`, `InitLog`, `Put`. Time passes
in seconds, which run down sleeps and age initialisations; a retry comes after a
pause of one. Nothing bounds how long an initialisation takes: `slow` remembers the
keys of which one took as long as the sync timeout. Requests may fail after
they were carried out; `CreateTree` is retried, `InitLog` is not.

**Controller and Agent.** `Controller` has an operator per command, a list of early
returns in the order of the code (validation, permission, the call to the log) and
the body that is sent when none applies. Arithmetic is on an
int64 cut down to `-IntMax-1 .. IntMax`. Which token a request needs is decided as
in the code, by the names of endpoints that its URI contains (`uri`), not by the
operation it leads to. A credential says which of `ParseCredential`, `CreateLeaf`
and `MarshalCanonical` fail for it, and `NotJSON` are the names that REST passes on
with `%q` in a form that the commands cannot decode. `Agent` has the clients (submit,
read), the requests under way and the logs; it moves each log by the actions of
`AppendOnlyLog`, which `LogStorage` is shown to implement. `AddVC` is two steps: the
leaf gets its timestamp, then it is queued and the leaf the log *returns* is signed;
every call, signature and answer may fail in between.

**ServerRun.** `CreateObject` is one statement of `storage.sql` in the import's implicit
transaction; a statement waits for another open import. The main goroutine goes
through import, provider, announcement, registration, listen and serve; the HTTP
goroutine and those that wait for a signal interleave with it and share `err`. The
calls to etcd fail like others; those of the withdrawal, whose errors the code
ignores, fail without a trace but in `stranded` (`UnannounceFails`).

**CertPool.** One step per critical section or atomic operation. A certificate is a
pointer to a content: the index compares contents, `removeDuplicates` pointers. What
`Add`'s filter keeps is a set, appended in any order. `due` is what a
`Get` owes its caller: all that was added before it, unless another `Get` was then
publishing or a failed load had lost the flag.

**Canonical and JSONTexts.** The parser works on lexemes instead of bytes:
punctuation, white space, numbers, other words and quoted strings, whose spelling is
a sequence of raw characters and escapes. Escapes, surrogates, UTF-16 sort keys, the
insertion sort and the choice of a number's format are as in the code; a number is
its decimal digits and exponent, and `ParseFloat` and `FormatFloat` are `strconv`'s.
The reference reads a text by the JSON grammar, without position, and gives an object
as a set of members (`Denotes`); it writes a value as RFC 8785 has it (`Canon`); and
it names the two ways in which `Transform` takes more than JSON (`Repaired`).

## 3. Runs

| Run | Instance | Checks |
|---|---|---|
| `queue` | 2 queuers, 1 writer, 2 leaves with 2 values, batches out of order and with one leaf twice and three times, 1 failure | `LeafAccounting`, `RepliesAreStored`, `NoDeadlock` |
| `sign` | 1 queuer, 2 writers, 2 leaves, 2 timestamps, 1 failure, one re-signed root | `RootMatchesRows`, `RootsConsistent`, `ReadsMatchRoot`, `NoDeadlock`, `AppendOnly`, `ImplementsLog` |
| `live` | 2 queuers, 2 writers, a batch of 2 leaves, as many as a signer takes, and one that always fails its count check, `FairSpec` | `QueuedIsLogged`, `CallsEnd` |
| `subtrees` | 2 transactions at a time, 5 in all, 2 subtrees, 1 failure | `RevisionsReadBack`, `ReadsAreOfTheRoot`, `TransactionsEnd`, `ArgumentsInOrder` |
| `preordered` | 2 calls, 2 signers, 5 kinds of batches, 1 failure | `AckedAreStored`, `NoSideEffects`, `RootIsPrefix`, `CallsEnd`, `PrefixIsSigned` |
| `admin` | 2 clients, 5 transactions, 1 tree id, 2 settings, 1 failure | `ControlForEveryTree`, `DeletedAsLastCommitted`, `ReturnsCommittedRow` |
| `bootstrap` | 2 agents, a signing key and a tree, 2 failures or crashes, initialisations of any length | `ResolvedIsStored`, `NoNewValueOnceResolved`, `ResolvedTreeIsInitialised`, `StartEnds` |
| `agent` | 2 clients that both write, one without the read token, 2 logs, 6 credentials, reads at the bounds of a 4-bit integer, names that do not decode, 1 failure | `TimestampIsOfTheLoggedLeaf`, `LoggedIsPermitted`, `ProofsAreOfTheRequestedTree`, `EntriesAreTheRange`, `NoErrorWithoutReason` |
| `servers` | a server and a signer, each started twice, 2 failures or crashes | `ImportedIsComplete`, `ReturnedIsNotAnnounced`, `StopsOnSignal` |
| `certpool` | 2 goroutines, 5 calls, 3 certificates of which two share a subject, 1 failing load | `PoolOnlyGrows`, `GetHoldsPreviousAdds` |
| `canonical` | every text of up to 5 lexemes, objects of up to 3 members in all orders, nested ones, and these with a lexeme left out; numbers around 10^-6 and 10^21, out of range, and in spellings only Go has | `AcceptsJSON`, `CanonicalFormOfTheValue`, `CanonicalIsFixed` |

These pass, with deadlock checking except in `canonical`, where a call that failed
has nothing more to do. What they show:

- `LeafAccounting`: an accepted leaf is in exactly one of queue and log. The
  signer that loses a race deletes queue entries and has its inserts ignored; it
  is the revision key of `tree_head` that makes it roll back.
- `RootMatchesRows`, `RootsConsistent`: the current root is that of the rows, and
  any two roots are consistent.
- `ReadsMatchRoot`: a range read returns what the reader's root covers, whatever
  was committed since.
- `RepliesAreStored`: `AddVC` signs the leaf that is stored.
- `NoDeadlock`: lock waits form no cycle; insertion, deletion and numbering orders
  are common to all transactions, and the row of `trees` comes last.
- `AppendOnly`, `ImplementsLog`: the storage implements `AppendOnlyLog` with
  `accepted` the hashes in `leaf_data`, `size` and `log` those of the root.
- `RevisionsReadBack`, `ReadsAreOfTheRoot`: every root's nodes stay readable at its
  revision, and a transaction reads those of its own root.
- `TransactionsEnd`, `ArgumentsInOrder`: a failed flush leaks no transaction; a
  cached statement has a place for every argument of whoever gets it, in order.
- `AckedAreStored`, `NoSideEffects`, `RootIsPrefix`: a leaf reported OK is in both
  tables, a refused one in neither because of this call, and a root has no gap.
- `ControlForEveryTree`, `DeletedAsLastCommitted`, `ReturnsCommittedRow`: concurrent
  lifecycle operations keep the two tables in step, never undo each other's
  deletions, and answer with what they commit.
- `ResolvedIsStored`, `NoNewValueOnceResolved`: agents agree on every key *of which no
  initialisation took as long as the sync timeout*; for the others see below.
  `ResolvedTreeIsInitialised` holds of all keys.
- `TimestampIsOfTheLoggedLeaf`: a client can compute the hash of its logged leaf
  from its timestamp, for duplicates and retries too; `LoggedIsPermitted`: no path
  of `AddVC` logs what the permissions, `ParseCredential` and the list of issuers of
  the log do not let in (it says nothing of tokens); `ProofsAreOfTheRequestedTree`: a
  proof has the size that was asked for; `EntriesAreTheRange`: at the bounds of the
  integers too, a range answer is a non-empty part of the range that was asked for;
  `NoErrorWithoutReason`: while no call fails, a 5xx is sent only for the requests
  named below, and every range that starts inside the log and whose length is an int64
  is served.
- `ImportedIsComplete`: "already exists" is benign because the import is one
  transaction; `ReturnedIsNotAnnounced`: who returns has withdrawn its entry, also
  when its context is cancelled, unless etcd refused just that.
- `PoolOnlyGrows`, `GetHoldsPreviousAdds`: concurrent `Get`s never publish less than
  there was, and a `Get` returns what was added before it, with the exceptions named
  below.
- `AcceptsJSON`, `CanonicalFormOfTheValue`, `CanonicalIsFixed`: the parser accepts
  JSON, and beyond it only what `Repaired` turns into JSON; what it writes for a text
  that denotes a value is the canonical form of that value, and a fixed point.
- `QueuedIsLogged`, `CallsEnd`, `PrefixIsSigned`, `StartEnds`, `StopsOnSignal`: see
  fairness.

### Where the code disagrees with what is said of it

`bootstrap_slow` (2 agents, no failures) checks `SameLogIdEveryTime` and finds it
violated. The repository's `README.md:133` has the log id of an alias stay the same
once it is stored. `getOrInit` takes a value for settled when it has not changed for
`--sync-timeout` seconds, but an agent that found no value may need longer until its
`Put`: `CreateTree` is retried `--timeout` times with pauses of a second, and no call
has a deadline. It then overwrites the id that the other agent already serves. The
compose file of the BDD tests runs two agents with a timeout of 60 and a sync timeout
of 3.

Other properties are stated with the exceptions the code has; a reader should know
them:

- `GetHoldsPreviousAdds` promises less than the comment at `certpool.go:47-48`.
  `Get` clears the flag before it swaps the pool, so another `Get` in between
  returns the old pool, and a failing load loses the flag until the next `Add`.
  Two `Add`s that filter before either appends queue a certificate twice.
- `ReturnedIsNotAnnounced` is about processes that return. The entry of one that
  dies stays: `AddEndpoint` (`serverutil.go:241`) is not given the lease. The errors of
  the withdrawal are ignored (`serverutil.go:249-250`), and the entry may then stay too.
- `HardDeleteTree` checks that a tree is soft-deleted and deletes it in later
  statements (`admin_storage.go:374`): an `UndeleteTree` that commits in between is not
  seen, although the comment at `serverutil.go:46` has a tree remain Deleted until it
  is hard-deleted. `AdminStorage` has these steps; no property is about them.
- `NoErrorWithoutReason` names what the agent answers with a 5xx although nothing
  failed: a credential `ParseCredential` takes and `CreateLeaf` does not (a JWT is no
  JSON object, `command.go:333`), a range that starts behind the end of the log
  (`command.go:475`), and an alias or a resource with characters that `%q` writes in
  Go's way and not in JSON's (`operation.go:251`, `274`, `349`). The range `[0, 2^63-1]`
  is refused with a 400: its length is no int64.
- Tokens go by the text of the URI (`start.go:1164`, `1170`), so what a request needs
  may be another than that of the endpoint it reaches. Nothing is stated about tokens.
- `Run` may return without serving when the HTTP goroutine, which shares its `err`,
  fails between `net.Listen` and the test at `serverutil.go:158`. `ServerRun` has
  these steps; what was announced is withdrawn then too.
- `StopsOnSignal` is about log servers. A signer's context is cancelled by the same
  signal, and its `AwaitSignal` may see that first and not call `Stop`.
- `AcceptsJSON` allows two kinds of texts that are not JSON: numbers that only Go
  spells so (`01`, `+1`, `.5`, `1.`, `0x1p4`; `jsoncanonicalizer.go:236`), and an
  escaped surrogate followed by the escape of another character, which line 183 turns
  into U+FFFD while JCS has it refused. `encoding/json`, which makes the
  texts of the values the agent and the client pass to `MarshalCanonical`, writes neither.

Bounds. Two transactions of a kind are what every conflict in the code is
between; two leaves are the least that can be locked in two orders, and with a
limit of 2 a signer takes both, one or none of them. `MaxRevision` bounds how
often an unchanged root is signed again (the only unbounded repetition);
`MaxFaults` (`MaxServerFaults` in `ServerRun`) bounds failures. Symmetry is used for queuers, writers and
transactions in safety runs only.

In `SubtreeStorage` five transactions let two revisions be written while a third
transaction reads the first; two subtrees are the least that can be at different
revisions. The batches of `PreorderedLog` take keys in opposite orders, repeat an
index, repeat a leaf, leave a gap and have a bad hash after a good leaf; two
calls, each open for any time, are what competes. One tree
id is enough for `AdminStorage` because no statement concerns two trees; an id is
never drawn twice. In `Bootstrap` the sync timeout is 2 seconds, so that initialisations
are shorter, as long and longer; ages stop there, since nothing tells longer ones apart.
`MaxFresh` is not reached by a start that ends. In `Agent` the integers are
`-8..7`, with the argument 8 as a number that does not fit, and `maxRange` is 1, so
that capping, overflow and the ends of the log all occur; `MaxReads` bounds reads.
`Script` in `ServerRun` has one statement of each kind. A canonical text needs three names to be inserted before, between and
behind others.

Fairness. Signers run in a loop and every started call is driven on, hence weak
fairness for each writer. `live` has no failures at will: its failing batch fails
as it does in the code, by the count check, and its signers fail by their
conflicts. A queuer may wait for a key that other transactions take
again and again; PostgreSQL wakes waiters, hence strong fairness for its steps.
The cutoff is the signer's clock, which passes every queue timestamp, hence
strong fairness of dequeueing with the last cutoff. Clients owe nothing, and
nothing else fails. That the context of a failed call ends
(`ContextDone`) is the gRPC server's doing: it cancels a handler's context when
the handler returns.

`PreorderedLog` assumes the same of calls and signers; weak fairness is enough
there, as only bounded calls compete for a key. In `Bootstrap` every request
returns and the clock runs on (`Step`, `Tick`). In `ServerRun` goroutines are
scheduled (`Main`, `AwaitSignalStop`, `AwaitSignalCancel`). How often calls fail is
bounded in all three. Nobody owes a start, a signal or a request.

## 4. Proofs

Nine components have theorems, in eight proof modules. All but `Controller`,
which has no state, have the same shape: an inductive invariant `IInv`, a lemma that
`Init` implies it, a lemma per action that keeps it, and the properties as its
consequences. TLC finds each `IInv` to hold on the instance of the component's run
too: a module that EXTENDS the `MC` module and the proof module, with `INVARIANT
IInv`, checks it. `StartupProofs` has the variables of two components, whose
names differ so that it can extend both; there the definitions of the invariant
are taken over instead.

### LogStorage

The theorems hold for any number of queuers and writers, any leaves, batches,
limit and bounds. The assumptions on the constants are those in `LogStorage`:
hashes and timestamps are natural numbers (they are ordered), there is a
timestamp, batches are sequences of leaves, the dequeue limit is positive, and
finitely many transactions are open at a time (only `NeverDeadlocked` needs that).

| Theorem | Statement |
|---|---|
| `TypeCorrect` | `Spec => []TypeOK` |
| `Invariance` | `Spec => []IInv` |
| `NoLeafLostOrRepeated` | `Spec => []LeafAccounting` |
| `RootIsOfRows` | `Spec => []RootMatchesRows` |
| `RevisionsAreUnique` | `Spec => []OneRootPerRevision` |
| `RootsStayConsistent` | `Spec => []RootsConsistent` |
| `RepliesComeFromStore` | `Spec => []RepliesAreStored` |
| `ReadsAreOfRoot` | `Spec => []ReadsMatchRoot` |
| `LogOnlyGrows` | `Spec => AppendOnly` |
| `StorageImplementsLog` | `Spec => ImplementsLog` |
| `LockOrder` | `Spec => []LocksInOrder` |
| `NeverDeadlocked` | `Spec => []NoDeadlock` |

`TypeOK` and `OneRootPerRevision` (one root per revision, the newest of which is in
`trees`) are left to the proofs. None of these is inductive: each speaks of committed tables, and what a commit
does depends on what the transaction did before. `IInv` adds

- for queuers: the rows an open call has inserted are new, belong to its request
  and come in pairs of leaf and queue entry, except for the leaf it is at; two
  open calls have inserted no common key; what it will answer is stored or its own;
- for writers: the root a writer has read is the current one or has a lower
  revision, and whoever has passed the key check of `tree_head` has read the
  current one; the rows a writer deleted are those of its batch it went past, all
  still in the queue, and two writers have deleted no common row; as long as its
  root is current it has inserted exactly the numbers it assigned;
- for tables: the safety invariants themselves.

The argument at a writer's commit: it has passed the check, so its root is the
current one; hence its deletions and insertions are exactly those of its batch,
and the new root is that of the new rows. Every other open writer now has an
older root, so the key check will stop it; its deletions are disjoint from the
committed ones, so they still name rows of the queue.

The last two are in `LockOrderProofs`. `LocksInOrder` says that a transaction holds
only what comes before what it goes on to lock: a queuer no key behind one it has
still to insert, a writer rows of a batch that is in queue order, and sequence
numbers below the one it is at. It is inductive with `IInv`; it holds because of the
sort in `QueueLeaves`, the `ORDER BY` of the dequeue and the numbering in that order,
and a rolled-back or retried transaction starts with no locks. Hence, if one
transaction waits for another that waits too, the second waits for something later in
the order (`QueuerWaitsGrow`, `WriterWaitsGrow`): a later key; a later row or number,
or a number where the first waits for a row. Who holds the row of `trees` has only
the tree head and the commit left and waits for nobody. A finite set with a strict order has a
maximal element (`MaximalElement`), and that transaction cannot be waiting for one of the set.

### SubtreeStorage

For any set of concurrent transactions, any finite set of subtrees and any bounds.

| Theorem | Statement |
|---|---|
| `Invariance` | `Spec => []IInv` |
| `RevisionsAreKept` | `Spec => []RevisionsReadBack` |
| `SnapshotsAreConsistent` | `Spec => []ReadsAreOfTheRoot` |
| `NoTransactionLeaks` | `Spec => []TransactionsEnd` |
| `StatementsTakeArguments` | `Spec => []ArgumentsInOrder` |

`IInv` adds that no row of `subtree` is above the newest revision, that of two open
transactions at most one has passed the key check of `tree_head` and it began from
the newest root (`Exclusive`), that a flushed transaction's rows are exactly its
changed subtrees at its revision, and that a cache holds the nodes of the root its
transaction began from, plus its own batch in the changed ones (`CacheOK`). The
argument: the transaction that commits a revision began from the one before, so
what it read is what that revision holds; older revisions are never written again,
so reading "the newest not above" gives the same rows for ever.

### AdminStorage

For any non-empty sets of tree ids and settings, any clients and bounds.

| Theorem | Statement |
|---|---|
| `Invariance` | `Spec => []IInv` |
| `ControlRowsMatch` | `Spec => []ControlForEveryTree` |
| `DeletionsAreKept` | `Spec => []DeletedAsLastCommitted` |
| `OnlyCreationAdds` | `Spec => OnlyCreateAddsTrees` |
| `ReturnedRowIsCommitted` | `Spec => ReturnsCommittedRow` |

`OnlyCreateAddsTrees` (no update or undeletion brings back a tree that was
hard-deleted meanwhile) is left to the proof. The invariant says what each open transaction has written, by its operation and
the statement it is at, and that two of them never hold one row: a commit then
changes both tables for the same tree, and an update leaves the deleted flag alone.

### Bootstrap

In `StartupProofs`. For any agents, plans, timeouts and bounds.

| Theorem | Statement |
|---|---|
| `Invariance` | `Spec => []IInv` |
| `AgentsAgree` | `Spec => []ResolvedIsStored` |
| `ResolvedIsFinal` | `Spec => []NoNewValueOnceResolved` |
| `ServedLogsAreInitialised` | `Spec => []ResolvedTreeIsInitialised` |

The heart of `IInv` is about time: whenever one agent sleeps on a value while
another is initialising the same key, the time the sleeper has left plus the age of
the initialisation is at least the sync timeout. The initialisation found the key
empty, so it began before the sleep. An initialisation still under way when the
sleep ends has therefore taken the sync timeout, and its key is `slow`. Hence nobody
overwrites a value of another key that was read twice. That the exception is needed
is what `bootstrap_slow` shows. `ServedLogsAreInitialised` needs none of this: a value
is stored after `InitLog` has returned.

### PreorderedLog

For any batches of leaves, any calls and signers, any limit and bounds.

| Theorem | Statement |
|---|---|
| `Invariance` | `Spec => []IInv` |
| `AcknowledgedIsStored` | `Spec => []AckedAreStored` |
| `ConflictsLeaveNothing` | `Spec => []NoSideEffects` |
| `RootCoversPrefix` | `Spec => []RootIsPrefix` |
| `CommittedIsKept` | `Spec => [][RowsKept /\ RootKept]_vars` |

`NoSideEffects` compares committed tables; a call that has done half of a leaf has
them out of step in its own rows. `IInv` says where a call may be: before a leaf its
rows of the two tables are paired (`RowsOK`), between the two inserts its
*savepoint* is, and the open insert is of the leaf at hand. Hence a rollback to the
savepoint and a commit both restore the pairing, and an error in between leaves a
transaction that can only be rolled back. Two calls never hold rows of one index, and
none of a committed one (`KeysOK`, `KeysApart`), so a commit overwrites nothing. A
signer holds committed rows that follow the root it began from (`SignerOK`), and rows
are never taken back (`RowsKept`), so the root it stores is a prefix even if others
have stored longer ones meanwhile. That the rows of a range are contiguous from its
start is proved by the least index that would be missing.

### ServerRun

In `StartupProofs`. For any instances, servers or signers, any script and any bounds.
Assumed is that the script is a sequence of statements (`ScriptAssumption`).

| Theorem | Statement |
|---|---|
| `ServerInvariance` | `ServerSpec => []ServerIInv` |
| `SchemaIsComplete` | `ServerSpec => []ImportedIsComplete` |
| `ReturnLeavesNothing` | `ServerSpec => []ReturnedIsNotAnnounced` |

`ImportPostgres` goes on when a statement fails with "already exists". `ServerIInv`
says why that is right: an open import has created exactly the objects named before its
statement (`ImportOK`), and the committed schema is empty or whole
(`SchemaIsWhole`), because the script is one transaction. So an object that exists
was committed with all the others. For etcd, an instance that has announced itself
is past the import, and none that has returned has an endpoint or a lease unless a
call of its withdrawal failed (`EtcdOK`): every path from `AnnounceSelf` to the return
goes through the deferred withdrawal.

### CertPool

For any callers, any finite set of certificates, any argument lists and bounds.

| Theorem | Statement |
|---|---|
| `Invariance` | `Spec => []IInv` |
| `GetReturnsPreviousAdds` | `Spec => []GetHoldsPreviousAdds` |
| `IndexStaysExact` | `Spec => []IndexIsExact` |
| `PublishedIsKept` | `Spec => PoolOnlyGrows` |

`IndexIsExact` (`certsByName` holds every position of the queue under its subject
and no other) is left to the proof: it is why the filter of `Add`, which looks only
under a certificate's subject, drops nothing that is not queued. `IInv` adds that
what was added, and what is published, is queued (`QueueOK`); that the pool has all
of the queue unless the flag is set, a `Get` that cleared it has yet to publish, or
a load failed (`PublishedOrPending`); and what each `Get` owes at each of its steps
(`DueOK`).

### Agent

For any clients, credentials, logs, permissions, tokens, read requests and bounds,
and integers of any width. Assumed are: clock readings are positive, reads are calls
of the client with integers, `"OK"` is not an error code, and the batch and range
limits are numbers (`maxRange` at least 1 and not more than the largest integer).

| Theorem | Statement |
|---|---|
| `Invariance` | `Spec => []IInv` |
| `TimestampsAreLogged` | `Spec => []TimestampIsOfTheLoggedLeaf` |
| `OnlyPermittedIsLogged` | `Spec => []LoggedIsPermitted` |
| `ProofsVerify` | `Spec => []ProofsAreOfTheRequestedTree` |
| `RangesAreAsked` | `Spec => []EntriesAreTheRange` |
| `ErrorsHaveReasons` | `Spec => NoErrorWithoutReason` |
| `LogsAreKept` | `Spec => [][Kept(stored, tree, stored', tree')]_vars` |
| `PromisesAreKept` | `Spec => []PromisedIsIntegrated` |
| `EntriesAreUnique` | `Spec => []OneLeafPerEntry` |

The last three are not properties of the run. `LogsAreKept`: the timestamp of a logged
entry and the place of a leaf never change. `PromisesAreKept`: when the credential of
a signed timestamp is integrated, the leaf in the tree is the one whose hash the
client calculates from the timestamp, whoever submitted it first and whatever was
lost. `EntriesAreUnique`: an entry has one place in a tree.

The proof has three parts.

- The handlers of `Controller`, as functions: what `Answer` returns is the error of the *first* early
  return that applies, or the body when none does (`AnswerCases`). One lemma per
  command then says what a success and an error tell of the tree it was computed
  from (`EntryAndProofAnswer`, `ProofByHashAnswer`, `EntriesAnswer`...). The range of
  `GetEntries` rests on `WrapCases` (an int64 result is exact or off by the range of
  the integers) and the theorem `RangeIsWithin` (the range asked of the log starts where it was
  asked to and has between 1 and `maxRange` entries, or the count is not positive and
  the log refuses it).
- The calls: `IInv` says what the request, the leaf and the answer of a call at each
  of its stages have been checked for (`SentOK`, `QueueOK`, `AnsweredOK`). An answer
  is about the tree at the time it was computed, and the tree goes on growing while
  the answer is under way: it stays right because a step only extends `stored` and
  `tree` (`Kept`, `AnswerKept`).
- The promises: `PInv` adds that a leaf in a tree, and a timestamp a client has
  accepted, carry the time that the log keeps for their entry.

`Distinct` (no entry twice in a tree) is part of `IInv` because `GetProofByHash` takes
the least of the positions of a hash: there is only one.

### Only model-checked

All liveness properties, `QueuedIsLogged`, `CallsEnd`, `PrefixIsSigned`, `StartEnds` and
`StopsOnSignal` (fairness and ENABLED are out of the prover's reach);
`SameLogIdEveryTime`, which does not hold; and `AcceptsJSON`,
`CanonicalFormOfTheValue` and `CanonicalIsFixed` of `Canonical`, whose operators are recursive over texts,
which the installed provers cannot induct over. Every other invariant and action
property of a run has a theorem.

## 5. Abstractions to keep in mind

- Hashes are injective; cryptography succeeds or fails as a whole; parsing a
  credential is an outcome (`fails`, `proof`, `issuer` of a credential).
- A missing or malformed part of the log's answer has the outcome of a failed
  signature; a failure to read a request or to write an answer is a lost connection.
- PostgreSQL is READ COMMITTED as far as the statements of this repository can
  tell: visibility at each statement, waiting on written rows and inserted keys,
  a transaction that is refused after an error, deadlock detection.
- The agent's logs in `Agent` are `AppendOnlyLog`, not `LogStorage` itself: the
  refinement `ImplementsLog` is the link.
- A tree's id is one that no tree had before (63 random bits).

## 6. Not modelled

- Signatures and key management: cryptography. Which key manager is used, flags,
  `parseLogs`, TLS serving, metrics and routing: wiring without a protocol.
- Reads by hash of the log storage and the list of active logs: single SELECTs that
  change nothing; `GetProofByHash` is modelled at the agent.
- The correction for the rounding of Go 1.11 in `es6numfmt.go:61-89`, which changes
  nothing where `strconv` rounds correctly.
- JSON-LD contexts (data), command-line lookup (`cmdutil`), log output (zap's).
- Log levels (`internal/pkg/log`): a table behind a mutex and the parsing of its
  text form, on which nothing else depends. `All` (`logger.go:307`) iterates over the
  live map after releasing the lock, which Go leaves undefined.
- Trillian's sequencer, election, garbage collection loop, in-memory and MySQL
  storage; etcd; gRPC: external, modelled by what this code sees of them.

## 7. Running

    tlc -workers 2 -config LogStorageSign.cfg MCLogStorage
    tlapm LogStorageProofs.tla

A `.cfg` goes with the `MC` module whose name it continues (`LogStorageSign.cfg`
with `MCLogStorage`); `PROJECT.json` lists the pairs. Each proof module is checked
on its own. A run takes from a few seconds to three minutes, a proof module
from half a minute to nine minutes.
