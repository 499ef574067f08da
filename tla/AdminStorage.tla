------------------------------ MODULE AdminStorage ------------------------------
(***************************************************************************)
(* The tree lifecycle of pkg/storage/postgres/admin_storage.go.  A client   *)
(* runs one operation per ReadWriteTransaction at READ COMMITTED, one SQL   *)
(* statement per step: a statement sees the committed rows and its own      *)
(* transaction's, an UPDATE or DELETE waits for a row another open          *)
(* transaction has written and then acts on what that one left.             *)
(*                                                                         *)
(* settings stands for the columns UpdateTree writes: tree_state,           *)
(* tree_type, display_name, description, max_root_duration_millis.          *)
(* delete_time_millis is written together with deleted and left out.        *)
(***************************************************************************)
EXTENDS Naturals, FiniteSets

CONSTANTS
  TreeIds,     \* what NewTreeID draws from
  Settings,    \* values of the updatable columns
  Clients,     \* concurrent transactions
  MaxTx,       \* bound: transactions begun
  MaxFaults    \* bound: statements that fail, processes that die

ASSUME NonEmptyAssumption == TreeIds # {} /\ Settings # {}
ASSUME BoundsAssumption == MaxTx \in Nat /\ MaxFaults \in Nat

Row == [settings : Settings, deleted : BOOLEAN]
Ops == {"create", "update", "softDelete", "undelete", "hardDelete"}

VARIABLES
  trees,       \* committed rows of trees, by tree_id
  control,     \* committed tree_ids of tree_control
  pc, op, id,  \* each client's statement, operation and tree
  tree,        \* the trillian.Tree struct it holds
  wr, row,     \* its uncommitted change to trees: kind and new row
  ctl,         \* its uncommitted change to tree_control
  reply,       \* what its last operation returned: "ok" or "err"
  last,        \* history: the last lifecycle operation committed per tree
  begun, faults

tables == <<trees, control>>
txvars == <<pc, op, id, tree, wr, row, ctl>>
vars == <<tables, txvars, reply, last, begun, faults>>

AnyRow == [settings |-> CHOOSE s \in Settings : TRUE, deleted |-> FALSE]

Init ==
  /\ trees = [i \in {} |-> AnyRow] /\ control = {}
  /\ pc = [c \in Clients |-> "idle"]
  /\ op = [c \in Clients |-> "create"]
  /\ id = [c \in Clients |-> CHOOSE i \in TreeIds : TRUE]
  /\ tree = [c \in Clients |-> AnyRow]
  /\ wr = [c \in Clients |-> "none"]
  /\ row = [c \in Clients |-> AnyRow]
  /\ ctl = [c \in Clients |-> "none"]
  /\ reply = [c \in Clients |-> "ok"]
  /\ last = [i \in TreeIds |-> "none"]
  /\ begun = 0 /\ faults = 0

-----------------------------------------------------------------------------
(* What a statement of client c sees, and what it waits for *)

\* Another open transaction has written the row of trees, or of tree_control.
RowLocked(c) == \E d \in Clients \ {c} : id[d] = id[c] /\ wr[d] # "none"
ControlLocked(c) == \E d \in Clients \ {c} : id[d] = id[c] /\ ctl[d] # "none"

Exists(c) == id[c] \in DOMAIN trees

\* A SELECT of the tree's row: the transaction's own version, else the committed.
Visible(c) == IF wr[c] \in {"insert", "update"} THEN row[c] ELSE trees[id[c]]

\* ListTrees, with or without the soft-deleted trees.
ListTrees(includeDeleted) ==
  {i \in DOMAIN trees : includeDeleted \/ ~trees[i].deleted}

-----------------------------------------------------------------------------
(* Transactions *)

\* NewTreeID draws 63 random bits: no two trees get one id.
Fresh(i) ==
  /\ last[i] = "none"
  /\ \A d \in Clients : ~(pc[d] # "idle" /\ op[d] = "create" /\ id[d] = i)

Begin(c, o, i) ==
  /\ pc[c] = "idle" /\ begun < MaxTx
  /\ o = "create" => Fresh(i)
  /\ begun' = begun + 1
  /\ op' = [op EXCEPT ![c] = o]
  /\ id' = [id EXCEPT ![c] = i]
  /\ pc' = [pc EXCEPT ![c] = IF o = "create" THEN "insertTree"
                             ELSE IF o = "update" THEN "getTree" ELSE "validate"]
  /\ UNCHANGED <<tables, tree, wr, row, ctl, reply, last, faults>>

\* Commit, Rollback and the deferred Close all end the transaction.
Close(c, answer) ==
  /\ pc' = [pc EXCEPT ![c] = "idle"]
  /\ wr' = [wr EXCEPT ![c] = "none"]
  /\ ctl' = [ctl EXCEPT ![c] = "none"]
  /\ reply' = [reply EXCEPT ![c] = answer]
  /\ UNCHANGED <<op, id, tree, row>>

\* An error of f: ReadWriteTransaction returns it and Close rolls back.
Refuse(c) == Close(c, "err") /\ UNCHANGED <<tables, last, begun, faults>>

Step(c, next) ==
  /\ pc' = [pc EXCEPT ![c] = next]
  /\ UNCHANGED <<tables, op, id, reply, last, begun, faults>>

\* A statement fails, or the process dies and the server rolls back.
Fail(c) ==
  /\ pc[c] # "idle" /\ faults < MaxFaults
  /\ faults' = faults + 1
  /\ Close(c, "err")
  /\ UNCHANGED <<tables, last, begun>>

\* Commit makes both changes visible; deleting a tree cascades to its control row.
Apply(c) ==
  /\ trees' = CASE wr[c] = "none" -> trees
                [] wr[c] = "delete" -> [i \in DOMAIN trees \ {id[c]} |-> trees[i]]
                [] OTHER -> [i \in DOMAIN trees \cup {id[c]} |->
                               IF i = id[c] THEN row[c] ELSE trees[i]]
  /\ control' = CASE ctl[c] = "insert" -> control \cup {id[c]}
                  [] ctl[c] = "delete" \/ wr[c] = "delete" -> control \ {id[c]}
                  [] OTHER -> control
  /\ last' = IF wr[c] = "none" \/ op[c] = "update" THEN last
             ELSE [last EXCEPT ![id[c]] = op[c]]

\* The answer to a COMMIT may be lost: the caller gets an error all the same.
Commit(c) ==
  /\ pc[c] = "commit"
  /\ Apply(c)
  /\ \/ Close(c, "ok") /\ faults' = faults
     \/ faults < MaxFaults /\ faults' = faults + 1 /\ Close(c, "err")
  /\ UNCHANGED begun

-----------------------------------------------------------------------------
(* CreateTree: a row in trees, then a row in tree_control.  A tree that fails *)
(* validation gets no further than Fail; the rows of a fresh id are new.       *)

InsertTree(c, s) ==
  /\ pc[c] = "insertTree"
  /\ wr' = [wr EXCEPT ![c] = "insert"]
  /\ row' = [row EXCEPT ![c] = [settings |-> s, deleted |-> FALSE]]
  /\ tree' = [tree EXCEPT ![c] = [settings |-> s, deleted |-> FALSE]]
  /\ ctl' = ctl
  /\ Step(c, "insertControl")

\* Mutant: the control row is left to a later transaction.
InsertNoControl(c) ==
  /\ pc[c] = "insertControl"
  /\ UNCHANGED <<ctl, wr, row, tree>>
  /\ Step(c, "commit")

InsertControl(c) ==
  /\ pc[c] = "insertControl"
  /\ ctl' = [ctl EXCEPT ![c] = "insert"]
  /\ UNCHANGED <<wr, row, tree>>
  /\ Step(c, "commit")

-----------------------------------------------------------------------------
(* UpdateTree: read the row, apply updateFunc, validate, write the columns *)

GetTree(c, s) ==
  /\ pc[c] = "getTree"
  /\ \/ ~Exists(c) /\ Refuse(c)                      \* codes.NotFound
     \/ Exists(c) /\ Refuse(c)                       \* updateFunc's change is invalid
     \/ /\ Exists(c)
        /\ tree' = [tree EXCEPT ![c] = [trees[id[c]] EXCEPT !.settings = s]]
        /\ UNCHANGED <<wr, row, ctl>>
        /\ Step(c, "update")

\* Mutant: the whole struct is written back, deleted included.
UpdateWholeRow(c) ==
  /\ pc[c] = "update" /\ ~RowLocked(c)
  /\ IF Exists(c)
     THEN /\ wr' = [wr EXCEPT ![c] = "update"]
          /\ row' = [row EXCEPT ![c] = tree[c]]
     ELSE UNCHANGED <<wr, row>>
  /\ UNCHANGED <<ctl, tree>>
  /\ Step(c, "commit")

\* updateTreeSQL: without a row it changes nothing, and its count is not checked.
WriteTree(c) ==
  /\ pc[c] = "update" /\ ~RowLocked(c)
  /\ IF Exists(c)
     THEN /\ wr' = [wr EXCEPT ![c] = "update"]
          /\ row' = [row EXCEPT ![c] = [trees[id[c]] EXCEPT !.settings = tree[c].settings]]
     ELSE UNCHANGED <<wr, row>>
  /\ UNCHANGED <<ctl, tree>>
  /\ Step(c, "commit")

-----------------------------------------------------------------------------
(* SoftDeleteTree, UndeleteTree and HardDeleteTree *)

WantDeleted(c) == op[c] # "softDelete"

\* validateDeleted: a plain SELECT, then NotFound or FailedPrecondition.
ValidateDeleted(c) ==
  /\ pc[c] = "validate"
  /\ \/ /\ ~(Exists(c) /\ trees[id[c]].deleted = WantDeleted(c))
        /\ Refuse(c)
     \/ /\ Exists(c) /\ trees[id[c]].deleted = WantDeleted(c)
        /\ UNCHANGED <<wr, row, ctl, tree>>
        /\ Step(c, IF op[c] = "hardDelete" THEN "deleteControl" ELSE "updateDeleted")

\* softDeleteSQL, by tree_id only.
UpdateDeleted(c) ==
  /\ pc[c] = "updateDeleted" /\ ~RowLocked(c)
  /\ IF Exists(c)
     THEN /\ wr' = [wr EXCEPT ![c] = "update"]
          /\ row' = [row EXCEPT ![c] = [trees[id[c]] EXCEPT !.deleted = ~WantDeleted(c)]]
     ELSE UNCHANGED <<wr, row>>
  /\ UNCHANGED <<ctl, tree>>
  /\ Step(c, "readBack")

\* Mutant: the tree returned is the one validateDeleted looked at.
ReadBackCommitted(c) ==
  /\ pc[c] = "readBack"
  /\ \/ ~Exists(c) /\ Refuse(c)
     \/ /\ Exists(c)
        /\ tree' = [tree EXCEPT ![c] = trees[id[c]]]
        /\ UNCHANGED <<wr, row, ctl>>
        /\ Step(c, "commit")

\* GetTree after the update: the tree that is returned.
ReadBack(c) ==
  /\ pc[c] = "readBack"
  /\ \/ wr[c] = "none" /\ Refuse(c)                  \* codes.NotFound
     \/ /\ wr[c] # "none"
        /\ tree' = [tree EXCEPT ![c] = Visible(c)]
        /\ UNCHANGED <<wr, row, ctl>>
        /\ Step(c, "commit")

DeleteControl(c) ==
  /\ pc[c] = "deleteControl" /\ ~ControlLocked(c)
  /\ ctl' = [ctl EXCEPT ![c] = IF id[c] \in control THEN "delete" ELSE "none"]
  /\ UNCHANGED <<wr, row, tree>>
  /\ Step(c, "deleteTree")

DeleteTree(c) ==
  /\ pc[c] = "deleteTree" /\ ~RowLocked(c)
  /\ wr' = [wr EXCEPT ![c] = IF Exists(c) THEN "delete" ELSE "none"]
  /\ UNCHANGED <<ctl, row, tree>>
  /\ Step(c, "commit")

-----------------------------------------------------------------------------
\* Every transaction has ended.
Done == begun = MaxTx /\ (\A c \in Clients : pc[c] = "idle") /\ UNCHANGED vars

Act(c) ==
  \/ \E o \in Ops, i \in TreeIds : Begin(c, o, i)
  \/ \E s \in Settings : InsertTree(c, s)
  \/ InsertControl(c)
  \/ \E s \in Settings : GetTree(c, s)
  \/ WriteTree(c)
  \/ ValidateDeleted(c)
  \/ UpdateDeleted(c)
  \/ ReadBack(c)
  \/ DeleteControl(c)
  \/ DeleteTree(c)
  \/ Commit(c)
  \/ Fail(c)

Next == (\E c \in Clients : Act(c)) \/ Done

Spec == Init /\ [][Next]_vars

-----------------------------------------------------------------------------
(* Properties *)

\* Types of the tables and of each client's transaction.
TypeOK ==
  /\ DOMAIN trees \subseteq TreeIds /\ trees \in [DOMAIN trees -> Row]
  /\ control \subseteq TreeIds
  /\ op \in [Clients -> Ops] /\ id \in [Clients -> TreeIds]
  /\ tree \in [Clients -> Row] /\ row \in [Clients -> Row]
  /\ wr \in [Clients -> {"none", "insert", "update", "delete"}]
  /\ ctl \in [Clients -> {"none", "insert", "delete"}]
  /\ pc \in [Clients -> {"idle", "insertTree", "insertControl", "getTree", "update",
                         "validate", "updateDeleted", "readBack", "deleteControl",
                         "deleteTree", "commit"}]
  /\ reply \in [Clients -> {"ok", "err"}]
  /\ last \in [TreeIds -> Ops \cup {"none"}]
  /\ begun \in Nat /\ faults \in Nat

\* Creation and hard deletion touch two tables in two statements; whatever fails,
\* dies or interleaves, a tree exists exactly when its control row does.
ControlForEveryTree == control = DOMAIN trees

\* Settings updates never undo a deletion or an undeletion that committed while
\* the update was between its read and its write: ListTrees leaves out exactly the
\* trees whose last committed lifecycle operation is a soft deletion.
DeletedAsLastCommitted ==
  ListTrees(FALSE) = {i \in ListTrees(TRUE) : last[i] # "softDelete"}

\* Only CreateTree makes a tree appear: an update or undeletion that raced a hard
\* deletion does not bring the row back.
OnlyCreateAddsTrees ==
  [][\A i \in TreeIds : i \in DOMAIN trees' \ DOMAIN trees =>
       \E c \in Clients : id[c] = i /\ op[c] = "create" /\ pc[c] = "commit"]_vars

\* SoftDeleteTree and UndeleteTree return the row their commit leaves behind, with
\* settings another client changed in the meantime.
ReturnsCommittedRow ==
  [][\A c \in Clients :
       /\ pc[c] = "commit" /\ reply'[c] = "ok" /\ pc'[c] = "idle"
       /\ op[c] \in {"softDelete", "undelete"}
       => id[c] \in DOMAIN trees' /\ tree[c] = trees'[id[c]]]_vars
=============================================================================
