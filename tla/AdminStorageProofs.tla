--------------------------- MODULE AdminStorageProofs ---------------------------
(***************************************************************************)
(* The properties of AdminStorage for any number of clients and trees.      *)
(***************************************************************************)
EXTENDS AdminStorage, TLAPS

\* What the lock waits give: at most one open transaction has written a tree's
\* row, and at most one its control row.
Exclusive ==
  \A c, d \in Clients : c # d /\ id[c] = id[d] =>
    /\ wr[c] = "none" \/ wr[d] = "none"
    /\ ctl[c] = "none" \/ ctl[d] = "none"

\* What a transaction has written by the time it is at a statement.
TxOK(c) ==
  /\ pc[c] \in {"idle", "insertTree", "getTree", "update", "validate", "updateDeleted",
                "deleteControl"}
     => wr[c] = "none" /\ ctl[c] = "none"
  /\ pc[c] \in {"insertTree", "insertControl"} => op[c] = "create"
  /\ pc[c] \in {"getTree", "update"} => op[c] = "update"
  /\ pc[c] \in {"updateDeleted", "readBack"} => op[c] \in {"softDelete", "undelete"}
  /\ pc[c] = "validate" => op[c] \in {"softDelete", "undelete", "hardDelete"}
  /\ pc[c] \in {"deleteControl", "deleteTree"} => op[c] = "hardDelete"
  /\ pc[c] = "insertControl" => wr[c] = "insert" /\ ctl[c] = "none"
  /\ pc[c] = "readBack" => wr[c] \in {"none", "update"} /\ ctl[c] = "none"
  /\ pc[c] = "deleteTree" => wr[c] = "none" /\ ctl[c] \in {"none", "delete"}
  /\ pc[c] = "commit" =>
       /\ op[c] = "create" => wr[c] = "insert" /\ ctl[c] = "insert"
       /\ op[c] = "update" => wr[c] \in {"none", "update"} /\ ctl[c] = "none"
       /\ op[c] \in {"softDelete", "undelete"} =>
            wr[c] = "update" /\ ctl[c] = "none" /\ tree[c] = row[c]
       /\ op[c] = "hardDelete" =>
            \/ wr[c] = "none" /\ ctl[c] = "none"
            \/ wr[c] = "delete" /\ ctl[c] = "delete"

\* How what it has written relates to the committed row it locks.
WriteOK(c) ==
  /\ wr[c] \in {"update", "delete"} => id[c] \in DOMAIN trees
  /\ wr[c] = "insert" => ~row[c].deleted
  /\ ctl[c] = "delete" => id[c] \in control
  /\ pc[c] \in {"deleteControl", "deleteTree"} => last[id[c]] # "none"
  /\ pc[c] = "deleteTree" /\ ctl[c] = "none" => id[c] \notin DOMAIN trees
  /\ wr[c] = "update" =>
       CASE op[c] = "softDelete" -> row[c].deleted
         [] op[c] = "undelete" -> ~row[c].deleted
         [] OTHER -> row[c].deleted = trees[id[c]].deleted

\* An id under creation belongs to no tree and to no other creation.
CreateOK(c) ==
  pc[c] # "idle" /\ op[c] = "create" =>
    /\ last[id[c]] = "none"
    /\ \A d \in Clients \ {c} : ~(pc[d] # "idle" /\ op[d] = "create" /\ id[d] = id[c])

FlagOK ==
  \A i \in DOMAIN trees : last[i] # "none" /\ trees[i].deleted = (last[i] = "softDelete")

IInv ==
  /\ TypeOK
  /\ ControlForEveryTree
  /\ FlagOK
  /\ Exclusive
  /\ \A c \in Clients : TxOK(c) /\ WriteOK(c) /\ CreateOK(c)
-----------------------------------------------------------------------------
\* The inductive step: every action of every client preserves the invariant.
LEMMA Inductive == IInv /\ [Next]_vars => IInv'
<1> SUFFICES ASSUME IInv, [Next]_vars PROVE IInv'
  OBVIOUS
<1> USE DEF IInv, tables, txvars, vars
<1>1. ASSUME NEW c \in Clients, InsertControl(c) PROVE IInv'
  <2>1. TypeOK'
    BY <1>1, Zenon DEF TypeOK, Ops, InsertControl, Step
  <2>2. ControlForEveryTree' /\ FlagOK'
    BY <1>1, Zenon DEF ControlForEveryTree, FlagOK, InsertControl, Step
  <2>3. Exclusive'
    BY <1>1 DEF Exclusive, TypeOK, TxOK, WriteOK, CreateOK, FlagOK, ControlForEveryTree, Ops, InsertControl, Step
  <2>4. ASSUME NEW e \in Clients PROVE TxOK(e)'
    BY <1>1, <2>4 DEF TxOK, TypeOK, Ops, InsertControl, Step
  <2>5. ASSUME NEW e \in Clients PROVE WriteOK(e)'
    BY <1>1, <2>5 DEF WriteOK, TxOK, TypeOK, Ops, Row, ControlForEveryTree, InsertControl, Step
  <2>6. ASSUME NEW e \in Clients PROVE CreateOK(e)'
    BY <1>1, <2>6 DEF CreateOK, TxOK, TypeOK, Ops, InsertControl, Step
  <2> QED
    BY <2>1, <2>2, <2>3, <2>4, <2>5, <2>6, Zenon
<1>2. ASSUME NEW c \in Clients, WriteTree(c) PROVE IInv'
  <2>1. TypeOK'
    <3>1. Exists(c) => [trees[id[c]] EXCEPT !.settings = tree[c].settings] \in Row
      <4>1. tree[c] \in Row /\ (Exists(c) => trees[id[c]] \in Row)
        BY <1>2, Zenon DEF TypeOK, Exists
      <4>2. \A r, q \in Row : [r EXCEPT !.settings = q.settings] \in Row
        BY DEF Row
      <4> QED
        BY <4>1, <4>2, Zenon
    <3> QED
      BY <1>2, <3>1 DEF TypeOK, Ops, WriteTree, Step
  <2>2. ControlForEveryTree' /\ FlagOK'
    BY <1>2, Zenon DEF ControlForEveryTree, FlagOK, WriteTree, Step
  <2>3. Exclusive'
    BY <1>2 DEF Exclusive, TypeOK, TxOK, WriteTree, Step, RowLocked, Exists
  <2>4. ASSUME NEW e \in Clients PROVE TxOK(e)'
    BY <1>2, <2>4 DEF TxOK, TypeOK, Ops, WriteTree, Step
  <2>5. ASSUME NEW e \in Clients PROVE WriteOK(e)'
    BY <1>2, <2>5 DEF WriteOK, TxOK, TypeOK, Ops, Row, ControlForEveryTree, WriteTree, Step, RowLocked, Exists
  <2>6. ASSUME NEW e \in Clients PROVE CreateOK(e)'
    BY <1>2, <2>6 DEF CreateOK, TxOK, TypeOK, Ops, WriteTree, Step
  <2> QED
    BY <2>1, <2>2, <2>3, <2>4, <2>5, <2>6, Zenon
<1>3. ASSUME NEW c \in Clients, ValidateDeleted(c) PROVE IInv'
  <2>1. TypeOK'
    BY <1>3 DEF TypeOK, Ops, ValidateDeleted, Step, Refuse, Close
  <2>2. ControlForEveryTree' /\ FlagOK'
    BY <1>3 DEF ControlForEveryTree, FlagOK, ValidateDeleted, Step, Refuse, Close
  <2>3. Exclusive'
    BY <1>3 DEF Exclusive, TypeOK, TxOK, ValidateDeleted, Step, Refuse, Close, Exists, WantDeleted
  <2>4. ASSUME NEW e \in Clients PROVE TxOK(e)'
    BY <1>3, <2>4 DEF TxOK, TypeOK, Ops, ValidateDeleted, Step, Refuse, Close
  <2>5. ASSUME NEW e \in Clients PROVE WriteOK(e)'
    BY <1>3, <2>5 DEF WriteOK, FlagOK, TxOK, TypeOK, Ops, Row, ControlForEveryTree, ValidateDeleted, Step, Refuse, Close, Exists, WantDeleted
  <2>6. ASSUME NEW e \in Clients PROVE CreateOK(e)'
    BY <1>3, <2>6 DEF CreateOK, TxOK, TypeOK, Ops, ValidateDeleted, Step, Refuse, Close
  <2> QED
    BY <2>1, <2>2, <2>3, <2>4, <2>5, <2>6, Zenon
<1>4. ASSUME NEW c \in Clients, UpdateDeleted(c) PROVE IInv'
  <2>1. TypeOK'
    <3>1. ASSUME NEW r \in Row, NEW b \in BOOLEAN PROVE [r EXCEPT !.deleted = b] \in Row
      BY Zenon DEF Row
    <3>2. Exists(c) => trees[id[c]] \in Row
      BY Zenon DEF TypeOK, Exists
    <3>3. (~WantDeleted(c)) \in BOOLEAN
      OBVIOUS
    <3>4. Exists(c) => [trees[id[c]] EXCEPT !.deleted = ~WantDeleted(c)] \in Row
      BY <3>1, <3>2, <3>3, Zenon
    <3> QED
      BY <1>4, <3>4 DEF TypeOK, Ops, UpdateDeleted, Step
  <2>2. ControlForEveryTree' /\ FlagOK'
    BY <1>4, Zenon DEF ControlForEveryTree, FlagOK, UpdateDeleted, Step
  <2>3. Exclusive'
    BY <1>4 DEF Exclusive, TypeOK, TxOK, UpdateDeleted, Step, RowLocked, Exists, WantDeleted
  <2>4. ASSUME NEW e \in Clients PROVE TxOK(e)'
    BY <1>4, <2>4 DEF TxOK, TypeOK, Ops, UpdateDeleted, Step
  <2>5. ASSUME NEW e \in Clients PROVE WriteOK(e)'
    <3>1. CASE e # c
      BY <1>4, <2>5, <3>1 DEF WriteOK, TypeOK, UpdateDeleted, Step
    <3>2. CASE e = c /\ ~Exists(c)
      BY <1>4, <2>5, <3>2 DEF WriteOK, TxOK, TypeOK, UpdateDeleted, Step
    <3>3. CASE e = c /\ Exists(c)
      <4>1. /\ wr'[c] = "update" /\ ctl'[c] = ctl[c] /\ op'[c] = op[c] /\ id' = id
            /\ pc'[c] = "readBack" /\ trees' = trees /\ op[c] \in {"softDelete", "undelete"}
            /\ ctl[c] = "none"
        BY <1>4, <3>3 DEF TxOK, TypeOK, UpdateDeleted, Step
      <4>2. row'[c] = [trees[id[c]] EXCEPT !.deleted = ~WantDeleted(c)]
        BY <1>4, <3>3, Zenon DEF TypeOK, UpdateDeleted
      <4>3. trees[id[c]] \in Row
        BY <3>3, Zenon DEF TypeOK, Exists
      <4>4. row'[c].deleted = ~WantDeleted(c)
        BY <4>2, <4>3, Zenon DEF Row
      <4> QED
        BY <3>3, <4>1, <4>4 DEF WriteOK, Exists, WantDeleted
    <3> QED
      BY <3>1, <3>2, <3>3, Zenon
  <2>6. ASSUME NEW e \in Clients PROVE CreateOK(e)'
    BY <1>4, <2>6 DEF CreateOK, TxOK, TypeOK, Ops, UpdateDeleted, Step
  <2> QED
    BY <2>1, <2>2, <2>3, <2>4, <2>5, <2>6, Zenon
<1>5. ASSUME NEW c \in Clients, ReadBack(c) PROVE IInv'
  <2>1. TypeOK'
    <3>1. pc[c] = "readBack" /\ wr[c] # "none" => Visible(c) \in Row
      BY Zenon DEF TypeOK, TxOK, Visible
    <3> QED
      BY <1>5, <3>1 DEF TypeOK, Ops, ReadBack, Step, Refuse, Close
  <2>2. ControlForEveryTree' /\ FlagOK'
    BY <1>5 DEF ControlForEveryTree, FlagOK, ReadBack, Step, Refuse, Close, Visible
  <2>3. Exclusive'
    BY <1>5 DEF Exclusive, TypeOK, TxOK, ReadBack, Step, Refuse, Close, Visible
  <2>4. ASSUME NEW e \in Clients PROVE TxOK(e)'
    BY <1>5, <2>4 DEF TxOK, TypeOK, Ops, ReadBack, Step, Refuse, Close, Visible
  <2>5. ASSUME NEW e \in Clients PROVE WriteOK(e)'
    BY <1>5, <2>5 DEF WriteOK, TxOK, TypeOK, Ops, Row, ControlForEveryTree, ReadBack, Step, Refuse, Close, Visible
  <2>6. ASSUME NEW e \in Clients PROVE CreateOK(e)'
    BY <1>5, <2>6 DEF CreateOK, TxOK, TypeOK, Ops, ReadBack, Step, Refuse, Close, Visible
  <2> QED
    BY <2>1, <2>2, <2>3, <2>4, <2>5, <2>6, Zenon
<1>6. ASSUME NEW c \in Clients, DeleteControl(c) PROVE IInv'
  <2>1. TypeOK'
    BY <1>6, Zenon DEF TypeOK, Ops, DeleteControl, Step, ControlLocked
  <2>2. ControlForEveryTree' /\ FlagOK'
    BY <1>6, Zenon DEF ControlForEveryTree, FlagOK, DeleteControl, Step, ControlLocked
  <2>3. Exclusive'
    BY <1>6 DEF Exclusive, TypeOK, TxOK, DeleteControl, Step, ControlLocked
  <2>4. ASSUME NEW e \in Clients PROVE TxOK(e)'
    BY <1>6, <2>4 DEF TxOK, TypeOK, Ops, DeleteControl, Step, ControlLocked
  <2>5. ASSUME NEW e \in Clients PROVE WriteOK(e)'
    BY <1>6, <2>5 DEF WriteOK, TxOK, TypeOK, Ops, Row, ControlForEveryTree, DeleteControl, Step, ControlLocked
  <2>6. ASSUME NEW e \in Clients PROVE CreateOK(e)'
    BY <1>6, <2>6 DEF CreateOK, TxOK, TypeOK, Ops, DeleteControl, Step, ControlLocked
  <2> QED
    BY <2>1, <2>2, <2>3, <2>4, <2>5, <2>6, Zenon
<1>7. ASSUME NEW c \in Clients, DeleteTree(c) PROVE IInv'
  <2>1. TypeOK'
    BY <1>7, Zenon DEF TypeOK, Ops, DeleteTree, Step
  <2>2. ControlForEveryTree' /\ FlagOK'
    BY <1>7, Zenon DEF ControlForEveryTree, FlagOK, DeleteTree, Step
  <2>3. Exclusive'
    BY <1>7 DEF Exclusive, TypeOK, TxOK, DeleteTree, Step, RowLocked, Exists
  <2>4. ASSUME NEW e \in Clients PROVE TxOK(e)'
    BY <1>7, <2>4 DEF TxOK, WriteOK, ControlForEveryTree, TypeOK, Ops, DeleteTree, Step, Exists
  <2>5. ASSUME NEW e \in Clients PROVE WriteOK(e)'
    BY <1>7, <2>5 DEF WriteOK, TxOK, TypeOK, Ops, Row, ControlForEveryTree, DeleteTree, Step, RowLocked, Exists
  <2>6. ASSUME NEW e \in Clients PROVE CreateOK(e)'
    BY <1>7, <2>6 DEF CreateOK, TxOK, TypeOK, Ops, DeleteTree, Step
  <2> QED
    BY <2>1, <2>2, <2>3, <2>4, <2>5, <2>6, Zenon
<1>8. ASSUME NEW c \in Clients, Fail(c) PROVE IInv'
  <2>1. TypeOK'
    BY <1>8 DEF TypeOK, Ops, Fail, Close
  <2>2. ControlForEveryTree' /\ FlagOK'
    BY <1>8, Zenon DEF ControlForEveryTree, FlagOK, Fail, Close
  <2>3. Exclusive'
    BY <1>8 DEF Exclusive, TypeOK, TxOK, Fail, Close
  <2>4. ASSUME NEW e \in Clients PROVE TxOK(e)'
    BY <1>8, <2>4 DEF TxOK, TypeOK, Ops, Fail, Close
  <2>5. ASSUME NEW e \in Clients PROVE WriteOK(e)'
    BY <1>8, <2>5 DEF WriteOK, TxOK, TypeOK, Ops, Row, ControlForEveryTree, Fail, Close
  <2>6. ASSUME NEW e \in Clients PROVE CreateOK(e)'
    BY <1>8, <2>6 DEF CreateOK, TxOK, TypeOK, Ops, Fail, Close
  <2> QED
    BY <2>1, <2>2, <2>3, <2>4, <2>5, <2>6, Zenon
<1>9. ASSUME NEW c \in Clients, NEW o \in Ops, NEW i \in TreeIds, Begin(c, o, i) PROVE IInv'
  <2>1. TypeOK'
    BY <1>9 DEF TypeOK, Ops, Begin, Fresh
  <2>2. ControlForEveryTree' /\ FlagOK'
    BY <1>9, Zenon DEF ControlForEveryTree, FlagOK, Begin, Fresh
  <2>3. Exclusive'
    BY <1>9 DEF Exclusive, TypeOK, TxOK, Begin, Fresh
  <2>4. ASSUME NEW e \in Clients PROVE TxOK(e)'
    BY <1>9, <2>4 DEF TxOK, TypeOK, Ops, Begin, Fresh
  <2>5. ASSUME NEW e \in Clients PROVE WriteOK(e)'
    BY <1>9, <2>5 DEF WriteOK, TxOK, TypeOK, Ops, Row, ControlForEveryTree, Begin, Fresh
  <2>6. ASSUME NEW e \in Clients PROVE CreateOK(e)'
    BY <1>9, <2>6 DEF CreateOK, TxOK, TypeOK, Ops, Begin, Fresh
  <2> QED
    BY <2>1, <2>2, <2>3, <2>4, <2>5, <2>6, Zenon
<1>10. ASSUME NEW c \in Clients, NEW s \in Settings, InsertTree(c, s) PROVE IInv'
  <2>1. TypeOK'
    BY <1>10 DEF TypeOK, Row, Ops, InsertTree, Step
  <2>2. ControlForEveryTree' /\ FlagOK'
    BY <1>10, Zenon DEF ControlForEveryTree, FlagOK, InsertTree, Step
  <2>3. Exclusive'
    BY <1>10 DEF Exclusive, TypeOK, TxOK, WriteOK, CreateOK, FlagOK, ControlForEveryTree, Ops, InsertTree, Step
  <2>4. ASSUME NEW e \in Clients PROVE TxOK(e)'
    BY <1>10, <2>4 DEF TxOK, TypeOK, Ops, InsertTree, Step
  <2>5. ASSUME NEW e \in Clients PROVE WriteOK(e)'
    BY <1>10, <2>5 DEF WriteOK, TxOK, TypeOK, Ops, Row, ControlForEveryTree, InsertTree, Step
  <2>6. ASSUME NEW e \in Clients PROVE CreateOK(e)'
    BY <1>10, <2>6 DEF CreateOK, TxOK, TypeOK, Ops, InsertTree, Step
  <2> QED
    BY <2>1, <2>2, <2>3, <2>4, <2>5, <2>6, Zenon
<1>11. ASSUME NEW c \in Clients, NEW s \in Settings, GetTree(c, s) PROVE IInv'
  <2>1. TypeOK'
    <3>1. Exists(c) => [trees[id[c]] EXCEPT !.settings = s] \in Row
      <4>1. Exists(c) => trees[id[c]] \in Row
        BY <1>11, Zenon DEF TypeOK, Exists
      <4> QED
        BY <1>11, <4>1 DEF Row
    <3> QED
      BY <1>11, <3>1 DEF TypeOK, Ops, GetTree, Step, Refuse, Close
  <2>2. ControlForEveryTree' /\ FlagOK'
    BY <1>11 DEF ControlForEveryTree, FlagOK, GetTree, Step, Refuse, Close
  <2>3. Exclusive'
    BY <1>11 DEF Exclusive, TypeOK, TxOK, GetTree, Step, Refuse, Close, Exists
  <2>4. ASSUME NEW e \in Clients PROVE TxOK(e)'
    BY <1>11, <2>4 DEF TxOK, TypeOK, Ops, GetTree, Step, Refuse, Close
  <2>5. ASSUME NEW e \in Clients PROVE WriteOK(e)'
    BY <1>11, <2>5 DEF WriteOK, TxOK, TypeOK, Ops, Row, ControlForEveryTree, GetTree, Step, Refuse, Close, Exists
  <2>6. ASSUME NEW e \in Clients PROVE CreateOK(e)'
    BY <1>11, <2>6 DEF CreateOK, TxOK, TypeOK, Ops, GetTree, Step, Refuse, Close
  <2> QED
    BY <2>1, <2>2, <2>3, <2>4, <2>5, <2>6, Zenon
<1>12. ASSUME NEW c \in Clients, Commit(c) PROVE IInv'
  <2>1. TypeOK'
    <3>1. DOMAIN trees' \subseteq TreeIds /\ trees' \in [DOMAIN trees' -> Row]
      BY <1>12 DEF TypeOK, Commit, Apply
    <3>2. control' \subseteq TreeIds /\ last' \in [TreeIds -> Ops \cup {"none"}]
      BY <1>12 DEF TypeOK, Commit, Apply
    <3> QED
      BY <1>12, <3>1, <3>2 DEF TypeOK, Commit, Close
  <2>2. ControlForEveryTree'
    BY <1>12 DEF ControlForEveryTree, TypeOK, TxOK, WriteOK, Ops, Commit, Apply
  <2>3. FlagOK'
    <3>1. ASSUME NEW i \in DOMAIN trees', i # id[c] PROVE trees'[i] = trees[i] /\ last'[i] = last[i] /\ i \in DOMAIN trees
      BY <1>12, <3>1, Zenon DEF TypeOK, Commit, Apply
    <3>2. ASSUME id[c] \in DOMAIN trees', wr[c] \in {"insert", "update"}
          PROVE trees'[id[c]] = row[c] /\ last'[id[c]] = IF op[c] = "update" THEN last[id[c]] ELSE op[c]
      BY <1>12, <3>2 DEF TypeOK, Commit, Apply
    <3>3. ASSUME id[c] \in DOMAIN trees', wr[c] \in {"none", "delete"}
          PROVE trees' = trees /\ last' = last
      BY <1>12, <3>3, Zenon DEF TypeOK, Commit, Apply
    <3>4. ASSUME id[c] \in DOMAIN trees', wr[c] \in {"insert", "update"}
          PROVE last'[id[c]] # "none" /\ trees'[id[c]].deleted = (last'[id[c]] = "softDelete")
      BY <1>12, <3>2, <3>4 DEF FlagOK, TypeOK, TxOK, WriteOK, Ops, Row, Commit
    <3> QED
      BY <3>1, <3>3, <3>4 DEF FlagOK, TypeOK
  <2>4. Exclusive'
    <3>1. /\ wr' = [wr EXCEPT ![c] = "none"] /\ ctl' = [ctl EXCEPT ![c] = "none"]
          /\ id' = id /\ wr \in [Clients -> {"none", "insert", "update", "delete"}]
          /\ ctl \in [Clients -> {"none", "insert", "delete"}]
      BY <1>12, Zenon DEF TypeOK, Commit, Close
    <3> QED
      BY <3>1, Zenon DEF Exclusive
  <2>5. ASSUME NEW e \in Clients PROVE TxOK(e)'
    BY <1>12, <2>5 DEF TxOK, TypeOK, Ops, Commit, Close
  <2>6. ASSUME NEW e \in Clients PROVE WriteOK(e)'
    <3>a. /\ wr' = [wr EXCEPT ![c] = "none"] /\ ctl' = [ctl EXCEPT ![c] = "none"]
          /\ pc' = [pc EXCEPT ![c] = "idle"] /\ UNCHANGED <<id, row, op>>
          /\ c \in DOMAIN wr /\ c \in DOMAIN ctl /\ c \in DOMAIN pc
          /\ e \in DOMAIN wr /\ e \in DOMAIN ctl /\ e \in DOMAIN pc
      BY <1>12, <2>6, Zenon DEF TypeOK, Commit, Close
    <3>1. CASE e = c
      <4>1. wr'[e] = "none" /\ ctl'[e] = "none" /\ pc'[e] = "idle"
        BY <3>a, <3>1, Zenon
      <4> QED
        BY <4>1, Zenon DEF WriteOK
    <3>2. CASE e # c
      <4>1. /\ wr'[e] = wr[e] /\ ctl'[e] = ctl[e] /\ pc'[e] = pc[e] /\ pc[c] = "commit"
            /\ UNCHANGED <<id, row, op>>
        BY <1>12, <3>a, <3>2, Zenon DEF Commit
      <4>2. CASE id[e] # id[c]
        <5>1. /\ id[e] \in DOMAIN trees' <=> id[e] \in DOMAIN trees
              /\ id[e] \in DOMAIN trees => trees'[id[e]] = trees[id[e]]
              /\ id[e] \in control' <=> id[e] \in control
              /\ last'[id[e]] = last[id[e]]
          BY <1>12, <2>6, <4>2, Zenon DEF TypeOK, Commit, Apply
        <5> QED
          BY <2>6, <4>1, <5>1, Zenon DEF WriteOK
      <4>3. CASE id[e] = id[c]
        <5>1. last[id[e]] # "none" => last'[id[e]] # "none"
          BY <1>12, <2>6, <4>3 DEF TypeOK, Ops, Commit, Apply
        <5>2. wr[e] # "none" => trees' = trees
          BY <1>12, <2>6, <3>2, <4>3, Zenon DEF Exclusive, Commit, Apply
        <5>3. ctl[e] = "delete" => control' = control
          BY <1>12, <2>6, <3>2, <4>1, <4>3 DEF Exclusive, TypeOK, Ops, TxOK, Commit, Apply
        <5>4. pc[e] = "deleteTree" /\ ctl[e] = "none" => id[e] \notin DOMAIN trees'
          <6> SUFFICES ASSUME pc[e] = "deleteTree", ctl[e] = "none" PROVE wr[c] = "none"
            BY <1>12, <2>6, Zenon DEF WriteOK, Commit, Apply
          <6>1. id[c] \notin DOMAIN trees /\ last[id[c]] # "none"
            BY <2>6, <4>3, Zenon DEF WriteOK
          <6>2. wr[c] \notin {"update", "delete"}
            BY <1>12, <6>1, Zenon DEF WriteOK
          <6>3. wr[c] # "insert"
            BY <1>12, <4>1, <6>1 DEF CreateOK, TxOK, TypeOK, Ops
          <6> QED
            BY <1>12, <6>2, <6>3, Zenon DEF TypeOK
        <5> QED
          BY <2>6, <4>1, <5>1, <5>2, <5>3, <5>4, Zenon DEF WriteOK
      <4> QED
        BY <4>2, <4>3, Zenon
    <3> QED
      BY <3>1, <3>2, Zenon
  <2>7. ASSUME NEW e \in Clients PROVE CreateOK(e)'
    BY <1>12, <2>7 DEF CreateOK, WriteOK, FlagOK, TxOK, TypeOK, Ops, Commit, Apply, Close
  <2> QED
    BY <2>1, <2>2, <2>3, <2>4, <2>5, <2>6, <2>7, Zenon
<1>13. CASE UNCHANGED vars
  BY <1>13 DEF TypeOK, Row, Ops, ControlForEveryTree, FlagOK, Exclusive, TxOK, WriteOK, CreateOK
<1> QED
  BY <1>1, <1>2, <1>3, <1>4, <1>5, <1>6, <1>7, <1>8, <1>9, <1>10, <1>11, <1>12, <1>13, Zenon DEF Next, Act, Done

-----------------------------------------------------------------------------
\* The invariant holds in every reachable state, for any sets of trees and
\* settings that are not empty and any number of clients.
THEOREM Invariance == Spec => []IInv
<1>1. Init => IInv
  <2> SUFFICES ASSUME Init PROVE IInv
    OBVIOUS
  <2>1. AnyRow \in Row /\ (CHOOSE i \in TreeIds : TRUE) \in TreeIds
    BY NonEmptyAssumption, Zenon DEF AnyRow, Row
  <2>2. TypeOK
    BY <2>1, Zenon DEF Init, TypeOK, Ops
  <2> QED
    BY <2>2, Zenon DEF Init, IInv, ControlForEveryTree, FlagOK, Exclusive, TxOK, WriteOK, CreateOK
<1> QED
  BY <1>1, Inductive, PTL DEF Spec

\* A tree and its control row are created and removed together, in spite of
\* failures, crashes and concurrent deletions.
THEOREM ControlRowsMatch == Spec => []ControlForEveryTree
<1>1. IInv => ControlForEveryTree
  BY Zenon DEF IInv
<1> QED
  BY <1>1, Invariance, PTL

\* The deleted flag is that of the last committed lifecycle operation: no
\* concurrent update of the settings writes an older flag back.
THEOREM DeletionsAreKept == Spec => []DeletedAsLastCommitted
<1>1. IInv => DeletedAsLastCommitted
  BY Zenon DEF IInv, FlagOK, TypeOK, Row, DeletedAsLastCommitted, ListTrees
<1> QED
  BY <1>1, Invariance, PTL

\* No update, deletion or undeletion makes a tree appear.
THEOREM OnlyCreationAdds == Spec => OnlyCreateAddsTrees
<1>1. IInv /\ [Next]_vars =>
        [\A i \in TreeIds : i \in DOMAIN trees' \ DOMAIN trees =>
           \E c \in Clients : id[c] = i /\ op[c] = "create" /\ pc[c] = "commit"]_vars
  <2> SUFFICES ASSUME IInv, [Next]_vars, NEW i \in DOMAIN trees' \ DOMAIN trees
               PROVE \E c \in Clients : id[c] = i /\ op[c] = "create" /\ pc[c] = "commit"
    OBVIOUS
  <2>1. trees' # trees
    OBVIOUS
  <2>2. PICK c \in Clients : Commit(c)
    <3>1. PICK c \in Clients : Act(c)
      BY <2>1, Zenon DEF Next, Done, vars, tables
    <3> QED
      BY <2>1, <3>1 DEF Act, tables, Begin, InsertTree, InsertControl, GetTree,
                  WriteTree, ValidateDeleted, UpdateDeleted, ReadBack, DeleteControl,
                  DeleteTree, Fail, Step, Refuse
  <2>3. i = id[c] /\ wr[c] \in {"insert", "update"}
    BY <2>2, Zenon DEF IInv, TypeOK, Commit, Apply
  <2>4. wr[c] = "insert" /\ op[c] = "create"
    BY <2>2, <2>3 DEF IInv, TypeOK, TxOK, WriteOK, Commit, Ops
  <2> QED
    BY <2>2, <2>3, <2>4, Zenon DEF Commit
<1> QED
  BY <1>1, Invariance, PTL DEF Spec, OnlyCreateAddsTrees

\* SoftDeleteTree and UndeleteTree return the row they leave behind.
THEOREM ReturnedRowIsCommitted == Spec => ReturnsCommittedRow
<1>1. IInv /\ [Next]_vars =>
        [\A c \in Clients :
           /\ pc[c] = "commit" /\ reply'[c] = "ok" /\ pc'[c] = "idle"
           /\ op[c] \in {"softDelete", "undelete"}
           => id[c] \in DOMAIN trees' /\ tree[c] = trees'[id[c]]]_vars
  <2> SUFFICES ASSUME IInv, Next, NEW c \in Clients,
                      pc[c] = "commit", reply'[c] = "ok", pc'[c] = "idle",
                      op[c] \in {"softDelete", "undelete"}
               PROVE id[c] \in DOMAIN trees' /\ tree[c] = trees'[id[c]]
    OBVIOUS
  <2>1. Commit(c)
    <3>1. PICK d \in Clients : Act(d)
      BY Zenon DEF Next, Done
    <3>2. d = c
      <4>1. \E x : pc' = [pc EXCEPT ![d] = x]
        BY <3>1, Zenon DEF Act, Begin, InsertTree, InsertControl, GetTree, WriteTree,
                    ValidateDeleted, UpdateDeleted, ReadBack, DeleteControl, DeleteTree,
                    Commit, Fail, Step, Refuse, Close
      <4> QED
        BY <3>1, <4>1, Zenon DEF IInv, TypeOK
    <3>3. ~Fail(c)
      BY DEF Fail, Close, IInv, TypeOK
    <3> QED
      BY <3>1, <3>2, <3>3, Zenon DEF Act, Begin, InsertTree, InsertControl, GetTree, WriteTree,
                              ValidateDeleted, UpdateDeleted, ReadBack, DeleteControl, DeleteTree
  <2>2. wr[c] = "update" /\ tree[c] = row[c]
    BY Zenon DEF IInv, TxOK
  <2> QED
    BY <2>1, <2>2, Zenon DEF Commit, Apply, IInv, TypeOK
<1> QED
  BY <1>1, Invariance, PTL DEF Spec, ReturnsCommittedRow
=============================================================================
