------------------------------ MODULE CertPoolProofs ------------------------------
(***************************************************************************)
(* What the certificate pool keeps for any certificates, any number of      *)
(* threads and any failures to load the system pool.                        *)
(***************************************************************************)
EXTENDS CertPool, FiniteSetTheorems, TLAPS

RawContents == Range(Raw)
Pool == [err : BOOLEAN, pool : SUBSET RawContents]

TypeOK ==
  /\ certs \in Seq(Certs) /\ certPool \subseteq RawContents
  /\ certsByName \in [Range(Subject) -> SUBSET Nat]
  /\ dirty \in {0, 1} /\ loadFailed \in BOOLEAN
  /\ pc \in [Threads -> {"idle", "append", "load", "swap", "read"}]
  /\ arg \in [Threads -> SUBSET Certs]
  /\ result \in [Threads -> Pool] /\ due \in [Threads -> SUBSET RawContents]
  /\ added \subseteq RawContents

\* The positions under a name are those of the queued certificates with that
\* subject.
IndexIsExact ==
  \A n \in Range(Subject) :
    certsByName[n] = {k \in DOMAIN certs : Subject[Raw[certs[k]]] = n}

\* What Adds that returned have queued; what is published.
QueueOK == added \subseteq Contents(certs) /\ certPool \subseteq Contents(certs)

\* A queued certificate is in the pool unless the flag is set, a Get that cleared
\* it has yet to publish, or one failed to.
PublishedOrPending ==
  Contents(certs) \subseteq certPool \/ dirty = 1 \/ Publishing # {} \/ loadFailed

\* What a Get owes its caller, at each of its steps.
DueOK(t) ==
  /\ pc[t] \in {"load", "swap"} => due[t] \subseteq Contents(certs)
  /\ pc[t] = "read" => due[t] \subseteq certPool
  /\ pc[t] \in {"idle", "append"} /\ ~result[t].err => due[t] \subseteq result[t].pool

IInv ==
  /\ TypeOK /\ IndexIsExact /\ QueueOK /\ PublishedOrPending
  /\ \A t \in Threads : DueOK(t)

-----------------------------------------------------------------------------
(* The queue *)

\* A queue's contents are those at its positions: no pointer in it is nil.
LEMMA ContentsOf ==
  ASSUME NEW s \in Seq(Certs)
  PROVE  Contents(s) = {Raw[s[k]] : k \in DOMAIN s} /\ Contents(s) \subseteq RawContents
  <1>1. \A k \in DOMAIN s : s[k] \in Certs /\ s[k] # NilCert
    BY CertsAssumption
  <1>2. Range(s) = {s[k] : k \in DOMAIN s}
    BY DEF Range
  <1>3. \A c \in Certs : Raw[c] \in RawContents
    BY RawAssumption DEF RawContents, Range
  <1>4. Contents(s) = {Raw[c] : c \in {s[k] : k \in DOMAIN s} \ {NilCert}}
    BY <1>2, Zenon DEF Contents
  <1> QED
    BY <1>1, <1>3, <1>4

\* Every order of what Add's filter kept is a list of certificates.
LEMMA OrdersAreLists ==
  ASSUME NEW S \in SUBSET Certs, NEW list \in Orders(S)
  PROVE  list \in Seq(Certs)
  <1>1. Cardinality(S) \in Nat
    BY FS_Subset, FS_CardinalityType, CertsAssumption, Zenon
  <1> QED
    BY <1>1 DEF Orders

\* Appending a list to the queue adds its contents.
LEMMA AppendedContents ==
  ASSUME NEW s \in Seq(Certs), NEW list \in Seq(Certs)
  PROVE  /\ s \o list \in Seq(Certs)
         /\ Contents(s \o list) = Contents(s) \cup Contents(list)
  <1>1. s \o list \in Seq(Certs)
    OBVIOUS
  <1>2. /\ DOMAIN (s \o list) = 1 .. Len(s) + Len(list)
        /\ \A k \in 1 .. Len(s) : (s \o list)[k] = s[k]
        /\ \A k \in 1 .. Len(list) : (s \o list)[Len(s) + k] = list[k]
    OBVIOUS
  <1>3. ASSUME NEW x \in Contents(s \o list) PROVE x \in Contents(s) \cup Contents(list)
    <2>1. PICK k \in DOMAIN (s \o list) : x = Raw[(s \o list)[k]]
      BY <1>1, <1>3, ContentsOf, Zenon
    <2>2. CASE k \in 1 .. Len(s)
      BY <2>1, <2>2, <1>2, ContentsOf
    <2>3. CASE k \notin 1 .. Len(s)
      <3>1. k - Len(s) \in 1 .. Len(list) /\ k = Len(s) + (k - Len(s))
        BY <2>1, <2>3, <1>2
      <3>2. x = Raw[list[k - Len(s)]] /\ k - Len(s) \in DOMAIN list
        BY <2>1, <3>1, <1>2
      <3> QED
        BY <3>2, ContentsOf, Zenon
    <2> QED
      BY <2>2, <2>3
  <1>4. ASSUME NEW x \in Contents(s) PROVE x \in Contents(s \o list)
    <2>1. PICK k \in DOMAIN s : x = Raw[s[k]]
      BY <1>4, ContentsOf, Zenon
    <2>2. k \in DOMAIN (s \o list) /\ x = Raw[(s \o list)[k]]
      BY <2>1, <1>2
    <2> QED
      BY <2>2, <1>1, ContentsOf, Zenon
  <1>5. ASSUME NEW x \in Contents(list) PROVE x \in Contents(s \o list)
    <2>1. PICK k \in DOMAIN list : x = Raw[list[k]]
      BY <1>5, ContentsOf, Zenon
    <2>2. Len(s) + k \in DOMAIN (s \o list) /\ x = Raw[(s \o list)[Len(s) + k]]
      BY <2>1, <1>2
    <2> QED
      BY <2>2, <1>1, ContentsOf, Zenon
  <1> QED
    BY <1>1, <1>3, <1>4, <1>5, Zenon

\* The positions that IndexOf adds make the index that of the longer queue.
LEMMA AppendedIndex ==
  ASSUME TypeOK, IndexIsExact, NEW list \in Seq(Certs), NEW n \in Range(Subject)
  PROVE  IndexOf(n, Len(certs), list)
           = {k \in DOMAIN (certs \o list) : Subject[Raw[(certs \o list)[k]]] = n}
  <1>1. certs \in Seq(Certs)
    BY DEF TypeOK
  <1>2. certsByName[n] = {k \in DOMAIN certs : Subject[Raw[certs[k]]] = n}
    BY DEF IndexIsExact
  <1>3. /\ DOMAIN (certs \o list) = 1 .. Len(certs) + Len(list)
        /\ \A k \in 1 .. Len(certs) : (certs \o list)[k] = certs[k]
        /\ \A k \in 1 .. Len(list) : (certs \o list)[Len(certs) + k] = list[k]
    BY <1>1
  <1>4. ASSUME NEW k \in DOMAIN (certs \o list), Subject[Raw[(certs \o list)[k]]] = n
        PROVE  k \in IndexOf(n, Len(certs), list)
    <2>1. CASE k \in 1 .. Len(certs)
      BY <2>1, <1>1, <1>2, <1>3, <1>4 DEF IndexOf
    <2>2. CASE k \notin 1 .. Len(certs)
      <3>1. k - Len(certs) \in DOMAIN list /\ k = Len(certs) + (k - Len(certs))
        BY <2>2, <1>1, <1>3
      <3>2. Subject[Raw[list[k - Len(certs)]]] = n
        BY <3>1, <1>1, <1>3, <1>4
      <3> QED
        BY <3>1, <3>2 DEF IndexOf
    <2> QED
      BY <2>1, <2>2
  <1>5. ASSUME NEW k \in IndexOf(n, Len(certs), list)
        PROVE  k \in DOMAIN (certs \o list) /\ Subject[Raw[(certs \o list)[k]]] = n
    <2>1. CASE k \in certsByName[n]
      BY <2>1, <1>1, <1>2, <1>3
    <2>2. CASE k \notin certsByName[n]
      <3>1. PICK i \in DOMAIN list : k = Len(certs) + i /\ Subject[Raw[list[i]]] = n
        BY <2>2, <1>5 DEF IndexOf
      <3> QED
        BY <3>1, <1>1, <1>3
    <2> QED
      BY <2>1, <2>2
  <1> QED
    BY <1>4, <1>5, Zenon

\* filterCerts drops nothing that is not queued: when it leaves nothing, every
\* certificate it was given is in the queue.
LEMMA DroppedIsQueued ==
  ASSUME IInv, NEW list \in AddLists, filterCerts(list) = {}
  PROVE  Contents(list) \subseteq Contents(certs)
  <1>1. certs \in Seq(Certs) /\ IndexIsExact
    BY Zenon DEF IInv, TypeOK
  <1>2. list \in Seq(Certs \cup {NilCert})
    BY AddListsAssumption
  <1>3. Range(list) \subseteq Certs \cup {NilCert}
    BY <1>2 DEF Range
  <1>4. SUFFICES ASSUME NEW c \in Range(list) \ {NilCert} PROVE Raw[c] \in Contents(certs)
    BY Zenon DEF Contents
  <1>5. Known(c)
    BY Zenon DEF filterCerts
  <1>6. PICK k \in certsByName[Subject[Raw[c]]] : Raw[certs[k]] = Raw[c]
    BY <1>5, Zenon DEF Known
  <1>7. c \in Certs
    BY <1>3, <1>4, Zenon
  <1>8. Raw[c] \in DOMAIN Subject
    BY <1>7, RawAssumption DEF Range
  <1>9. Subject[Raw[c]] \in Range(Subject)
    BY <1>8 DEF Range
  <1>10. k \in DOMAIN certs
    BY <1>1, <1>6, <1>9, Zenon DEF IndexIsExact
  <1> QED
    BY <1>1, <1>6, <1>10, ContentsOf, Zenon

-----------------------------------------------------------------------------
(* The steps *)

\* A new pool is empty, and so is its queue.
LEMMA InitIInv == Init => IInv
  <1> SUFFICES ASSUME Init PROVE IInv
    OBVIOUS
  <1> USE DEF Init
  <1>1. certs \in Seq(Certs) /\ DOMAIN certs = {}
    OBVIOUS
  <1>2. Contents(certs) = {}
    BY <1>1, ContentsOf
  <1>3. TypeOK
    BY <1>1 DEF TypeOK, Pool
  <1>4. IndexIsExact
    BY <1>1 DEF IndexIsExact
  <1>5. QueueOK /\ PublishedOrPending
    BY <1>2 DEF QueueOK, PublishedOrPending
  <1>6. \A t \in Threads : DueOK(t)
    BY DEF DueOK
  <1> QED
    BY <1>3, <1>4, <1>5, <1>6 DEF IInv

\* What the filter drops is in the queue already, so an Add that keeps nothing
\* has nothing to publish.
LEMMA BeginAddIInv ==
  ASSUME IInv, NEW t \in Threads, NEW list \in AddLists, BeginAdd(t, list)
  PROVE  IInv'
  <1>0. TypeOK /\ IndexIsExact /\ QueueOK /\ PublishedOrPending /\ \A u \in Threads : DueOK(u)
    BY DEF IInv
  <1>1. /\ UNCHANGED <<certs, certsByName, certPool, dirty, result, due, loadFailed>>
        /\ arg' = [arg EXCEPT ![t] = filterCerts(list)]
        /\ pc' = pc \/ pc' = [pc EXCEPT ![t] = "append"]
        /\ pc[t] = "idle"
    BY DEF BeginAdd
  <1>2. filterCerts(list) \subseteq Certs
    <2>1. list \in Seq(Certs \cup {NilCert})
      BY AddListsAssumption
    <2> QED
      BY <2>1 DEF filterCerts, Range
  <1>3. added' = added \/ (filterCerts(list) = {} /\ added' = added \cup Contents(list))
    BY DEF BeginAdd
  <1>4. added' \subseteq Contents(certs)
    BY <1>0, <1>3, DroppedIsQueued, Zenon DEF QueueOK
  <1>5. Contents(certs) \subseteq RawContents
    BY <1>0, ContentsOf DEF TypeOK
  <1>6. Contents(certs)' = Contents(certs)
    BY <1>1 DEF Contents, Range
  <1>7. TypeOK'
    BY <1>0, <1>1, <1>2, <1>4, <1>5 DEF TypeOK
  <1>8. Publishing' = Publishing
    BY <1>0, <1>1 DEF Publishing, TypeOK
  <1>9. IndexIsExact' /\ QueueOK' /\ PublishedOrPending'
    BY <1>0, <1>1, <1>4, <1>6, <1>8 DEF IndexIsExact, QueueOK, PublishedOrPending
  <1>10. ASSUME NEW u \in Threads PROVE DueOK(u)'
    BY <1>0, <1>1, <1>6, <1>10 DEF DueOK, TypeOK
  <1> QED
    BY <1>7, <1>9, <1>10, Zenon DEF IInv

\* The index follows the queue, and the flag says that the pool does not.
LEMMA AppendCertsIInv ==
  ASSUME IInv, NEW t \in Threads, AppendCerts(t)
  PROVE  IInv'
  <1>0. TypeOK /\ IndexIsExact /\ QueueOK /\ PublishedOrPending /\ \A u \in Threads : DueOK(u)
    BY DEF IInv
  <1>1. PICK list \in Orders(arg[t]) :
          /\ certs' = certs \o list
          /\ certsByName' = [n \in DOMAIN certsByName |-> IndexOf(n, Len(certs), list)]
          /\ added' = added \cup Contents(list)
    BY Zenon DEF AppendCerts
  <1>2. /\ UNCHANGED <<certPool, arg, result, due, loadFailed>>
        /\ dirty' = 1 /\ pc[t] = "append" /\ pc' = [pc EXCEPT ![t] = "idle"]
    BY DEF AppendCerts
  <1>3. certs \in Seq(Certs) /\ arg[t] \in SUBSET Certs /\ DOMAIN certsByName = Range(Subject)
    BY <1>0 DEF TypeOK
  <1>4. list \in Seq(Certs)
    BY <1>1, <1>3, OrdersAreLists, Zenon
  <1>5. certs' \in Seq(Certs) /\ Contents(certs') = Contents(certs) \cup Contents(list)
    BY <1>1, <1>3, <1>4, AppendedContents
  <1>6. Contents(certs') \subseteq RawContents
    BY <1>5, ContentsOf
  <1>7. \A n \in Range(Subject) :
          certsByName'[n] = {k \in DOMAIN certs' : Subject[Raw[certs'[k]]] = n}
    <2>1. ASSUME NEW n \in Range(Subject)
          PROVE  certsByName'[n] = IndexOf(n, Len(certs), list)
      BY <1>1, <1>3, <2>1
    <2>2. ASSUME NEW n \in Range(Subject)
          PROVE  IndexOf(n, Len(certs), list)
                   = {k \in DOMAIN (certs \o list) : Subject[Raw[(certs \o list)[k]]] = n}
      BY <1>0, <1>4, AppendedIndex
    <2> QED
      BY <2>1, <2>2, <1>1
  <1>8. DOMAIN certs' \subseteq Nat
    BY <1>5
  <1>9. certsByName' \in [Range(Subject) -> SUBSET Nat]
    BY <1>1, <1>3, <1>7, <1>8
  <1>10. QueueOK'
    BY <1>0, <1>1, <1>2, <1>5 DEF QueueOK
  <1>11. TypeOK'
    BY <1>0, <1>2, <1>5, <1>6, <1>9, <1>10 DEF TypeOK, QueueOK
  <1>12. IndexIsExact' /\ PublishedOrPending'
    BY <1>2, <1>7 DEF IndexIsExact, PublishedOrPending
  <1>13. ASSUME NEW u \in Threads PROVE DueOK(u)'
    BY <1>0, <1>2, <1>5, <1>13 DEF DueOK, TypeOK
  <1> QED
    BY <1>10, <1>11, <1>12, <1>13, Zenon DEF IInv

\* A Get that finds the flag cleared owes nothing that is not published: either
\* the pool holds the whole queue, or nothing is due.
LEMMA BeginGetIInv ==
  ASSUME IInv, NEW t \in Threads, BeginGet(t)
  PROVE  IInv'
  <1>0. TypeOK /\ IndexIsExact /\ QueueOK /\ PublishedOrPending /\ \A u \in Threads : DueOK(u)
    BY DEF IInv
  <1>1. /\ UNCHANGED <<certs, certsByName, certPool, arg, result, added, loadFailed>>
        /\ dirty' = 0 /\ pc[t] = "idle"
        /\ pc' = [pc EXCEPT ![t] = IF dirty = 1 THEN "load" ELSE "read"]
        /\ due' = [due EXCEPT ![t] = IF Publishing # {} \/ loadFailed THEN {} ELSE added]
    BY DEF BeginGet
  <1>2. Contents(certs)' = Contents(certs)
    BY <1>1 DEF Contents, Range
  <1>3. TypeOK'
    BY <1>0, <1>1 DEF TypeOK
  <1>4. IndexIsExact' /\ QueueOK'
    BY <1>0, <1>1, <1>2 DEF IndexIsExact, QueueOK
  <1>5. Publishing \subseteq Publishing'
    BY <1>0, <1>1 DEF Publishing, TypeOK
  <1>6. dirty = 1 => t \in Publishing'
    BY <1>0, <1>1 DEF Publishing, TypeOK
  <1>7. PublishedOrPending'
    BY <1>0, <1>1, <1>2, <1>5, <1>6 DEF PublishedOrPending
  <1>8. due'[t] \subseteq Contents(certs)
    BY <1>0, <1>1 DEF TypeOK, QueueOK
  <1>9. dirty # 1 => due'[t] \subseteq certPool
    BY <1>0, <1>1, <1>8 DEF TypeOK, PublishedOrPending
  <1>10. DueOK(t)'
    BY <1>0, <1>1, <1>2, <1>8, <1>9 DEF DueOK, TypeOK
  <1>11. ASSUME NEW u \in Threads \ {t} PROVE DueOK(u)'
    BY <1>0, <1>1, <1>2, <1>11 DEF DueOK, TypeOK
  <1> QED
    BY <1>3, <1>4, <1>7, <1>10, <1>11, Zenon DEF IInv

\* A load that fails leaves the flag cleared: no Get owes anything until a pool
\* is published again.
LEMMA LoadIInv ==
  ASSUME IInv, NEW t \in Threads, LoadSystemCertPool(t)
  PROVE  IInv'
  <1>0. TypeOK /\ IndexIsExact /\ QueueOK /\ PublishedOrPending /\ \A u \in Threads : DueOK(u)
    BY DEF IInv
  <1>1. UNCHANGED <<certs, certsByName, certPool, dirty, arg, added, due>> /\ pc[t] = "load"
    BY DEF LoadSystemCertPool
  <1>2. Contents(certs)' = Contents(certs)
    BY <1>1 DEF Contents, Range
  <1>3. IndexIsExact' /\ QueueOK'
    BY <1>0, <1>1, <1>2 DEF IndexIsExact, QueueOK
  <1>4. CASE pc' = [pc EXCEPT ![t] = "swap"] /\ UNCHANGED <<result, loadFailed>>
    <2>1. TypeOK'
      BY <1>0, <1>1, <1>4 DEF TypeOK
    <2>2. Publishing' = Publishing
      BY <1>0, <1>1, <1>4 DEF Publishing, TypeOK
    <2>3. PublishedOrPending'
      BY <1>0, <1>1, <1>2, <1>4, <2>2 DEF PublishedOrPending
    <2>4. ASSUME NEW u \in Threads PROVE DueOK(u)'
      BY <1>0, <1>1, <1>2, <1>4, <2>4 DEF DueOK, TypeOK
    <2> QED
      BY <1>3, <2>1, <2>3, <2>4, Zenon DEF IInv
  <1>5. CASE /\ loadFailed' = TRUE /\ pc' = [pc EXCEPT ![t] = "idle"]
             /\ result' = [result EXCEPT ![t] = NoPool]
    <2>1. NoPool \in Pool /\ NoPool.err
      BY DEF NoPool, Pool
    <2>2. TypeOK'
      BY <1>0, <1>1, <1>5, <2>1 DEF TypeOK
    <2>3. PublishedOrPending'
      BY <1>5 DEF PublishedOrPending
    <2>4. ASSUME NEW u \in Threads PROVE DueOK(u)'
      BY <1>0, <1>1, <1>2, <1>5, <2>1, <2>4 DEF DueOK, TypeOK
    <2> QED
      BY <1>3, <2>2, <2>3, <2>4, Zenon DEF IInv
  <1> QED
    BY <1>4, <1>5 DEF LoadSystemCertPool

\* The pool that is published is the whole queue, so it loses nothing a Get that
\* has yet to read it owes.
LEMMA SwapIInv ==
  ASSUME IInv, NEW t \in Threads, SwapCertPool(t)
  PROVE  IInv'
  <1>0. TypeOK /\ IndexIsExact /\ QueueOK /\ PublishedOrPending /\ \A u \in Threads : DueOK(u)
    BY DEF IInv
  <1>1. /\ UNCHANGED <<certs, certsByName, dirty, arg, result, added, due>>
        /\ certPool' = Contents(certs) /\ loadFailed' = FALSE
        /\ pc[t] = "swap" /\ pc' = [pc EXCEPT ![t] = "read"]
    BY DEF SwapCertPool, NewPool
  <1>2. Contents(certs)' = Contents(certs) /\ Contents(certs) \subseteq RawContents
    BY <1>0, <1>1, ContentsOf DEF TypeOK
  <1>3. TypeOK'
    BY <1>0, <1>1, <1>2 DEF TypeOK
  <1>4. IndexIsExact' /\ QueueOK' /\ PublishedOrPending'
    BY <1>0, <1>1, <1>2 DEF IndexIsExact, QueueOK, PublishedOrPending
  <1>5. ASSUME NEW u \in Threads PROVE DueOK(u)'
    BY <1>0, <1>1, <1>2, <1>5 DEF DueOK, TypeOK, QueueOK
  <1> QED
    BY <1>3, <1>4, <1>5, Zenon DEF IInv

\* What Get returns holds what it owes its caller.
LEMMA ReturnPoolIInv ==
  ASSUME IInv, NEW t \in Threads, ReturnPool(t)
  PROVE  IInv'
  <1>0. TypeOK /\ IndexIsExact /\ QueueOK /\ PublishedOrPending /\ \A u \in Threads : DueOK(u)
    BY DEF IInv
  <1>1. /\ UNCHANGED <<certs, certsByName, certPool, dirty, arg, added, due, loadFailed>>
        /\ pc[t] = "read" /\ pc' = [pc EXCEPT ![t] = "idle"]
        /\ result' = [result EXCEPT ![t] = [err |-> FALSE, pool |-> certPool]]
    BY DEF ReturnPool
  <1>2. Contents(certs)' = Contents(certs)
    BY <1>1 DEF Contents, Range
  <1>3. [err |-> FALSE, pool |-> certPool] \in Pool
    BY <1>0 DEF TypeOK, Pool
  <1>4. TypeOK'
    BY <1>0, <1>1, <1>3 DEF TypeOK
  <1>5. Publishing' = Publishing
    BY <1>0, <1>1 DEF Publishing, TypeOK
  <1>6. IndexIsExact' /\ QueueOK' /\ PublishedOrPending'
    BY <1>0, <1>1, <1>2, <1>5 DEF IndexIsExact, QueueOK, PublishedOrPending
  <1>7. ASSUME NEW u \in Threads PROVE DueOK(u)'
    BY <1>0, <1>1, <1>2, <1>7 DEF DueOK, TypeOK
  <1> QED
    BY <1>4, <1>6, <1>7, Zenon DEF IInv

\* Every step of Add and Get keeps the invariant.
LEMMA NextIInv == IInv /\ [Next]_vars => IInv'
  <1>1. ASSUME IInv, UNCHANGED vars PROVE IInv'
    <2>1. UNCHANGED <<certs, certsByName, certPool, dirty, pc, arg, result, added, due, loadFailed>>
      BY <1>1, Zenon DEF vars
    <2>2. TypeOK' /\ IndexIsExact'
      BY <1>1, <2>1, Zenon DEF IInv, TypeOK, IndexIsExact
    <2>3. QueueOK' /\ PublishedOrPending'
      BY <1>1, <2>1, Zenon DEF IInv, QueueOK, PublishedOrPending, Publishing
    <2>4. \A t \in Threads : DueOK(t)'
      BY <1>1, <2>1, Zenon DEF IInv, DueOK
    <2> QED
      BY <2>2, <2>3, <2>4, Zenon DEF IInv
  <1>2. ASSUME IInv, Next PROVE IInv'
    <2>1. CASE Done
      BY <1>1, <1>2, <2>1, Zenon DEF Done
    <2> QED
      BY <1>2, <2>1, BeginAddIInv, AppendCertsIInv, BeginGetIInv, LoadIInv, SwapIInv,
        ReturnPoolIInv, Zenon DEF Next
  <1> QED
    BY <1>1, <1>2, Zenon

-----------------------------------------------------------------------------
\* Add and Get keep the invariant, whatever the threads interleave and however
\* often the system pool fails to load.
THEOREM Invariance == Spec => []IInv
  BY InitIInv, NextIInv, PTL DEF Spec

\* Get returns the certificates of every Add that had returned when it was called,
\* unless another Get was publishing or a failed load had lost the flag.
THEOREM GetReturnsPreviousAdds == Spec => []GetHoldsPreviousAdds
  <1>1. IInv => GetHoldsPreviousAdds
    BY Zenon DEF IInv, DueOK, GetHoldsPreviousAdds
  <1> QED
    BY Invariance, <1>1, PTL

\* The index certsByName, through which Add finds what is queued, has every
\* position of the queue under its subject and no other.
THEOREM IndexStaysExact == Spec => []IndexIsExact
  <1>1. IInv => IndexIsExact
    BY DEF IInv
  <1> QED
    BY Invariance, <1>1, PTL

\* A Get that publishes late replaces the pool by one that holds it.
THEOREM PublishedIsKept == Spec => PoolOnlyGrows
  <1>1. IInv /\ [Next]_vars => [certPool \subseteq certPool']_vars
    <2> SUFFICES ASSUME IInv, Next PROVE certPool \subseteq certPool'
      BY Zenon
    <2>1. ASSUME NEW t \in Threads, SwapCertPool(t) PROVE certPool \subseteq certPool'
      BY <2>1, Zenon DEF SwapCertPool, NewPool, IInv, QueueOK
    <2>2. certPool' = certPool \/ \E t \in Threads : SwapCertPool(t)
      BY DEF Next, BeginAdd, AppendCerts, BeginGet, LoadSystemCertPool, ReturnPool, Done, vars
    <2> QED
      BY <2>1, <2>2, Zenon
  <1> QED
    BY Invariance, <1>1, PTL DEF Spec, PoolOnlyGrows
=============================================================================
