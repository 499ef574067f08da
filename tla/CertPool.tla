-------------------------------- MODULE CertPool --------------------------------
(***************************************************************************)
(* The certificate pool of internal/pkg/tlsutil: a queue of certificates   *)
(* that Add fills, a published pool that Get rebuilds when the dirty flag   *)
(* is set.  The lock guards queue and pool; the flag is an atomic of its    *)
(* own.  Each section under the lock is one step, each atomic operation and *)
(* each load of the system pool another.                                    *)
(***************************************************************************)
EXTENDS Naturals, Sequences, FiniteSets, Functions

CONSTANTS
  Threads,          \* callers of Add and Get
  Certs,            \* *x509.Certificate: pointers
  NilCert,          \* the nil pointer
  Raw,              \* the content behind each pointer, what Equal compares
  Subject,          \* the raw subject of each content
  AddLists,         \* the argument lists given to Add
  MaxCalls,         \* bound: calls made in all
  MaxLoadFailures   \* bound: how often the system pool fails to load

ASSUME CertsAssumption == IsFiniteSet(Certs) /\ NilCert \notin Certs
ASSUME RawAssumption == DOMAIN Raw = Certs /\ Range(Raw) \subseteq DOMAIN Subject
ASSUME AddListsAssumption == AddLists \subseteq Seq(Certs \cup {NilCert})

VARIABLES
  certs,        \* the queue, certificate pointers
  certsByName,  \* for each subject the positions of its certificates
  certPool,     \* the published pool: contents, without the system's own
  dirty,        \* 1 when the queue holds what the pool does not
  pc, arg,      \* each thread's place in its call, and what Add's filter kept
  result,       \* what each thread's last Get returned
  \* history and bounds
  added,        \* contents of the Adds that have returned
  due,          \* for each thread, the contents its Get owes its caller
  loadFailed,   \* a load failed and no pool was published since
  calls, failures

vars == <<certs, certsByName, certPool, dirty, pc, arg, result, added, due,
          loadFailed, calls, failures>>

NoPool == [err |-> TRUE, pool |-> {}]
Contents(list) == {Raw[c] : c \in Range(list) \ {NilCert}}

Init ==
  /\ certs = <<>> /\ certsByName = [n \in Range(Subject) |-> {}]
  /\ certPool = {} /\ dirty = 0
  /\ pc = [t \in Threads |-> "idle"]
  /\ arg = [t \in Threads |-> {}]
  /\ result = [t \in Threads |-> [err |-> FALSE, pool |-> {}]]
  /\ added = {} /\ due = [t \in Threads |-> {}]
  /\ loadFailed = FALSE /\ calls = 0 /\ failures = 0

-----------------------------------------------------------------------------
(* Add *)

\* One queued under the subject of c has its content.
Known(c) == \E k \in certsByName[Subject[Raw[c]]] : Raw[certs[k]] = Raw[c]

\* A certificate is dropped when it is nil, known, or there before:
\* removeDuplicates keeps one of each pointer.
filterCerts(list) == {c \in Range(list) \ {NilCert} : ~Known(c)}

\* The filter, under the read lock.  An empty remainder ends the call.
BeginAdd(t, list) ==
  /\ pc[t] = "idle" /\ calls < MaxCalls
  /\ calls' = calls + 1
  /\ arg' = [arg EXCEPT ![t] = filterCerts(list)]
  /\ IF filterCerts(list) = {}
     THEN pc' = pc /\ added' = added \cup Contents(list)
     ELSE pc' = [pc EXCEPT ![t] = "append"] /\ added' = added
  /\ UNCHANGED <<certs, certsByName, certPool, dirty, result, due, loadFailed, failures>>

\* The code appends them in the order of the arguments.  The model takes any
\* order, which is more than the code does: nothing depends on it.
Orders(S) == {list \in [1 .. Cardinality(S) -> S] : Range(list) = S}

\* certsByName[name] gets the position of each new certificate of that subject.
IndexOf(name, base, list) ==
  certsByName[name] \cup {base + i : i \in {j \in DOMAIN list : Subject[Raw[list[j]]] = name}}

\* Mutant: the flag is set only by the Add that finds the queue empty.
AppendCertsFirstMarks(t) ==
  /\ pc[t] = "append"
  /\ \E list \in Orders(arg[t]) :
       /\ certs' = certs \o list
       /\ certsByName' = [n \in DOMAIN certsByName |-> IndexOf(n, Len(certs), list)]
       /\ added' = added \cup Contents(list)
  /\ dirty' = IF certs = <<>> THEN 1 ELSE dirty
  /\ pc' = [pc EXCEPT ![t] = "idle"]
  /\ UNCHANGED <<certPool, arg, result, due, loadFailed, calls, failures>>

\* The append, under the write lock; the flag is set before it is released.
AppendCerts(t) ==
  /\ pc[t] = "append"
  /\ \E list \in Orders(arg[t]) :
       /\ certs' = certs \o list
       /\ certsByName' = [n \in DOMAIN certsByName |-> IndexOf(n, Len(certs), list)]
       /\ added' = added \cup Contents(list)
  /\ dirty' = 1
  /\ pc' = [pc EXCEPT ![t] = "idle"]
  /\ UNCHANGED <<certPool, arg, result, due, loadFailed, calls, failures>>

-----------------------------------------------------------------------------
(* Get *)

\* The Gets between clearing the flag and publishing.
Publishing == {t \in Threads : pc[t] \in {"load", "swap"}}

\* CompareAndSwap of the flag: only the caller that clears it swaps the pool.
BeginGet(t) ==
  /\ pc[t] = "idle" /\ calls < MaxCalls
  /\ calls' = calls + 1
  /\ dirty' = 0
  /\ pc' = [pc EXCEPT ![t] = IF dirty = 1 THEN "load" ELSE "read"]
  /\ due' = [due EXCEPT ![t] = IF Publishing # {} \/ loadFailed THEN {} ELSE added]
  /\ UNCHANGED <<certs, certsByName, certPool, arg, result, added, loadFailed, failures>>

\* loadSystemCertPool, outside the lock.  Its error ends Get; the flag stays cleared.
LoadSystemCertPool(t) ==
  /\ pc[t] = "load"
  /\ \/ /\ pc' = [pc EXCEPT ![t] = "swap"]
        /\ UNCHANGED <<result, loadFailed, failures>>
     \/ /\ failures < MaxLoadFailures
        /\ failures' = failures + 1
        /\ loadFailed' = TRUE
        /\ pc' = [pc EXCEPT ![t] = "idle"]
        /\ result' = [result EXCEPT ![t] = NoPool]
  /\ UNCHANGED <<certs, certsByName, certPool, dirty, arg, added, due, calls>>

\* Mutant: only the certificates the old pool lacks go into the new one.
NewPoolOfNewCerts == Contents(certs) \ certPool

\* The loaded pool with every queued certificate.
NewPool == Contents(certs)

SwapCertPool(t) ==
  /\ pc[t] = "swap"
  /\ certPool' = NewPool
  /\ loadFailed' = FALSE
  /\ pc' = [pc EXCEPT ![t] = "read"]
  /\ UNCHANGED <<certs, certsByName, dirty, arg, result, added, due, calls, failures>>

\* The pool is read under the read lock and returned.
ReturnPool(t) ==
  /\ pc[t] = "read"
  /\ result' = [result EXCEPT ![t] = [err |-> FALSE, pool |-> certPool]]
  /\ pc' = [pc EXCEPT ![t] = "idle"]
  /\ UNCHANGED <<certs, certsByName, certPool, dirty, arg, added, due, loadFailed, calls, failures>>

-----------------------------------------------------------------------------
\* Every caller is done with its calls.
Done ==
  /\ calls = MaxCalls
  /\ \A t \in Threads : pc[t] = "idle"
  /\ UNCHANGED vars

Next ==
  \/ \E t \in Threads, list \in AddLists : BeginAdd(t, list)
  \/ \E t \in Threads : AppendCerts(t)
  \/ \E t \in Threads : BeginGet(t)
  \/ \E t \in Threads : LoadSystemCertPool(t)
  \/ \E t \in Threads : SwapCertPool(t)
  \/ \E t \in Threads : ReturnPool(t)
  \/ Done

Spec == Init /\ [][Next]_vars

-----------------------------------------------------------------------------
(* Properties *)

\* Concurrent Gets that each build a pool of their own never publish one with
\* fewer certificates than the pool it replaces.
PoolOnlyGrows == [][certPool \subseteq certPool']_vars

\* Get's comment: the pool it returns holds the certificates of every Add that
\* had returned when Get was called.  The code keeps this unless another Get was
\* publishing at that moment, or a failed load had lost the flag.
GetHoldsPreviousAdds ==
  \A t \in Threads :
    pc[t] = "idle" /\ ~result[t].err => due[t] \subseteq result[t].pool
=============================================================================
