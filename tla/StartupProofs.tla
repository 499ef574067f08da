------------------------------ MODULE StartupProofs ------------------------------
(***************************************************************************)
(* What the processes of a deployment find when they have started.          *)
(*                                                                         *)
(* Agents: getOrInit agrees on one value per key, for any number of agents  *)
(* and keys, any timeouts, faults, crashes and restarts, as long as no      *)
(* initialisation of the key has outlasted getOrInit's sleep; and a log     *)
(* that is served has been initialised in any case.  Log servers and        *)
(* signers: whoever goes on from ImportPostgres finds the whole schema, and *)
(* whoever returns has left nothing in etcd but what it failed to withdraw. *)
(***************************************************************************)
EXTENDS Bootstrap, ServerRun, TLAPS

\* Only initialised trees get into the store.
StoreOK == \A k \in Keys : k \in TreeKeys /\ store[k] # None => store[k] \in inited

\* What an agent holds at each step of getOrInit.
AgentOK(a) ==
  /\ pc[a] \in {"init", "put"} => val[a] # None
  /\ pc[a] = "put" /\ key(a) \in TreeKeys => val[a] \in inited
  /\ pc[a] = "sleep" => src[a] # None /\ store[key(a)] # None

\* The timing argument: whoever initialises a key that a sleeper has seen found
\* nothing before the sleeper's first read, so it is older than the sleep.
PairOK(a, b) ==
  pc[a] = "sleep" /\ Initialising(b) /\ key(a) = key(b) => age[b] + timer[a] >= SyncTimeout

\* An initialisation is younger than the sleep, or its key has been noted.
AgeOK(b) == Initialising(b) /\ key(b) \notin slow => age[b] < SyncTimeout

ResolvedOK ==
  /\ ResolvedIsStored
  /\ NoNewValueOnceResolved
  /\ ResolvedTreeIsInitialised
  /\ \A p \in resolved : p[2] # None

IInv ==
  /\ TypeOK
  /\ StoreOK
  /\ \A a \in Agents : AgentOK(a) /\ AgeOK(a)
  /\ \A a, b \in Agents : PairOK(a, b)
  /\ ResolvedOK

\* The process ends, possibly just after its last request was carried out.
Leaves(a) ==
  /\ Exit(a)
  /\ inited' \in {inited, inited \cup {val[a]}} /\ (inited' # inited => pc[a] = "init")
  /\ fresh' \in 0 .. MaxFresh /\ faults' \in 0 .. MaxFaults
  /\ store' = store \/ (pc[a] = "put" /\ store' = [store EXCEPT ![key(a)] = val[a]])
  /\ UNCHANGED <<resolved, slow>>
-----------------------------------------------------------------------------
\* The key an agent is at is a key of the store.
LEMMA KeyType == ASSUME TypeOK, NEW a \in Agents PROVE key(a) \in Keys
BY DEF TypeOK, key, Keys

\* The inductive step.
LEMMA Inductive == IInv /\ [Next]_vars => IInv'
<1> SUFFICES ASSUME IInv, [Next]_vars PROVE IInv'
  OBVIOUS
<1> USE DEF IInv, agent, vars
<1>1. ASSUME NEW a \in Agents, Start(a) PROVE IInv'
  <2>1. TypeOK'
    BY <1>1, NatAssumption DEF TypeOK, Go, Start
  <2>2. StoreOK'
    BY <1>1, Zenon DEF StoreOK, Start
  <2>3. ASSUME NEW b \in Agents PROVE AgentOK(b)'
    BY <1>1, <2>3 DEF AgentOK, key, TypeOK, Go, Start
  <2>4. ASSUME NEW b \in Agents, NEW c \in Agents PROVE PairOK(b, c)'
    BY <1>1, <2>4 DEF PairOK, Initialising, key, TypeOK, Go, Start
  <2>6. ASSUME NEW b \in Agents PROVE AgeOK(b)'
    BY <1>1, <2>6 DEF AgeOK, Initialising, key, TypeOK, Go, Start
  <2>5. ResolvedOK'
    BY <1>1 DEF ResolvedOK, ResolvedIsStored, NoNewValueOnceResolved, ResolvedTreeIsInitialised, Initialising, key, TypeOK, Go, Start
  <2> QED
    BY <2>1, <2>2, <2>3, <2>4, <2>5, <2>6, Zenon
<1>2. ASSUME NEW a \in Agents, Connect(a) PROVE IInv'
  <2>1. TypeOK'
    BY <1>2, NatAssumption DEF TypeOK, Go, Connect
  <2>2. StoreOK'
    BY <1>2, Zenon DEF StoreOK, Connect
  <2>3. ASSUME NEW b \in Agents PROVE AgentOK(b)'
    BY <1>2, <2>3 DEF AgentOK, key, TypeOK, Go, Connect
  <2>4. ASSUME NEW b \in Agents, NEW c \in Agents PROVE PairOK(b, c)'
    BY <1>2, <2>4 DEF PairOK, Initialising, key, TypeOK, Go, Connect
  <2>6. ASSUME NEW b \in Agents PROVE AgeOK(b)'
    BY <1>2, <2>6 DEF AgeOK, Initialising, key, TypeOK, Go, Connect
  <2>5. ResolvedOK'
    BY <1>2 DEF ResolvedOK, ResolvedIsStored, NoNewValueOnceResolved, ResolvedTreeIsInitialised, Initialising, key, TypeOK, Go, Connect
  <2> QED
    BY <2>1, <2>2, <2>3, <2>4, <2>5, <2>6, Zenon
<1>3. ASSUME NEW a \in Agents, Get(a) PROVE IInv'
  <2>1. TypeOK'
    BY <1>3, KeyType, NatAssumption DEF TypeOK, Go, Get
  <2>2. StoreOK'
    BY <1>3, Zenon DEF StoreOK, Get
  <2>3. ASSUME NEW b \in Agents PROVE AgentOK(b)'
    BY <1>3, <2>3 DEF AgentOK, key, TypeOK, Go, Get
  <2>4. ASSUME NEW b \in Agents, NEW c \in Agents PROVE PairOK(b, c)'
    <3>1. pc[b] = "sleep" => store[key(b)] # None
      BY DEF AgentOK
    <3> QED
      BY <1>3, <2>4, <3>1, NatAssumption DEF PairOK, Initialising, key, TypeOK, Go, Get
  <2>6. ASSUME NEW b \in Agents PROVE AgeOK(b)'
    BY <1>3, <2>6, NatAssumption DEF AgeOK, Initialising, key, TypeOK, Go, Get
  <2>5. ResolvedOK'
    <3>1. CASE store[key(a)] # None
      BY <1>3, <3>1 DEF ResolvedOK, ResolvedIsStored, NoNewValueOnceResolved, ResolvedTreeIsInitialised, Initialising, key, TypeOK,
         Go, Get
    <3>2. CASE store[key(a)] = None
      <4>1. \A p \in resolved : p[1] # key(a) \/ p[1] \in slow
        BY <3>2, Zenon DEF ResolvedOK, ResolvedIsStored
      <4>2. /\ UNCHANGED <<resolved, store, at, inited>> /\ slow \subseteq slow'
            /\ \A b \in Agents \ {a} : pc'[b] = pc[b]
        BY <1>3, <3>2 DEF TypeOK, Go, Get
      <4>3. ResolvedIsStored'
        BY <4>2, Zenon DEF ResolvedOK, ResolvedIsStored
      <4>4. \A b \in Agents : key(b)' = key(b)
        BY <4>2, Zenon DEF key
      <4>5. NoNewValueOnceResolved'
        BY <4>1, <4>2, <4>4 DEF ResolvedOK, NoNewValueOnceResolved, Initialising
      <4> QED
        BY <4>2, <4>3, <4>5, Zenon DEF ResolvedOK, ResolvedTreeIsInitialised
    <3> QED
      BY <3>1, <3>2
  <2> QED
    BY <2>1, <2>2, <2>3, <2>4, <2>5, <2>6, Zenon
<1>4. ASSUME NEW a \in Agents, Wake(a) PROVE IInv'
  <2>1. TypeOK'
    <3>1. at[a] # Len(Plan[a]) => at[a] + 1 \in DOMAIN Plan[a]
      <4>1. Plan[a] \in Seq(STRING) /\ at[a] \in DOMAIN Plan[a]
        BY PlanAssumption, Zenon DEF TypeOK
      <4> QED
        BY <4>1
    <3>2. <<key(a), src[a]>> \in Keys \X (0 .. MaxFresh)
      BY KeyType DEF TypeOK
    <3>3. resolved' \subseteq Keys \X (0 .. MaxFresh)
      <4>1. resolved' = resolved \/ resolved' = resolved \cup {<<key(a), src[a]>>}
        BY <1>4, Zenon DEF Wake
      <4> QED
        BY <3>2, <4>1 DEF TypeOK
    <3>4. at' = at \/ (at[a] # Len(Plan[a]) /\ at' = [at EXCEPT ![a] = at[a] + 1])
      BY <1>4, Zenon DEF Wake
    <3>5. at' \in [Agents -> Nat] /\ \A b \in Agents : at'[b] \in DOMAIN Plan[b]
      <4>1. at \in [Agents -> Nat] /\ \A b \in Agents : at[b] \in DOMAIN Plan[b]
        BY Zenon DEF TypeOK
      <4>2. at[a] + 1 \in Nat
        BY <4>1
      <4>3. \A b \in Agents : at'[b] = at[b] \/ (b = a /\ at'[b] = at[b] + 1 /\ at[a] # Len(Plan[a]))
        BY <3>4, <4>1
      <4>4. at' \in [Agents -> Nat]
        BY <3>4, <4>1, <4>2
      <4> QED
        BY <3>1, <4>1, <4>3, <4>4, Zenon
    <3>6. pc' = [pc EXCEPT ![a] = "serve"] \/ pc' = [pc EXCEPT ![a] = "get"]
      BY <1>4, Zenon DEF Wake, Go
    <3>7. src' = [src EXCEPT ![a] = 0]
          /\ UNCHANGED <<store, inited, fresh, val, tries, timer, age, slow, faults>>
      BY <1>4, Zenon DEF Wake, None
    <3>8. src' \in [Agents -> 0 .. MaxFresh]
      BY <3>7, NatAssumption DEF TypeOK
    <3>9. pc' \in [Agents -> {"off", "connect", "get", "sleep", "create", "init", "put", "serve"}]
      BY <3>6 DEF TypeOK
    <3> QED
      BY <3>3, <3>5, <3>7, <3>8, <3>9, Zenon DEF TypeOK
  <2>2. StoreOK'
    BY <1>4, Zenon DEF StoreOK, Wake
  <2>a. /\ UNCHANGED <<store, inited, val, timer, age>> /\ pc'[a] \in {"serve", "get"}
        /\ \A b \in Agents \ {a} : pc'[b] = pc[b] /\ at'[b] = at[b] /\ src'[b] = src[b]
    BY <1>4 DEF Wake, Go, TypeOK
  <2>3. ASSUME NEW b \in Agents PROVE AgentOK(b)'
    <3>1. CASE b = a
      BY <2>a, <3>1 DEF AgentOK
    <3>2. CASE b # a
      BY <2>a, <3>2, Zenon DEF AgentOK, key
    <3> QED
      BY <3>1, <3>2
  <2>4. ASSUME NEW b \in Agents, NEW c \in Agents PROVE PairOK(b, c)'
    <3>1. CASE b = a \/ c = a
      BY <2>a, <3>1 DEF PairOK, Initialising
    <3>2. CASE b # a /\ c # a
      BY <2>a, <3>2, Zenon DEF PairOK, Initialising, key
    <3> QED
      BY <3>1, <3>2
  <2>6. ASSUME NEW b \in Agents PROVE AgeOK(b)'
    <3>1. CASE b = a
      BY <2>a, <3>1 DEF AgeOK, Initialising
    <3>2. CASE b # a
      BY <1>4, <2>a, <3>2, Zenon DEF AgeOK, Initialising, key, Wake
    <3> QED
      BY <3>1, <3>2
  <2>5. ResolvedOK'
    <3>1. ASSUME NEW b \in Agents, Initialising(b) PROVE key(b) # key(a) \/ key(b) \in slow
      <4>1. key(a) = key(b) => age[b] + timer[a] >= SyncTimeout
        BY <1>4, <3>1 DEF PairOK, Wake
      <4>2. timer[a] = 0 /\ age[b] \in 0 .. SyncTimeout
        BY <1>4 DEF Wake, TypeOK
      <4>3. key(b) \notin slow => age[b] < SyncTimeout
        BY <3>1, Zenon DEF AgeOK
      <4> QED
        BY <4>1, <4>2, <4>3, NatAssumption
    <3>2. \A b \in Agents : Initialising(b)' => Initialising(b) /\ at'[b] = at[b]
      BY <1>4 DEF Wake, Go, Initialising, TypeOK
    <3>3. /\ store' = store /\ slow' = slow /\ inited' = inited
          /\ \A p \in resolved' : p \in resolved \/ (p = <<key(a), src[a]>> /\ store[key(a)] = src[a])
      BY <1>4 DEF Wake
    <3>4. src[a] # None
      BY <1>4, Zenon DEF AgentOK, Wake
    <3>5. ResolvedIsStored' /\ \A p \in resolved' : p[2] # None
      BY <3>3, <3>4 DEF ResolvedOK, ResolvedIsStored
    <3>6. NoNewValueOnceResolved'
      BY <3>1, <3>2, <3>3 DEF ResolvedOK, NoNewValueOnceResolved, key
    <3>7. key(a) \in TreeKeys /\ store[key(a)] = src[a] => src[a] \in inited
      BY <3>4, KeyType, Zenon DEF StoreOK
    <3>8. ResolvedTreeIsInitialised'
      BY <3>3, <3>7 DEF ResolvedOK, ResolvedTreeIsInitialised
    <3> QED
      BY <3>5, <3>6, <3>8, Zenon DEF ResolvedOK
  <2> QED
    BY <2>1, <2>2, <2>3, <2>4, <2>5, <2>6, Zenon
<1>5. ASSUME NEW a \in Agents, Create(a) PROVE IInv'
  <2>1. TypeOK'
    BY <1>5, NatAssumption DEF TypeOK, Go, Create
  <2>2. StoreOK'
    BY <1>5, Zenon DEF StoreOK, Create
  <2>3. ASSUME NEW b \in Agents PROVE AgentOK(b)'
    BY <1>5, <2>3 DEF AgentOK, key, TypeOK, Go, Create, None
  <2>4. ASSUME NEW b \in Agents, NEW c \in Agents PROVE PairOK(b, c)'
    BY <1>5, <2>4 DEF PairOK, Initialising, key, TypeOK, Go, Create
  <2>6. ASSUME NEW b \in Agents PROVE AgeOK(b)'
    BY <1>5, <2>6 DEF AgeOK, Initialising, key, TypeOK, Go, Create
  <2>5. ResolvedOK'
    BY <1>5 DEF ResolvedOK, ResolvedIsStored, NoNewValueOnceResolved, ResolvedTreeIsInitialised, Initialising, key, TypeOK, Go, Create
  <2> QED
    BY <2>1, <2>2, <2>3, <2>4, <2>5, <2>6, Zenon
<1>6. ASSUME NEW a \in Agents, InitLog(a) PROVE IInv'
  <2>1. TypeOK'
    <3>1. val[a] \in 1 .. MaxFresh
      BY <1>6, NatAssumption DEF TypeOK, InitLog, AgentOK, None
    <3>2. inited' \subseteq 1 .. MaxFresh
      BY <1>6, <3>1, Zenon DEF TypeOK, InitLog
    <3>3. pc' \in [Agents -> {"off", "connect", "get", "sleep", "create", "init", "put", "serve"}]
      BY <1>6 DEF TypeOK, Go, InitLog
    <3> QED
      BY <1>6, <3>2, <3>3, Zenon DEF TypeOK, InitLog
  <2>2. StoreOK'
    BY <1>6, Zenon DEF StoreOK, InitLog
  <2>3. ASSUME NEW b \in Agents PROVE AgentOK(b)'
    BY <1>6, <2>3 DEF AgentOK, key, TypeOK, Go, InitLog
  <2>4. ASSUME NEW b \in Agents, NEW c \in Agents PROVE PairOK(b, c)'
    BY <1>6, <2>4 DEF PairOK, Initialising, key, TypeOK, Go, InitLog
  <2>6. ASSUME NEW b \in Agents PROVE AgeOK(b)'
    BY <1>6, <2>6 DEF AgeOK, Initialising, key, TypeOK, Go, InitLog
  <2>5. ResolvedOK'
    BY <1>6 DEF ResolvedOK, ResolvedIsStored, NoNewValueOnceResolved, ResolvedTreeIsInitialised, Initialising, key, TypeOK, Go, InitLog
  <2> QED
    BY <2>1, <2>2, <2>3, <2>4, <2>5, <2>6, Zenon
<1>7. ASSUME NEW a \in Agents, Put(a) PROVE IInv'
  <2>1. TypeOK'
    BY <1>7, KeyType, NatAssumption DEF TypeOK, Go, Put, None
  <2>2. StoreOK'
    BY <1>7, KeyType DEF StoreOK, AgentOK, TypeOK, Put
  <2>3. ASSUME NEW b \in Agents PROVE AgentOK(b)'
    BY <1>7, <2>3, KeyType DEF AgentOK, key, TypeOK, Go, Put
  <2>4. ASSUME NEW b \in Agents, NEW c \in Agents PROVE PairOK(b, c)'
    BY <1>7, <2>4 DEF PairOK, Initialising, key, TypeOK, Go, Put
  <2>6. ASSUME NEW b \in Agents PROVE AgeOK(b)'
    BY <1>7, <2>6 DEF AgeOK, Initialising, key, TypeOK, Go, Put
  <2>5. ResolvedOK'
    <3>1. \A p \in resolved : p[1] # key(a) \/ p[1] \in slow
      BY <1>7, Zenon DEF Put, ResolvedOK, NoNewValueOnceResolved, Initialising
    <3>2. \A k \in Keys : k # key(a) => store'[k] = store[k]
      BY <1>7 DEF Put, TypeOK
    <3>3. \A p \in resolved : p[1] \in Keys
      BY DEF TypeOK
    <3>4. ResolvedIsStored'
      BY <1>7, <3>1, <3>2, <3>3, Zenon DEF ResolvedOK, ResolvedIsStored, Put
    <3> QED
      BY <1>7, <3>4 DEF ResolvedOK, NoNewValueOnceResolved, ResolvedTreeIsInitialised, Initialising, key, TypeOK, Go, Put
  <2> QED
    BY <2>1, <2>2, <2>3, <2>4, <2>5, <2>6, Zenon
<1>8. ASSUME NEW a \in Agents, Leaves(a) PROVE IInv'
  <2>0. /\ store' = store \/ (pc[a] = "put" /\ store' = [store EXCEPT ![key(a)] = val[a]])
        /\ resolved' = resolved /\ slow' = slow /\ inited \subseteq inited'
        /\ pc'[a] = "off" /\ \A b \in Agents \ {a} :
             pc'[b] = pc[b] /\ at'[b] = at[b] /\ src'[b] = src[b] /\ val'[b] = val[b]
             /\ timer'[b] = timer[b] /\ age'[b] = age[b]
    BY <1>8 DEF Leaves, Exit, Go, TypeOK
  <2>a. key(a) \in Keys
    BY KeyType
  <2>1. TypeOK'
    <3>1. store' \in [Keys -> 0 .. MaxFresh] /\ resolved' \subseteq Keys \X (0 .. MaxFresh)
      BY <2>0, <2>a DEF TypeOK
    <3>2. inited' \subseteq 1 .. MaxFresh
      <4>1. pc[a] = "init" => val[a] \in 0 .. MaxFresh /\ val[a] # 0
        BY Zenon DEF TypeOK, AgentOK, None
      <4>2. pc[a] = "init" => val[a] \in 1 .. MaxFresh
        BY <4>1, NatAssumption
      <4> QED
        BY <1>8, <4>2, Zenon DEF Leaves, TypeOK
    <3>3. (\A b \in Agents : 1 \in DOMAIN Plan[b]) /\ 0 \in 0 .. MaxFresh /\ 0 \in 0 .. Timeout /\ 0 \in 0 .. SyncTimeout
      BY PlanAssumption, NatAssumption
    <3> QED
      BY <1>8, <3>1, <3>2, <3>3 DEF TypeOK, Leaves, Exit, Go, None
  <2>2. StoreOK'
    BY <2>0, <2>a DEF StoreOK, AgentOK, TypeOK
  <2>3. ASSUME NEW b \in Agents PROVE AgentOK(b)'
    <3>1. CASE b = a
      BY <2>0, <3>1, Zenon DEF AgentOK
    <3>2. CASE b # a
      <4>1. key(b)' = key(b) /\ key(b) \in Keys
        BY <2>0, <3>2, KeyType DEF key
      <4>2. store[key(b)] # None => store'[key(b)] # None
        <5>1. pc[a] = "put" => val[a] # None
          BY Zenon DEF AgentOK
        <5>2. store'[key(b)] = store[key(b)] \/ (pc[a] = "put" /\ store'[key(b)] = val[a])
          BY <2>0, <2>a, <4>1 DEF TypeOK
        <5> QED
          BY <5>1, <5>2, Zenon
      <4> QED
        BY <2>0, <3>2, <4>1, <4>2 DEF AgentOK
    <3> QED
      BY <3>1, <3>2
  <2>4. ASSUME NEW b \in Agents, NEW c \in Agents PROVE PairOK(b, c)'
    BY <2>0, <2>4 DEF PairOK, Initialising, key
  <2>6. ASSUME NEW b \in Agents PROVE AgeOK(b)'
    BY <2>0, <2>6 DEF AgeOK, Initialising, key
  <2>5. ResolvedOK'
    <3>1. CASE store' = store
      BY <2>0, <3>1 DEF ResolvedOK, ResolvedIsStored, NoNewValueOnceResolved, ResolvedTreeIsInitialised, Initialising, key
    <3>2. CASE pc[a] = "put" /\ store' = [store EXCEPT ![key(a)] = val[a]]
      <4>1. \A p \in resolved : p[1] # key(a) \/ p[1] \in slow
        BY <3>2, Zenon DEF ResolvedOK, NoNewValueOnceResolved, Initialising
      <4>2. \A k \in Keys : k # key(a) => store'[k] = store[k]
        BY <3>2 DEF TypeOK
      <4>3. \A p \in resolved : p[1] \in Keys
        BY DEF TypeOK
      <4>4. ResolvedIsStored'
        BY <2>0, <4>1, <4>2, <4>3, Zenon DEF ResolvedOK, ResolvedIsStored
      <4>5. \A b \in Agents : Initialising(b)' => Initialising(b) /\ key(b)' = key(b)
        BY <2>0, Zenon DEF Initialising, key
      <4>6. NoNewValueOnceResolved'
        <5>1. resolved' = resolved
          BY <2>0, Zenon
        <5> QED
          BY <2>0, <4>5, <5>1, Zenon DEF ResolvedOK, NoNewValueOnceResolved
      <4>7. ResolvedTreeIsInitialised'
        BY <2>0, Zenon DEF ResolvedOK, ResolvedTreeIsInitialised
      <4> QED
        BY <2>0, <4>4, <4>6, <4>7, Zenon DEF ResolvedOK
    <3> QED
      BY <2>0, <3>1, <3>2
  <2> QED
    BY <2>1, <2>2, <2>3, <2>4, <2>5, <2>6, Zenon
<1>9. ASSUME NEW a \in Agents, Fails(a) PROVE Leaves(a) \/ IInv'
  <2>1. ASSUME UNCHANGED <<store, inited, resolved, slow, pc, at, src, val, age>>,
               pc[a] # "sleep", tries[a] < Timeout,
               tries' = [tries EXCEPT ![a] = @ + 1], timer' = [timer EXCEPT ![a] = 1],
               fresh' \in 0 .. MaxFresh, faults' \in 0 .. MaxFaults
        PROVE  IInv'
    <3>1. tries' \in [Agents -> 0 .. Timeout] /\ timer' \in [Agents -> Nat]
      BY <2>1, NatAssumption DEF TypeOK
    <3>2. TypeOK' /\ StoreOK' /\ ResolvedOK' /\ \A b \in Agents : AgentOK(b)' /\ AgeOK(b)'
      BY <2>1, <3>1, Zenon DEF TypeOK, StoreOK, AgentOK, AgeOK, ResolvedOK, ResolvedIsStored,
         NoNewValueOnceResolved, ResolvedTreeIsInitialised, Initialising, key
    <3>3. ASSUME NEW b \in Agents, pc[b] = "sleep" PROVE timer'[b] = timer[b]
      BY <2>1, <3>3 DEF TypeOK
    <3>4. ASSUME NEW b \in Agents, NEW c \in Agents PROVE PairOK(b, c)'
      BY <2>1, <3>3, <3>4, Zenon DEF PairOK, Initialising, key
    <3> QED
      BY <3>2, <3>4, Zenon
  <2>2. Fault => faults' \in 0 .. MaxFaults
    BY NatAssumption DEF Fault, TypeOK
  <2>3. fresh' \in {fresh, fresh + 1} /\ fresh' <= MaxFresh => fresh' \in 0 .. MaxFresh
    BY NatAssumption DEF TypeOK
  <2>4. fresh \in 0 .. MaxFresh
    BY DEF TypeOK
  <2>6. CASE ConnectFails(a)
    BY <2>1, <2>2, <2>4, <2>6, Zenon DEF ConnectFails, Retry, Leaves
  <2>7. CASE GetFails(a)
    BY <2>2, <2>4, <2>7, Zenon DEF GetFails, Leaves
  <2>8. CASE CreateFails(a)
    BY <2>1, <2>2, <2>3, <2>8, Zenon DEF CreateFails, Retry, Leaves
  <2>9. CASE InitLogFails(a)
    BY <2>2, <2>4, <2>9, Zenon DEF InitLogFails, Leaves
  <2>10. CASE PutFails(a)
    BY <2>2, <2>4, <2>10, Zenon DEF PutFails, Leaves
  <2>11. CASE Crash(a)
    BY <2>2, <2>4, <2>11, Zenon DEF Crash, Leaves
  <2> QED
    BY <1>9, <2>6, <2>7, <2>8, <2>9, <2>10, <2>11, Zenon DEF Fails
<1>10. CASE Tick
  <2>1. TypeOK'
    <3>1. \A a \in Agents : age'[a] \in 0 .. SyncTimeout /\ timer'[a] \in Nat
      BY <1>10, NatAssumption DEF Tick, Ages, TypeOK
    <3>2. slow' \subseteq Keys
      <4>1. slow \subseteq Keys
        BY Zenon DEF TypeOK
      <4>2. \A a \in Agents : key(a) \in Keys
        BY KeyType, Zenon
      <4> QED
        BY <1>10, <4>1, <4>2, Zenon DEF Tick
    <3> QED
      BY <1>10, <3>1, <3>2 DEF TypeOK, Tick
  <2>2. StoreOK' /\ \A a \in Agents : AgentOK(a)'
    BY <1>10, Zenon DEF StoreOK, AgentOK, key, Tick
  <2>3. ASSUME NEW b \in Agents, NEW c \in Agents PROVE PairOK(b, c)'
    BY <1>10, <2>3, NatAssumption DEF PairOK, Initialising, key, TypeOK, Tick, Ages
  <2>4. ASSUME NEW b \in Agents PROVE AgeOK(b)'
    <3>1. slow \subseteq slow' /\ key(b)' = key(b) /\ (Initialising(b)' <=> Initialising(b))
      BY <1>10, Zenon DEF Tick, key, Initialising
    <3>2. Ages(b) /\ age[b] + 1 = SyncTimeout => key(b) \in slow'
      BY <1>10, <2>4, Zenon DEF Tick
    <3>3. age'[b] = IF Ages(b) THEN age[b] + 1 ELSE age[b]
      BY <1>10, <2>4, Zenon DEF Tick
    <3>4. age[b] \in 0 .. SyncTimeout
      BY <2>4 DEF TypeOK
    <3>5. age[b] + 1 # SyncTimeout /\ age[b] < SyncTimeout => age[b] + 1 < SyncTimeout
      BY <3>4, NatAssumption
    <3> QED
      BY <3>1, <3>2, <3>3, <3>5, Zenon DEF AgeOK, Ages
  <2>5. ResolvedOK'
    <3>1. slow \subseteq slow' /\ UNCHANGED <<store, inited, pc, at, resolved>>
      BY <1>10, Zenon DEF Tick
    <3> QED
      BY <3>1, Zenon DEF ResolvedOK, ResolvedIsStored, NoNewValueOnceResolved, ResolvedTreeIsInitialised,
         Initialising, key
  <2> QED
    BY <2>1, <2>2, <2>3, <2>4, <2>5, Zenon
<1>11. CASE UNCHANGED vars
  BY <1>11, Zenon DEF TypeOK, StoreOK, AgentOK, AgeOK, PairOK, ResolvedOK, ResolvedIsStored,
     NoNewValueOnceResolved, ResolvedTreeIsInitialised, Initialising, key
<1> QED
  BY <1>1, <1>2, <1>3, <1>4, <1>5, <1>6, <1>7, <1>8, <1>9, <1>10, <1>11, Zenon DEF Next, Step, Done

\* The inductive invariant holds in every reachable state.
THEOREM Invariance == Spec => []IInv
<1>1. Init => IInv
  <2> SUFFICES ASSUME Init PROVE IInv
    OBVIOUS
  <2>1. TypeOK
    BY PlanAssumption, NatAssumption DEF Init, TypeOK, None
  <2>2. StoreOK /\ ResolvedOK
    BY DEF Init, StoreOK, ResolvedOK, ResolvedIsStored, NoNewValueOnceResolved, ResolvedTreeIsInitialised
  <2>3. \A a, b \in Agents : AgentOK(a) /\ AgeOK(a) /\ PairOK(a, b)
    BY DEF Init, AgentOK, AgeOK, PairOK, Initialising
  <2> QED
    BY <2>1, <2>2, <2>3, Zenon DEF IInv
<1>2. IInv /\ [Next]_vars => IInv'
  BY Inductive
<1> QED
  BY <1>1, <1>2, PTL DEF Spec

\* All agents, now and after any restart, go on with the value in the store, if
\* no initialisation of the key outlasted the sleep.
THEOREM AgentsAgree == Spec => []ResolvedIsStored
<1>1. IInv => ResolvedIsStored
  BY DEF IInv, ResolvedOK
<1> QED
  BY Invariance, <1>1, PTL

\* No log, key or key store is being created for a key an agent has gone on with,
\* if no initialisation of the key outlasted the sleep.
THEOREM ResolvedIsFinal == Spec => []NoNewValueOnceResolved
<1>1. IInv => NoNewValueOnceResolved
  BY DEF IInv, ResolvedOK
<1> QED
  BY Invariance, <1>1, PTL

\* A log that is served has been initialised, however long anything took.
THEOREM ServedLogsAreInitialised == Spec => []ResolvedTreeIsInitialised
<1>1. IInv => ResolvedTreeIsInitialised
  BY DEF IInv, ResolvedOK
<1> QED
  BY Invariance, <1>1, PTL

-----------------------------------------------------------------------------
(* Log servers and log signers: what ServerRun keeps for any number of them, *)
(* any schema script and any faults.                                        *)

Pcs == {"off", "import", "provider", "registry", "listen", "check", "serve", "close",
        "unannounce", "exit"}

ServerTypeOK ==
  /\ serverPc \in [Procs -> Pcs]
  /\ work \in [Procs -> SUBSET Objects] /\ statement \in [Procs -> Nat]
  /\ announced \in [Procs -> {"no", "leased", "unleased"}]
  /\ told \subseteq Procs /\ leases \subseteq Procs \X Nat
  /\ starts \in [Procs -> Nat]

\* An open import transaction has created what the script names before its
\* statement; there is none outside of ImportPostgres.
ImportOK(p) ==
  /\ statement[p] \in 1 .. Len(Script) + 1
  /\ work[p] = {Script[n] : n \in 1 .. statement[p] - 1}

\* The script is one transaction: its objects are committed together.
SchemaIsWhole == schema = {} \/ Objects \subseteq schema

\* An instance is in etcd's debt only after AnnounceSelf, and has paid when it
\* returns, if etcd took it.
EtcdOK(p) ==
  p \in told => /\ serverPc[p] \notin {"import", "provider"}
                /\ serverPc[p] = "exit" /\ p \notin stranded =>
                     announced[p] = "no" /\ Lease(p) \notin leases

ServerIInv ==
  /\ ServerTypeOK
  /\ SchemaIsWhole
  /\ \A p \in Procs : ImportOK(p) /\ EtcdOK(p)
  /\ ImportedIsComplete

-----------------------------------------------------------------------------
\* The initial state: no schema, no instance.
LEMMA ServerInitIInv == ServerInit => ServerIInv
<1> SUFFICES ASSUME ServerInit PROVE ServerIInv
  OBVIOUS
<1>1. ServerTypeOK
  BY DEF ServerInit, ServerTypeOK, Pcs
<1>2. ASSUME NEW p \in Procs PROVE ImportOK(p) /\ EtcdOK(p)
  BY ScriptAssumption DEF ServerInit, ImportOK, EtcdOK
<1>3. QED
  BY <1>1, <1>2, Zenon DEF ServerInit, ServerIInv, SchemaIsWhole, ImportedIsComplete

\* What one instance sees of a step in which only the main goroutine of p moves,
\* between two places that ask the same of the database and of etcd.
Elsewhere == Pcs \ {"off", "import", "provider", "exit"}

Moves(p) ==
  /\ \/ serverPc' = serverPc
     \/ serverPc[p] \in Elsewhere /\ \E to \in Elsewhere : Proceed(p, to)
  /\ UNCHANGED <<db, etcd, starts>>

\* Such a step keeps the invariant.
LEMMA MovesIInv ==
  ASSUME ServerIInv, NEW p \in Procs, Moves(p)
  PROVE  ServerIInv'
<1>1. ServerTypeOK'
  BY Zenon DEF ServerIInv, ServerTypeOK, Moves, Elsewhere, Proceed, db, etcd
<1>2. SchemaIsWhole'
  BY Zenon DEF ServerIInv, SchemaIsWhole, Moves, db
<1>3. ASSUME NEW q \in Procs PROVE ImportOK(q)' /\ EtcdOK(q)'
  <2>1. serverPc'[q] = serverPc[q] \/ (serverPc[q] \in Elsewhere /\ serverPc'[q] \in Elsewhere)
    BY Zenon DEF ServerIInv, ServerTypeOK, Moves, Proceed
  <2>2. QED
    BY <2>1, Zenon DEF ServerIInv, ImportOK, EtcdOK, Lease, Moves, Elsewhere, db, etcd
<1>4. ImportedIsComplete'
  BY Zenon DEF ServerIInv, ServerTypeOK, ImportedIsComplete, Moves, Elsewhere, Proceed, db
<1>5. QED
  BY <1>1, <1>2, <1>3, <1>4, Zenon DEF ServerIInv

\* The steps of the main goroutine in Run, and those of the other goroutines,
\* are such steps.
LEMMA RunMoves ==
  ASSUME NEW p \in Procs,
         \/ Register(p) \/ Listen(p) \/ Serve(p) \/ ServeEnds(p) \/ Close(p)
         \/ RegistryFails(p) \/ RegisterFails(p) \/ ListenFails(p) \/ ServeFails(p)
         \/ HTTPFails(p) \/ HTTPEnds(p) \/ Signal(p) \/ AwaitSignalCancel(p)
         \/ AwaitSignalStop(p)
  PROVE  Moves(p)
<1>1. CASE Register(p)
  BY <1>1, Zenon DEF Register, Moves, Elsewhere, Pcs
<1>2. CASE Listen(p) \/ ListenFails(p)
  BY <1>2, Zenon DEF Listen, ListenFails, Moves, Elsewhere, Pcs
<1>3. CASE Serve(p)
  BY <1>3, Zenon DEF Serve, Moves, Elsewhere, Pcs
<1>4. CASE ServeEnds(p) \/ ServeFails(p) \/ Close(p) \/ RegistryFails(p) \/ RegisterFails(p)
  BY <1>4, Zenon DEF ServeEnds, ServeFails, Close, RegistryFails, RegisterFails, Moves, Elsewhere, Pcs
<1>5. CASE HTTPFails(p) \/ HTTPEnds(p) \/ Signal(p) \/ AwaitSignalCancel(p) \/ AwaitSignalStop(p)
  <2>1. serverPc' = serverPc /\ UNCHANGED <<db, etcd, starts>>
    BY <1>5, Zenon DEF HTTPFails, HTTPEnds, Signal, AwaitSignalCancel, AwaitSignalStop
  <2>2. QED
    BY <2>1, Zenon DEF Moves
<1>6. QED
  BY <1>1, <1>2, <1>3, <1>4, <1>5, Zenon

\* A rollback leaves p without a transaction and the others as they were.
LEMMA RollbackImport ==
  ASSUME ServerIInv, NEW p \in Procs, Rollback(p)
  PROVE  /\ work' \in [Procs -> SUBSET Objects] /\ statement' \in [Procs -> Nat]
         /\ \A q \in Procs : ImportOK(q)'
<1>1. work' \in [Procs -> SUBSET Objects] /\ statement' \in [Procs -> Nat]
  BY DEF ServerIInv, ServerTypeOK, Rollback
<1>2. ASSUME NEW q \in Procs PROVE ImportOK(q)'
  <2>1. CASE q = p
    BY <2>1, ScriptAssumption DEF ServerIInv, ServerTypeOK, Rollback, ImportOK
  <2>2. CASE q # p
    <3>1. work'[q] = work[q] /\ statement'[q] = statement[q]
      BY <2>2, Zenon DEF ServerIInv, ServerTypeOK, Rollback
    <3>2. QED
      BY <3>1, Zenon DEF ServerIInv, ImportOK
  <2>3. QED
    BY <2>1, <2>2, Zenon
<1>3. QED
  BY <1>1, <1>2, Zenon

\* A statement of the script that creates its object.
LEMMA CreateIInv ==
  ASSUME ServerIInv, NEW p \in Procs, CreateObject(p)
  PROVE  ServerIInv'
<1>1. statement[p] \in 1 .. Len(Script) /\ Object(p) \in Objects
  BY ScriptAssumption DEF ServerIInv, ImportOK, CreateObject, Object, Objects
<1>2. ServerTypeOK'
  BY <1>1 DEF ServerIInv, ServerTypeOK, CreateObject, etcd
<1>3. ASSUME NEW q \in Procs PROVE ImportOK(q)'
  <2>1. CASE q = p
    <3>1. statement'[p] = statement[p] + 1 /\ work'[p] = work[p] \cup {Script[statement[p]]}
      BY DEF ServerIInv, ServerTypeOK, CreateObject, Object
    <3>2. 1 .. statement'[p] - 1 = (1 .. statement[p] - 1) \cup {statement[p]}
      BY <1>1, <3>1
    <3>3. work'[p] = {Script[n] : n \in 1 .. statement'[p] - 1}
      BY <3>1, <3>2, Zenon DEF ServerIInv, ImportOK
    <3>4. statement'[p] \in 1 .. Len(Script) + 1
      BY <1>1, <3>1, ScriptAssumption DEF ServerIInv
    <3>5. QED
      BY <2>1, <3>3, <3>4, Zenon DEF ImportOK
  <2>2. CASE q # p
    <3>1. work'[q] = work[q] /\ statement'[q] = statement[q]
      BY <2>2, Zenon DEF ServerIInv, ServerTypeOK, CreateObject
    <3>2. QED
      BY <3>1, Zenon DEF ServerIInv, ImportOK
  <2>3. QED
    BY <2>1, <2>2, Zenon
<1>4. SchemaIsWhole' /\ ImportedIsComplete' /\ \A q \in Procs : EtcdOK(q)'
  BY Zenon DEF ServerIInv, SchemaIsWhole, ImportedIsComplete, EtcdOK, Lease, CreateObject, etcd
<1>5. QED
  BY <1>2, <1>3, <1>4, Zenon DEF ServerIInv

\* Whoever leaves ImportPostgres without an error, with the script committed or
\* because another instance's was, finds the whole schema.
LEMMA LeaveImportIInv ==
  ASSUME ServerIInv, NEW p \in Procs, AlreadyExists(p) \/ Imported(p)
  PROVE  ServerIInv'
<1>1. Rollback(p) /\ Proceed(p, "provider") /\ serverPc[p] = "import" /\ UNCHANGED <<etcd, starts>>
  BY Zenon DEF AlreadyExists, Imported
<1>2. ServerTypeOK'
  BY <1>1, RollbackImport, Zenon DEF ServerIInv, ServerTypeOK, Proceed, Pcs, etcd
<1>3. Objects \subseteq schema'
  <2>1. CASE AlreadyExists(p)
    BY <2>1, Zenon DEF AlreadyExists, ServerIInv, SchemaIsWhole
  <2>2. CASE Imported(p)
    <3>1. DOMAIN Script \subseteq 1 .. statement[p] - 1
      BY <2>2, ScriptAssumption DEF Imported, ServerIInv, ServerTypeOK
    <3>2. Objects \subseteq work[p]
      BY <3>1, Zenon DEF ServerIInv, ImportOK, Objects
    <3>3. QED
      BY <2>2, <3>2, Zenon DEF Imported
  <2>3. QED
    BY <2>1, <2>2, Zenon
<1>4. \A q \in Procs : EtcdOK(q)'
  BY <1>1, Zenon DEF ServerIInv, ServerTypeOK, EtcdOK, Lease, Proceed, etcd
<1>5. QED
  BY <1>1, <1>2, <1>3, <1>4, RollbackImport, Zenon DEF ServerIInv, SchemaIsWhole, ImportedIsComplete

\* An import that fails, a crash: the transaction is gone, and the instance with it.
LEMMA LeaveProcessIInv ==
  ASSUME ServerIInv, NEW p \in Procs, ImportFails(p) \/ ServerCrash(p)
  PROVE  ServerIInv'
<1>1. /\ Rollback(p) /\ UNCHANGED <<schema, etcd, starts>>
      /\ Proceed(p, "off") \/ (serverPc[p] = "import" /\ Proceed(p, "exit"))
  BY Zenon DEF ImportFails, ServerCrash
<1>2. ServerTypeOK'
  BY <1>1, RollbackImport, Zenon DEF ServerIInv, ServerTypeOK, Proceed, Pcs, etcd
<1>3. \A q \in Procs : EtcdOK(q)'
  BY <1>1, Zenon DEF ServerIInv, ServerTypeOK, EtcdOK, Lease, Proceed, etcd
<1>4. ImportedIsComplete' /\ SchemaIsWhole'
  BY <1>1, Zenon DEF ServerIInv, ServerTypeOK, SchemaIsWhole, ImportedIsComplete, Proceed
<1>5. QED
  BY <1>1, <1>2, <1>3, <1>4, RollbackImport, Zenon DEF ServerIInv

\* The steps that change what etcd holds or what an instance owes it, and the
\* failure before it owes anything.
EtcdStep(p) ==
  \/ StartServer(p) \/ AnnounceSelf(p) \/ AddEndpointFails(p) \/ ProviderFails(p)
  \/ Unannounce(p) \/ UnannounceFails(p) \/ LeaseExpires(p)

\* What such a step of one instance is to the others.
LEMMA EtcdOthers ==
  ASSUME ServerIInv, NEW p \in Procs, EtcdStep(p), NEW q \in Procs, q # p
  PROVE  EtcdOK(q)'
<1>1. serverPc'[q] = serverPc[q] /\ announced'[q] = announced[q]
  <2>1. serverPc' = serverPc \/ \E to \in Pcs : Proceed(p, to)
    BY Zenon DEF EtcdStep, StartServer, AnnounceSelf, AddEndpointFails, ProviderFails, Unannounce,
       UnannounceFails, LeaseExpires, Pcs
  <2>2. announced' = announced \/ \E v : announced' = [announced EXCEPT ![p] = v]
    BY Zenon DEF EtcdStep, StartServer, AnnounceSelf, AddEndpointFails, ProviderFails, Unannounce,
       UnannounceFails, LeaseExpires, etcd
  <2> QED
    BY <2>1, <2>2, Zenon DEF ServerIInv, ServerTypeOK, Proceed
<1>2. starts'[q] = starts[q]
  <2>1. starts' = starts \/ starts' = [starts EXCEPT ![p] = @ + 1]
    BY Zenon DEF EtcdStep, StartServer, AnnounceSelf, AddEndpointFails, ProviderFails, Unannounce,
       UnannounceFails, LeaseExpires
  <2> QED
    BY <2>1, Zenon DEF ServerIInv, ServerTypeOK
<1>3. /\ q \in told' => q \in told
      /\ q \in stranded => q \in stranded'
  BY Zenon DEF EtcdStep, StartServer, AnnounceSelf, AddEndpointFails, ProviderFails, Unannounce,
     UnannounceFails, LeaseExpires, etcd
<1>4. leases' \subseteq leases \cup {Lease(p)}
  BY Zenon DEF EtcdStep, StartServer, AnnounceSelf, AddEndpointFails, ProviderFails, Unannounce,
     UnannounceFails, LeaseExpires, etcd
<1>5. Lease(q)' = Lease(q) /\ Lease(q) # Lease(p)
  BY <1>2 DEF Lease
<1> QED
  BY <1>1, <1>3, <1>4, <1>5, Zenon DEF ServerIInv, EtcdOK

\* The types of what such a step changes.
LEMMA EtcdTypes ==
  ASSUME ServerIInv, NEW p \in Procs, EtcdStep(p)
  PROVE  ServerTypeOK'
<1>1. UNCHANGED db
  BY Zenon DEF EtcdStep, StartServer, AnnounceSelf, AddEndpointFails, ProviderFails, Unannounce,
     UnannounceFails, LeaseExpires
<1>2. serverPc' \in [Procs -> Pcs]
  <2>1. serverPc' = serverPc \/ \E to \in Pcs : Proceed(p, to)
    BY Zenon DEF EtcdStep, StartServer, AnnounceSelf, AddEndpointFails, ProviderFails, Unannounce,
       UnannounceFails, LeaseExpires, Pcs
  <2> QED
    BY <2>1, Zenon DEF ServerIInv, ServerTypeOK, Proceed
<1>3. announced' \in [Procs -> {"no", "leased", "unleased"}]
  <2>1. announced' = announced \/ \E v \in {"no", "leased", "unleased"} : announced' = [announced EXCEPT ![p] = v]
    <3>1. CASE LeaseExpires(p)
      <4>1. announced[p] \in {"no", "leased", "unleased"}
        BY Zenon DEF ServerIInv, ServerTypeOK
      <4> QED
        BY <3>1, <4>1, Zenon DEF LeaseExpires
    <3>2. CASE ~LeaseExpires(p)
      BY <3>2, Zenon DEF EtcdStep, StartServer, AnnounceSelf, AddEndpointFails, ProviderFails, Unannounce,
         UnannounceFails, etcd
    <3> QED
      BY <3>1, <3>2
  <2> QED
    BY <2>1, Zenon DEF ServerIInv, ServerTypeOK
<1>4. starts' \in [Procs -> Nat]
  <2>1. starts' = starts \/ starts' = [starts EXCEPT ![p] = @ + 1]
    BY Zenon DEF EtcdStep, StartServer, AnnounceSelf, AddEndpointFails, ProviderFails, Unannounce,
       UnannounceFails, LeaseExpires
  <2> QED
    BY <2>1 DEF ServerIInv, ServerTypeOK
<1>5. told' \subseteq Procs /\ leases' \subseteq Procs \X Nat
  <2>1. told' \subseteq told \cup {p} /\ leases' \subseteq leases \cup {Lease(p)}
    BY Zenon DEF EtcdStep, StartServer, AnnounceSelf, AddEndpointFails, ProviderFails, Unannounce,
       UnannounceFails, LeaseExpires, etcd
  <2>2. Lease(p) \in Procs \X Nat
    BY DEF Lease, ServerIInv, ServerTypeOK
  <2> QED
    BY <2>1, <2>2, Zenon DEF ServerIInv, ServerTypeOK
<1> QED
  BY <1>1, <1>2, <1>3, <1>4, <1>5, Zenon DEF ServerIInv, ServerTypeOK, db

\* What such a step leaves of the instance that takes it.
LEMMA EtcdOwn ==
  ASSUME ServerIInv, NEW p \in Procs, EtcdStep(p)
  PROVE  EtcdOK(p)' /\ ImportedIsComplete'
<1>1. schema' = schema
  BY Zenon DEF EtcdStep, StartServer, AnnounceSelf, AddEndpointFails, ProviderFails, Unannounce,
     UnannounceFails, LeaseExpires, db
<1>2. CASE StartServer(p)
  <2>1. p \notin told' /\ Proceed(p, "import")
    BY <1>2, Zenon DEF StartServer
  <2> QED
    BY <1>1, <2>1, Zenon DEF EtcdOK, Proceed, ServerIInv, ServerTypeOK, ImportedIsComplete
<1>3. CASE AnnounceSelf(p) \/ AddEndpointFails(p)
  <2>1. serverPc[p] = "provider" /\ Proceed(p, "registry")
    BY <1>3, Zenon DEF AnnounceSelf, AddEndpointFails
  <2>2. serverPc'[p] = "registry"
    BY <2>1, Zenon DEF Proceed, ServerIInv, ServerTypeOK
  <2>3. ImportedIsComplete'
    BY <1>1, <2>1, Zenon DEF Proceed, ServerIInv, ServerTypeOK, ImportedIsComplete
  <2> QED
    BY <2>2, <2>3, Zenon DEF EtcdOK
<1>4. CASE ProviderFails(p)
  <2>1. serverPc[p] = "provider" /\ Proceed(p, "exit") /\ UNCHANGED etcd
    BY <1>4, Zenon DEF ProviderFails
  <2> QED
    BY <1>1, <2>1, Zenon DEF Proceed, ServerIInv, ServerTypeOK, ImportedIsComplete, EtcdOK, etcd
<1>5. CASE Unannounce(p) \/ UnannounceFails(p)
  <2>1. Proceed(p, "exit") /\ starts' = starts
    BY <1>5, Zenon DEF Unannounce, UnannounceFails
  <2>2. p \in stranded' \/ (announced'[p] = "no" /\ Lease(p) \notin leases')
    BY <1>5, Zenon DEF Unannounce, UnannounceFails, ServerIInv, ServerTypeOK
  <2>3. ImportedIsComplete' /\ serverPc'[p] = "exit"
    BY <1>1, <2>1, Zenon DEF Proceed, ServerIInv, ServerTypeOK, ImportedIsComplete
  <2> QED
    BY <2>1, <2>2, <2>3, Zenon DEF EtcdOK, Lease
<1>6. CASE LeaseExpires(p)
  <2>1. /\ UNCHANGED <<serverPc, told, stranded, starts>> /\ leases' \subseteq leases
        /\ announced[p] = "no" => announced'[p] = "no"
    BY <1>6, Zenon DEF LeaseExpires, ServerIInv, ServerTypeOK
  <2> QED
    BY <1>1, <2>1, Zenon DEF ServerIInv, ImportedIsComplete, EtcdOK, Lease
<1> QED
  BY <1>2, <1>3, <1>4, <1>5, <1>6, Zenon DEF EtcdStep

\* Such a step keeps the invariant.
LEMMA EtcdIInv ==
  ASSUME ServerIInv, NEW p \in Procs, EtcdStep(p)
  PROVE  ServerIInv'
<1>1. UNCHANGED db
  BY Zenon DEF EtcdStep, StartServer, AnnounceSelf, AddEndpointFails, ProviderFails, Unannounce,
     UnannounceFails, LeaseExpires
<1>2. SchemaIsWhole' /\ \A q \in Procs : ImportOK(q)'
  BY <1>1, Zenon DEF ServerIInv, SchemaIsWhole, ImportOK, db
<1> QED
  BY <1>2, EtcdOthers, EtcdTypes, EtcdOwn, Zenon DEF ServerIInv

\* Every step keeps the invariant.
LEMMA ServerNextIInv == ServerIInv /\ [ServerNext]_serverVars => ServerIInv'
<1> SUFFICES ASSUME ServerIInv, [ServerNext]_serverVars PROVE ServerIInv'
  OBVIOUS
<1>1. CASE UNCHANGED serverVars
  BY <1>1, Zenon DEF serverVars, db, etcd, ServerIInv, ServerTypeOK, SchemaIsWhole, ImportOK, EtcdOK, Lease, ImportedIsComplete
<1>2. ASSUME NEW p \in Procs,
             \/ StartServer(p) \/ Main(p) \/ ServerFails(p) \/ HTTPEnds(p)
             \/ Signal(p) \/ AwaitSignalCancel(p) \/ AwaitSignalStop(p) \/ LeaseExpires(p)
      PROVE  ServerIInv'
  <2>1. CASE CreateObject(p)
    BY <2>1, CreateIInv, Zenon
  <2>2. CASE AlreadyExists(p) \/ Imported(p)
    BY <2>2, LeaveImportIInv, Zenon
  <2>3. CASE ImportFails(p) \/ ServerCrash(p)
    BY <2>3, LeaveProcessIInv, Zenon
  <2>4. CASE EtcdStep(p)
    BY <2>4, EtcdIInv, Zenon
  <2>5. QED
    BY <1>2, <2>1, <2>2, <2>3, <2>4, RunMoves, MovesIInv, Zenon DEF Main, Import, ServerFails, EtcdStep
<1>3. CASE ServersDone
  BY <1>1, <1>3, Zenon DEF ServersDone
<1>4. QED
  BY <1>1, <1>2, <1>3, Zenon DEF ServerNext

\* The invariant holds in every reachable state.
THEOREM ServerInvariance == ServerSpec => []ServerIInv
<1>1. QED
  BY ServerInitIInv, ServerNextIInv, PTL DEF ServerSpec

\* An instance that goes on from ImportPostgres finds the whole schema, also when
\* it took the error of a lost race for benign.
THEOREM SchemaIsComplete == ServerSpec => []ImportedIsComplete
<1>1. ServerIInv => ImportedIsComplete
  BY Zenon DEF ServerIInv
<1>2. QED
  BY <1>1, ServerInvariance, PTL

\* An instance that announced itself and returned from Start has left neither
\* its endpoint nor its lease in etcd, unless a call of the withdrawal failed.
THEOREM ReturnLeavesNothing == ServerSpec => []ReturnedIsNotAnnounced
<1>1. ServerIInv => ReturnedIsNotAnnounced
  BY Zenon DEF ServerIInv, ServerTypeOK, EtcdOK, ReturnedIsNotAnnounced
<1>2. QED
  BY <1>1, ServerInvariance, PTL
=============================================================================
