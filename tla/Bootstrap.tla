-------------------------------- MODULE Bootstrap --------------------------------
(***************************************************************************)
(* How instances of the vct agent that share a config store agree on what   *)
(* they start from: cmd/vct/startcmd/start.go.  startAgent connects to the  *)
(* store, resolves each config key in turn (the web key store, the signing  *)
(* key, one log tree per alias) with getOrInit, and serves.                 *)
(*                                                                         *)
(* Time is counted in seconds.  A tick ages every initialisation under way  *)
(* and every sleep.  Nothing bounds an initialisation, from the Get that    *)
(* found nothing to the Put: CreateTree is retried with pauses, and no call *)
(* has a deadline.  Trillian, the KMS and the store may fail a request      *)
(* after having carried it out.                                             *)
(***************************************************************************)
EXTENDS Naturals, Sequences

CONSTANTS
  Agents,       \* instances of vct
  Plan,         \* agent -> the config keys it resolves, in order; the logs come in
                \* the order of a map and are not in the same order everywhere
  TreeKeys,     \* those of them that hold a log tree
  SyncTimeout,  \* --sync-timeout
  Timeout,      \* --timeout: how often connecting and CreateTree are retried
  MaxFresh,     \* bound: trees and keys created
  MaxFaults     \* bound: failed requests, crashes

ASSUME PlanAssumption == \A a \in Agents : Plan[a] \in Seq(STRING) /\ Plan[a] # <<>>
ASSUME NatAssumption ==
  SyncTimeout \in Nat /\ Timeout \in Nat /\ MaxFresh \in Nat /\ MaxFaults \in Nat

Keys == UNION {{Plan[a][n] : n \in DOMAIN Plan[a]} : a \in Agents}

\* ErrDataNotFound; created trees and keys are numbered from 1.
None == 0

VARIABLES
  store,        \* the config store: key -> value
  inited,       \* trees InitLog has initialised
  fresh,        \* how many trees and keys have been created
  pc,           \* "off", "connect", "get", "sleep", "create", "init", "put", "serve"
  at,           \* position in Plan
  src, val,     \* getOrInit's first read, and the value it creates
  tries,        \* retries of the request at hand
  timer, age,   \* seconds left to sleep; seconds since the Get that found nothing,
                \* where SyncTimeout stands for any longer time
  resolved,     \* history: <<key, value>> pairs an agent went on with
  slow,         \* history: keys of which an initialisation took SyncTimeout or longer
  faults

agent == <<pc, at, src, val, tries, timer, age>>
vars == <<store, inited, fresh, agent, resolved, slow, faults>>

Init ==
  /\ store = [k \in Keys |-> None] /\ inited = {} /\ fresh = 0
  /\ pc = [a \in Agents |-> "off"] /\ at = [a \in Agents |-> 1]
  /\ src = [a \in Agents |-> None] /\ val = [a \in Agents |-> None]
  /\ tries = [a \in Agents |-> 0]
  /\ timer = [a \in Agents |-> 0] /\ age = [a \in Agents |-> 0]
  /\ resolved = {} /\ slow = {} /\ faults = 0

key(a) == Plan[a][at[a]]
Initialising(a) == pc[a] \in {"create", "init", "put"}

Go(a, to) == pc' = [pc EXCEPT ![a] = to]

\* What it held is gone with the process.
Exit(a) ==
  /\ Go(a, "off")
  /\ at' = [at EXCEPT ![a] = 1]
  /\ src' = [src EXCEPT ![a] = None] /\ val' = [val EXCEPT ![a] = None]
  /\ tries' = [tries EXCEPT ![a] = 0]
  /\ timer' = [timer EXCEPT ![a] = 0] /\ age' = [age EXCEPT ![a] = 0]

Fault == faults < MaxFaults /\ faults' = faults + 1

-----------------------------------------------------------------------------
Start(a) ==
  /\ pc[a] = "off" /\ Go(a, "connect")
  /\ UNCHANGED <<store, inited, fresh, at, src, val, tries, timer, age, resolved, slow, faults>>

\* createStoreProvider and the other steps before the first key.
Connect(a) ==
  /\ pc[a] = "connect" /\ timer[a] = 0 /\ Go(a, "get")
  /\ tries' = [tries EXCEPT ![a] = 0]
  /\ UNCHANGED <<store, inited, fresh, at, src, val, timer, age, resolved, slow, faults>>

\* RetryNotify: try again after a second, or give up after Timeout retries.
Retry(a) ==
  \/ /\ tries[a] < Timeout
     /\ tries' = [tries EXCEPT ![a] = @ + 1]
     /\ timer' = [timer EXCEPT ![a] = 1]
     /\ UNCHANGED <<pc, at, src, val, age>>
  \/ tries[a] >= Timeout /\ Exit(a)

ConnectFails(a) ==
  /\ pc[a] = "connect" /\ timer[a] = 0 /\ Fault /\ Retry(a)
  /\ UNCHANGED <<store, inited, fresh, resolved, slow>>

-----------------------------------------------------------------------------
(* getOrInit *)

Get(a) ==
  /\ pc[a] = "get"
  /\ IF store[key(a)] = None
     THEN /\ Go(a, "create") /\ age' = [age EXCEPT ![a] = 0]
          /\ slow' = IF SyncTimeout = 0 THEN slow \cup {key(a)} ELSE slow
          /\ UNCHANGED <<src, timer>>
     ELSE /\ Go(a, "sleep")
          /\ src' = [src EXCEPT ![a] = store[key(a)]]
          /\ timer' = [timer EXCEPT ![a] = SyncTimeout]
          /\ UNCHANGED <<age, slow>>
  /\ UNCHANGED <<store, inited, fresh, at, val, tries, resolved, faults>>

InitAnyway(a) ==
  /\ pc[a] \in {"get", "sleep"} /\ Fault
  /\ Go(a, "create") /\ age' = [age EXCEPT ![a] = 0] /\ timer' = [timer EXCEPT ![a] = 0]
  /\ UNCHANGED <<store, inited, fresh, at, src, val, tries, resolved, slow>>

\* An error other than ErrDataNotFound is returned, and startAgent with it.
GetFails(a) ==
  /\ pc[a] \in {"get", "sleep"} /\ Fault /\ Exit(a)
  /\ UNCHANGED <<store, inited, fresh, resolved, slow>>

WakeUnchecked(a) ==
  /\ pc[a] = "sleep" /\ timer[a] = 0
  /\ resolved' = resolved \cup {<<key(a), src[a]>>}
  /\ IF at[a] = Len(Plan[a]) THEN Go(a, "serve") /\ UNCHANGED at
     ELSE Go(a, "get") /\ at' = [at EXCEPT ![a] = @ + 1]
  /\ src' = [src EXCEPT ![a] = None]
  /\ UNCHANGED <<store, inited, fresh, val, tries, timer, age, slow, faults>>

WakeAndCompareFirst(a) ==
  /\ pc[a] = "sleep" /\ timer[a] = 0
  /\ IF store[key(a)] # src[a]
     THEN /\ resolved' = resolved \cup {<<key(a), src[a]>>}
          /\ IF at[a] = Len(Plan[a]) THEN Go(a, "serve") /\ UNCHANGED at
             ELSE Go(a, "get") /\ at' = [at EXCEPT ![a] = @ + 1]
     ELSE Go(a, "get") /\ UNCHANGED <<at, resolved>>
  /\ src' = [src EXCEPT ![a] = None]
  /\ UNCHANGED <<store, inited, fresh, val, tries, timer, age, slow, faults>>

\* The sleep is over: the value is taken when it is still the same, otherwise
\* (changed, or not found) everything starts again.
Wake(a) ==
  /\ pc[a] = "sleep" /\ timer[a] = 0
  /\ IF store[key(a)] = src[a]
     THEN /\ resolved' = resolved \cup {<<key(a), src[a]>>}
          /\ IF at[a] = Len(Plan[a]) THEN Go(a, "serve") /\ UNCHANGED at
             ELSE Go(a, "get") /\ at' = [at EXCEPT ![a] = @ + 1]
     ELSE Go(a, "get") /\ UNCHANGED <<at, resolved>>
  /\ src' = [src EXCEPT ![a] = None]
  /\ UNCHANGED <<store, inited, fresh, val, tries, timer, age, slow, faults>>

\* initFn: CreateTree, CreateKeyStore or km.Create.
Create(a) ==
  /\ pc[a] = "create" /\ timer[a] = 0 /\ fresh < MaxFresh
  /\ fresh' = fresh + 1
  /\ val' = [val EXCEPT ![a] = fresh + 1]
  /\ tries' = [tries EXCEPT ![a] = 0]
  /\ Go(a, IF key(a) \in TreeKeys THEN "init" ELSE "put")
  /\ UNCHANGED <<store, inited, at, src, timer, age, resolved, slow, faults>>

\* The request fails, carried out or not; only CreateTree is retried.
CreateFails(a) ==
  /\ pc[a] = "create" /\ timer[a] = 0 /\ Fault
  /\ fresh' \in {fresh, fresh + 1} /\ fresh' <= MaxFresh
  /\ IF key(a) \in TreeKeys THEN Retry(a) ELSE Exit(a)
  /\ UNCHANGED <<store, inited, resolved, slow>>

InitLog(a) ==
  /\ pc[a] = "init"
  /\ inited' = inited \cup {val[a]}
  /\ Go(a, "put")
  /\ UNCHANGED <<store, fresh, at, src, val, tries, timer, age, resolved, slow, faults>>

InitLogErrorDropped(a) ==
  /\ pc[a] = "init" /\ Fault
  /\ inited' \in {inited, inited \cup {val[a]}}
  /\ Go(a, "put")
  /\ UNCHANGED <<store, fresh, at, src, val, tries, timer, age, resolved, slow>>

InitLogFails(a) ==
  /\ pc[a] = "init" /\ Fault
  /\ inited' \in {inited, inited \cup {val[a]}}
  /\ Exit(a)
  /\ UNCHANGED <<store, fresh, resolved, slow>>

Put(a) ==
  /\ pc[a] = "put"
  /\ store' = [store EXCEPT ![key(a)] = val[a]]
  /\ val' = [val EXCEPT ![a] = None] /\ age' = [age EXCEPT ![a] = 0]
  /\ Go(a, "get")
  /\ UNCHANGED <<inited, fresh, at, src, tries, timer, resolved, slow, faults>>

PutFails(a) ==
  /\ pc[a] = "put" /\ Fault
  /\ store' \in {store, [store EXCEPT ![key(a)] = val[a]]}
  /\ Exit(a)
  /\ UNCHANGED <<inited, fresh, resolved, slow>>

-----------------------------------------------------------------------------
Crash(a) ==
  /\ pc[a] # "off" /\ Fault /\ Exit(a)
  /\ UNCHANGED <<store, inited, fresh, resolved, slow>>

\* A second passes.
Ages(a) == Initialising(a) /\ age[a] < SyncTimeout

Tick ==
  /\ \E a \in Agents : Ages(a) \/ timer[a] > 0
  /\ age' = [a \in Agents |-> IF Ages(a) THEN age[a] + 1 ELSE age[a]]
  /\ timer' = [a \in Agents |-> IF timer[a] > 0 THEN timer[a] - 1 ELSE 0]
  /\ slow' = slow \cup {key(a) : a \in {b \in Agents : Ages(b) /\ age[b] + 1 = SyncTimeout}}
  /\ UNCHANGED <<store, inited, fresh, pc, at, src, val, tries, resolved, faults>>

\* What an agent does by itself.
Step(a) ==
  \/ Connect(a) \/ Get(a) \/ Wake(a) \/ Create(a) \/ InitLog(a) \/ Put(a)

Fails(a) ==
  \/ ConnectFails(a) \/ GetFails(a) \/ CreateFails(a) \/ InitLogFails(a) \/ PutFails(a)
  \/ Crash(a)

Done == (\A a \in Agents : pc[a] = "serve") /\ UNCHANGED vars

Next == (\E a \in Agents : Start(a) \/ Step(a) \/ Fails(a)) \/ Tick \/ Done

\* A process that was started runs, and time passes.
Fairness ==
  /\ \A a \in Agents : WF_vars(Step(a))
  /\ WF_vars(Tick)

Spec == Init /\ [][Next]_vars /\ Fairness

-----------------------------------------------------------------------------
(* Properties *)

TypeOK ==
  /\ store \in [Keys -> 0 .. MaxFresh] /\ inited \subseteq 1 .. MaxFresh
  /\ fresh \in 0 .. MaxFresh
  /\ pc \in [Agents -> {"off", "connect", "get", "sleep", "create", "init", "put", "serve"}]
  /\ at \in [Agents -> Nat] /\ \A a \in Agents : at[a] \in DOMAIN Plan[a]
  /\ src \in [Agents -> 0 .. MaxFresh] /\ val \in [Agents -> 0 .. MaxFresh]
  /\ tries \in [Agents -> 0 .. Timeout]
  /\ timer \in [Agents -> Nat] /\ age \in [Agents -> 0 .. SyncTimeout]
  /\ resolved \subseteq Keys \X (0 .. MaxFresh) /\ slow \subseteq Keys
  /\ faults \in 0 .. MaxFaults

\* Every value an agent ever went on with is the one in the store, now and for
\* every later start: instances that start together, crash and restart serve
\* the same log and key, for every key of which no initialisation took as long
\* as getOrInit sleeps.
ResolvedIsStored == \A p \in resolved : p[1] \notin slow => store[p[1]] = p[2]

\* Once an agent has gone on with a value, nobody is creating another for the
\* key, unless an initialisation of it outlasted getOrInit's sleep.
NoNewValueOnceResolved ==
  \A p \in resolved, a \in Agents : Initialising(a) /\ key(a) = p[1] => p[1] \in slow

\* What the README says of the log id of an alias, whatever the calls take:
\* "That correlation will be stored in the DB. So, next time when vct service
\* will be up and running we will not create a new log id." (README.md:133)
SameLogIdEveryTime ==
  \A p, q \in resolved : p[1] = q[1] /\ p[1] \in TreeKeys => p[2] = q[2]

\* A log an agent serves has been initialised, whichever request failed.
ResolvedTreeIsInitialised == \A p \in resolved : p[1] \in TreeKeys => p[2] \in inited

\* Starting comes to an end: getOrInit's recursion does not go on for ever.
StartEnds == \A a \in Agents : pc[a] = "connect" ~> pc[a] \in {"serve", "off"}
=============================================================================
