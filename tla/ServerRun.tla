------------------------------- MODULE ServerRun --------------------------------
(***************************************************************************)
(* The life of log servers and log signers from Start to the return of      *)
(* Run: cmd/log_server, cmd/log_signer and cmd/internal/serverutil.         *)
(*                                                                         *)
(* Instances share a PostgreSQL database whose schema each of them imports, *)
(* and etcd, where they announce themselves under a lease.  Within an       *)
(* instance the main goroutine, the HTTP goroutine and the goroutines that  *)
(* wait for a signal interleave.                                            *)
(***************************************************************************)
EXTENDS Naturals, Sequences

CONSTANTS
  Procs,
  Signers,      \* those of Procs that are log signers
  Script,       \* the objects storage.sql creates, in order
  HTTP,         \* BOOLEAN: an HTTP endpoint is configured
  MaxStarts,    \* bound: how often each instance is started
  MaxServerFaults \* bound: failed requests and crashes

Objects == {Script[n] : n \in DOMAIN Script}
ASSUME ScriptAssumption == Script \in Seq(Objects)

VARIABLES
  schema,       \* committed objects of the schema
  work,         \* instance -> objects its open import transaction created
  statement,    \* instance -> the statement of Script it is at
  serverPc,     \* instance -> where the main goroutine is
  err,          \* instance -> the variable err of Run: "nil", "own" or "http"
  http,         \* instance -> HTTP goroutine: "off", "up", "failed" or "ended"
  signalled,    \* instances that have been sent SIGINT or SIGTERM
  waiting,      \* instances whose goroutine in Run waits for the signal
  cancelled,    \* instances whose context is cancelled
  stopped,      \* instances on whose gRPC server Stop was called
  announced,    \* etcd: instance -> "no", or its endpoint is there "leased" or "unleased"
  leases,       \* etcd: <<instance, which start of it>> of the leases that are alive
  told,         \* history: instances that announced themselves since their start
  stranded,     \* history: instances of which a call of the withdrawal failed
  starts, serverFaults

db == <<schema, work, statement>>
etcd == <<announced, leases, told, stranded>>
goroutines == <<err, http, signalled, waiting, cancelled, stopped>>
serverVars == <<db, serverPc, goroutines, etcd, starts, serverFaults>>

ServerInit ==
  /\ schema = {} /\ work = [p \in Procs |-> {}] /\ statement = [p \in Procs |-> 1]
  /\ serverPc = [p \in Procs |-> "off"] /\ err = [p \in Procs |-> "nil"]
  /\ http = [p \in Procs |-> "off"]
  /\ signalled = {} /\ waiting = {} /\ cancelled = {} /\ stopped = {}
  /\ announced = [p \in Procs |-> "no"] /\ leases = {} /\ told = {} /\ stranded = {}
  /\ starts = [p \in Procs |-> 0] /\ serverFaults = 0

Proceed(p, to) == serverPc' = [serverPc EXCEPT ![p] = to]
ServerFault == serverFaults < MaxServerFaults /\ serverFaults' = serverFaults + 1

StartServer(p) ==
  /\ serverPc[p] \in {"off", "exit"} /\ starts[p] < MaxStarts
  /\ starts' = [starts EXCEPT ![p] = @ + 1]
  /\ Proceed(p, "import")
  /\ err' = [err EXCEPT ![p] = "nil"] /\ http' = [http EXCEPT ![p] = "off"]
  /\ signalled' = signalled \ {p} /\ waiting' = waiting \ {p}
  /\ cancelled' = cancelled \ {p} /\ stopped' = stopped \ {p}
  /\ told' = told \ {p} /\ stranded' = stranded \ {p}
  /\ UNCHANGED <<db, announced, leases, serverFaults>>

-----------------------------------------------------------------------------
(* ImportPostgres: the script is one Exec, and so one transaction. *)

Object(p) == Script[statement[p]]
Contended(p) == \E q \in Procs \ {p} : Object(p) \in work[q]

Rollback(p) == work' = [work EXCEPT ![p] = {}] /\ statement' = [statement EXCEPT ![p] = 1]

CreateAndCommit(p) ==
  /\ serverPc[p] = "import" /\ statement[p] <= Len(Script) /\ ~Contended(p)
  /\ Object(p) \notin schema
  /\ schema' = schema \cup {Object(p)}
  /\ statement' = [statement EXCEPT ![p] = @ + 1]
  /\ UNCHANGED <<work, serverPc, goroutines, etcd, starts, serverFaults>>

\* A statement waits while another open transaction has created the object.
CreateObject(p) ==
  /\ serverPc[p] = "import" /\ statement[p] <= Len(Script) /\ ~Contended(p)
  /\ Object(p) \notin schema
  /\ work' = [work EXCEPT ![p] = @ \cup {Object(p)}]
  /\ statement' = [statement EXCEPT ![p] = @ + 1]
  /\ UNCHANGED <<schema, serverPc, goroutines, etcd, starts, serverFaults>>

\* "already exists" or a duplicate key: another server won the race.  The first
\* statement, CREATE TYPE, has no IF NOT EXISTS, so that none of the later ones
\* meets an object of another server.
AlreadyExists(p) ==
  /\ serverPc[p] = "import" /\ statement[p] <= Len(Script)
  /\ Object(p) \in schema
  /\ Rollback(p) /\ Proceed(p, "provider")
  /\ UNCHANGED <<schema, goroutines, etcd, starts, serverFaults>>

Imported(p) ==
  /\ serverPc[p] = "import" /\ statement[p] > Len(Script)
  /\ schema' = schema \cup work[p]
  /\ Rollback(p) /\ Proceed(p, "provider")
  /\ UNCHANGED <<goroutines, etcd, starts, serverFaults>>

\* Any other error ends Start.
ImportFails(p) ==
  /\ serverPc[p] = "import" /\ ServerFault
  /\ Rollback(p) /\ Proceed(p, "exit")
  /\ UNCHANGED <<schema, goroutines, etcd, starts>>

-----------------------------------------------------------------------------
(* Start up to Run *)

Lease(p) == <<p, starts[p]>>

\* The storage provider and etcd's client, then AnnounceSelf: a lease is granted
\* and kept alive, and the endpoint is added, without naming the lease.  A signer
\* has only an HTTP endpoint to announce.
AnnounceSelf(p) ==
  /\ serverPc[p] = "provider" /\ Proceed(p, "registry")
  /\ IF p \in Signers /\ ~HTTP THEN UNCHANGED etcd
     ELSE /\ leases' = leases \cup {Lease(p)} /\ told' = told \cup {p}
          /\ announced' = [announced EXCEPT ![p] = "unleased"] /\ UNCHANGED stranded
  /\ UNCHANGED <<db, goroutines, starts, serverFaults>>

\* The error of AddEndpoint is ignored; that of Grant ends the process.
AddEndpointFails(p) ==
  /\ serverPc[p] = "provider" /\ (p \in Signers => HTTP) /\ ServerFault /\ Proceed(p, "registry")
  /\ leases' = leases \cup {Lease(p)} /\ told' = told \cup {p}
  /\ announced' \in {announced, [announced EXCEPT ![p] = "unleased"]}
  /\ UNCHANGED <<db, goroutines, stranded, starts>>

ProviderFails(p) ==
  /\ serverPc[p] = "provider" /\ ServerFault
  /\ Proceed(p, "exit")
  /\ UNCHANGED <<db, goroutines, etcd, starts>>

\* A log server's quota manager: Start returns, and the deferred calls take the
\* endpoint out of etcd.  A signer has made its own before it announces itself.
RegistryFails(p) ==
  /\ serverPc[p] = "registry" /\ p \notin Signers /\ ServerFault
  /\ Proceed(p, "unannounce")
  /\ UNCHANGED <<db, goroutines, etcd, starts>>

-----------------------------------------------------------------------------
(* Run *)

\* RegisterServerFn, which a signer leaves empty, then the HTTP goroutine is started.
Register(p) ==
  /\ serverPc[p] = "registry" /\ Proceed(p, "listen")
  /\ http' = [http EXCEPT ![p] = IF HTTP THEN "up" ELSE "off"]
  /\ UNCHANGED <<db, err, signalled, waiting, cancelled, stopped, etcd, starts, serverFaults>>

RegisterFails(p) ==
  /\ serverPc[p] = "registry" /\ p \notin Signers /\ ServerFault
  /\ Proceed(p, "close")
  /\ UNCHANGED <<db, goroutines, etcd, starts>>

\* lis, err := net.Listen(...) assigns the err that the HTTP goroutine shares.
Listen(p) ==
  /\ serverPc[p] = "listen" /\ Proceed(p, "check")
  /\ err' = [err EXCEPT ![p] = "nil"]
  /\ UNCHANGED <<db, http, signalled, waiting, cancelled, stopped, etcd, starts, serverFaults>>

ListenFails(p) ==
  /\ serverPc[p] = "listen" /\ ServerFault
  /\ Proceed(p, "check")
  /\ err' = [err EXCEPT ![p] = "own"]
  /\ UNCHANGED <<db, http, signalled, waiting, cancelled, stopped, etcd, starts>>

\* Run returns when err is set; otherwise it waits for the signal and serves.
Serve(p) ==
  /\ serverPc[p] = "check"
  /\ IF err[p] # "nil"
     THEN Proceed(p, "close") /\ UNCHANGED waiting
     ELSE Proceed(p, "serve") /\ waiting' = waiting \cup {p}
  /\ UNCHANGED <<db, err, http, signalled, cancelled, stopped, etcd, starts, serverFaults>>

\* Serve returns after Stop, or fails by itself.
ServeEnds(p) ==
  /\ serverPc[p] = "serve" /\ p \in stopped
  /\ Proceed(p, "close")
  /\ UNCHANGED <<db, goroutines, etcd, starts, serverFaults>>

ServeFails(p) ==
  /\ serverPc[p] = "serve" /\ ServerFault /\ Proceed(p, "close")
  /\ UNCHANGED <<db, goroutines, etcd, starts>>

\* The deferred DBClose and GracefulStop; then those of Start.
Close(p) ==
  /\ serverPc[p] = "close" /\ Proceed(p, "unannounce")
  /\ UNCHANGED <<db, goroutines, etcd, starts, serverFaults>>

UnannounceWithContext(p) ==
  /\ serverPc[p] = "unannounce" /\ Proceed(p, "exit")
  /\ IF p \in cancelled THEN UNCHANGED <<announced, leases>>
     ELSE announced' = [announced EXCEPT ![p] = "no"] /\ leases' = leases \ {Lease(p)}
  /\ UNCHANGED <<db, goroutines, told, stranded, starts, serverFaults>>

\* The endpoint is deleted and the lease revoked, with a context of its own,
\* since the one of Start may be cancelled.
Unannounce(p) ==
  /\ serverPc[p] = "unannounce" /\ Proceed(p, "exit")
  /\ announced' = [announced EXCEPT ![p] = "no"] /\ leases' = leases \ {Lease(p)}
  /\ UNCHANGED <<db, goroutines, told, stranded, starts, serverFaults>>

\* The errors of DeleteEndpoint and of Revoke are ignored.  A call that failed
\* may have been carried out, and the other one is made all the same.
UnannounceFails(p) ==
  /\ serverPc[p] = "unannounce" /\ ServerFault /\ Proceed(p, "exit")
  /\ announced' \in {announced, [announced EXCEPT ![p] = "no"]}
  /\ leases' \in {leases, leases \ {Lease(p)}}
  /\ stranded' = stranded \cup {p}
  /\ UNCHANGED <<db, goroutines, told, starts>>

-----------------------------------------------------------------------------
(* The other goroutines *)

Running(p) == serverPc[p] \notin {"off", "exit"}

\* ListenAndServe returns an error, which the goroutine assigns to err ...
HTTPFails(p) ==
  /\ Running(p) /\ http[p] = "up" /\ ServerFault
  /\ http' = [http EXCEPT ![p] = "failed"] /\ err' = [err EXCEPT ![p] = "http"]
  /\ UNCHANGED <<db, serverPc, signalled, waiting, cancelled, stopped, etcd, starts>>

\* ... and logs.
HTTPEnds(p) ==
  /\ Running(p) /\ http[p] = "failed"
  /\ http' = [http EXCEPT ![p] = "ended"]
  /\ UNCHANGED <<db, serverPc, err, signalled, waiting, cancelled, stopped, etcd, starts, serverFaults>>

\* A signal while some goroutine waits for it; before that it ends the process.
Signal(p) ==
  /\ \/ serverPc[p] = "serve"
     \/ p \in Signers /\ serverPc[p] \in {"registry", "listen", "check"}
  /\ p \notin signalled
  /\ signalled' = signalled \cup {p}
  /\ UNCHANGED <<db, serverPc, err, http, waiting, cancelled, stopped, etcd, starts, serverFaults>>

\* A signer's Start waits for the signal too, and cancels its context.
AwaitSignalCancel(p) ==
  /\ p \in Signers \cap signalled /\ Running(p) /\ p \notin cancelled
  /\ cancelled' = cancelled \cup {p}
  /\ UNCHANGED <<db, serverPc, err, http, signalled, waiting, stopped, etcd, starts, serverFaults>>

AwaitSignalReturns(p) ==
  /\ p \in waiting \cap signalled /\ Running(p)
  /\ waiting' = waiting \ {p}
  /\ UNCHANGED <<db, serverPc, err, http, signalled, cancelled, stopped, etcd, starts, serverFaults>>

\* Run's goroutine stops the server on the signal, and gives up without doing
\* so when the context ends first.
AwaitSignalStop(p) ==
  /\ p \in waiting /\ Running(p)
  /\ \/ p \in signalled /\ stopped' = stopped \cup {p}
     \/ p \in cancelled /\ UNCHANGED stopped
  /\ waiting' = waiting \ {p}
  /\ UNCHANGED <<db, serverPc, err, http, signalled, cancelled, etcd, starts, serverFaults>>

\* The process dies, or ends in logger.Fatal: nothing deferred is run.
ServerCrash(p) ==
  /\ Running(p) /\ ServerFault
  /\ Rollback(p) /\ Proceed(p, "off")
  /\ UNCHANGED <<schema, goroutines, etcd, starts>>

\* Nothing renews the lease any more, and what hangs on it goes with it.
LeaseExpires(p) ==
  /\ \E n \in 1 .. MaxStarts :
       /\ <<p, n>> \in leases /\ (n = starts[p] => ~Running(p))
       /\ leases' = leases \ {<<p, n>>}
  /\ announced' = [announced EXCEPT ![p] = IF @ = "leased" THEN "no" ELSE @]
  /\ UNCHANGED <<db, serverPc, goroutines, told, stranded, starts, serverFaults>>

Import(p) == CreateObject(p) \/ AlreadyExists(p) \/ Imported(p)
Main(p) ==
  \/ Import(p) \/ AnnounceSelf(p) \/ Register(p) \/ Listen(p) \/ Serve(p) \/ ServeEnds(p)
  \/ Close(p) \/ Unannounce(p)
ServerFails(p) ==
  \/ ImportFails(p) \/ ProviderFails(p) \/ AddEndpointFails(p) \/ RegistryFails(p) \/ RegisterFails(p) \/ ListenFails(p)
  \/ ServeFails(p) \/ HTTPFails(p) \/ UnannounceFails(p) \/ ServerCrash(p)

\* Servers run until they are told to stop.
ServersDone == (\A p \in Procs : serverPc[p] \in {"serve", "off", "exit"}) /\ UNCHANGED serverVars

ServerNext ==
  \/ \E p \in Procs :
       \/ StartServer(p) \/ Main(p) \/ ServerFails(p) \/ HTTPEnds(p)
       \/ Signal(p) \/ AwaitSignalCancel(p) \/ AwaitSignalStop(p) \/ LeaseExpires(p)
  \/ ServersDone

\* Goroutines run.
ServerFairness ==
  \A p \in Procs :
    /\ WF_serverVars(Main(p))
    /\ WF_serverVars(AwaitSignalStop(p)) /\ WF_serverVars(AwaitSignalCancel(p))

ServerSpec == ServerInit /\ [][ServerNext]_serverVars /\ ServerFairness

-----------------------------------------------------------------------------
(* Properties *)

\* A server that goes on from ImportPostgres finds the whole schema, also when
\* it lost the race to another one and took the error for benign.
ImportedIsComplete ==
  \A p \in Procs : serverPc[p] \notin {"off", "import", "exit"} => Objects \subseteq schema

\* An instance that announced itself and returned from Start, whatever failed
\* or was cancelled before, has left neither its endpoint nor its lease in etcd,
\* unless a call of the withdrawal failed, whose error Unannounce ignores.
ReturnedIsNotAnnounced ==
  \A p \in told \ stranded : serverPc[p] = "exit" => announced[p] = "no" /\ Lease(p) \notin leases

\* A log server that is sent a signal returns.  (A signer's context is
\* cancelled by the same signal, and AwaitSignalStop may see that first.)
StopsOnSignal ==
  \A p \in Procs \ Signers :
    p \in signalled /\ serverPc[p] = "serve" ~> serverPc[p] \in {"off", "exit"}
=============================================================================
