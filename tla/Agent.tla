---------------------------------- MODULE Agent ----------------------------------
(***************************************************************************)
(* Clients of pkg/client/vct, the vct agent and the logs together.  Any     *)
(* number of agent instances serve the requests.  The logs move as          *)
(* AppendOnlyLog allows, which LogStorage implements; a leaf is kept with   *)
(* the timestamp of the first submission of its entry.                      *)
(*                                                                         *)
(* Calls to the log and answers to the client may fail or be lost after     *)
(* the log has changed.                                                     *)
(***************************************************************************)
EXTENDS Controller

CONSTANTS
  Clients,
  Credentials,  \* what clients submit
  Times,        \* readings of the agents' clocks
  Reads,        \* the read requests clients send
  Tokens,       \* client -> [read, write], the tokens it was created with
  MaxBatch,     \* how many leaves a signer integrates at once
  MaxAdds,      \* bound: submissions
  MaxReads,     \* bound: reads the clients choose to make
  MaxFaults     \* bound: failed calls and lost answers

Entries == {vc.entry : vc \in Credentials}
NoTime == 0

ASSUME TimesAssumption == Times \subseteq Nat \ {NoTime}
ASSUME ReadsAssumption == \A req \in Reads : IsRead(req)
ASSUME MaxBatchAssumption == MaxBatch \in Nat

VARIABLES
  stored,   \* alias -> entry -> timestamp of the leaf the log keeps, or NoTime
  tree,     \* alias -> the integrated leaves
  call,     \* client -> the call it waits for
  svcts,    \* client -> <<alias, credential, timestamp>> it was given
  adds, reads, faults

vars == <<stored, tree, call, svcts, adds, reads, faults>>

Idle == [at |-> "idle"]

Init ==
  /\ stored = [a \in Aliases |-> [e \in Entries |-> NoTime]]
  /\ tree = [a \in Aliases |-> <<>>]
  /\ call = [c \in Clients |-> Idle]
  /\ svcts = [c \in Clients |-> {}]
  /\ adds = 0 /\ reads = 0 /\ faults = 0

Log(a) == INSTANCE AppendOnlyLog WITH
  LeafIds <- Entries,
  accepted <- {e \in Entries : stored[a][e] # NoTime},
  size <- Len(tree[a]),
  log <- {[seq |-> n - 1, id |-> tree[a][n].entry] : n \in DOMAIN tree[a]}

-----------------------------------------------------------------------------
(* The client *)

Send(c, req, token) == call' = [call EXCEPT ![c] = [at |-> "sent", req |-> req, token |-> token]]

\* The token of the operation; the endpoint names the log.
AddVC(c) ==
  /\ call[c] = Idle /\ adds < MaxAdds /\ adds' = adds + 1
  /\ \E a \in Aliases, vc \in Credentials :
       Send(c, [op |-> "AddVC", alias |-> a, uri |-> {addVCEndpoint}, vc |-> vc], Tokens[c].write)
  /\ UNCHANGED <<stored, tree, svcts, reads, faults>>

Read(c) ==
  /\ call[c] = Idle /\ reads < MaxReads /\ reads' = reads + 1
  /\ \E req \in Reads : Send(c, req, Tokens[c].read)
  /\ UNCHANGED <<stored, tree, svcts, adds, faults>>

-----------------------------------------------------------------------------
(* The agent *)

Reply(c, answer) == call' = [call EXCEPT ![c] = [at |-> "answered", req |-> call[c].req, answer |-> answer]]

Fault == faults < MaxFaults /\ faults' = faults + 1

RPC(code) == (code = "OK" /\ UNCHANGED faults) \/ (code \in RPCCodes \cup {Signing} /\ Fault)

\* The middleware and the commands that change nothing.
Unauthorised(c) ==
  /\ call[c].at = "sent" /\ ~Authorized(call[c].req, call[c].token)
  /\ Reply(c, Answer(<< <<TRUE, Unauthorized>> >>, NoBody))
  /\ UNCHANGED <<stored, tree, svcts, adds, reads, faults>>

TreeOf(alias) == IF alias \in Aliases THEN tree[alias] ELSE <<>>

Handle(req, rpc) ==
  CASE req.op = "GetSTH" -> GetSTH(req, TreeOf(req.alias), rpc)
    [] req.op = "GetEntries" -> GetEntries(req, TreeOf(req.alias), rpc)
    [] req.op = "GetEntryAndProof" -> GetEntryAndProof(req, TreeOf(req.alias), rpc)
    [] req.op = "GetProofByHash" -> GetProofByHash(req, TreeOf(req.alias), rpc)
    [] req.op = "GetSTHConsistency" -> GetSTHConsistency(req, TreeOf(req.alias), rpc)
    [] req.op = "GetIssuers" -> GetIssuers(req)
    [] req.op = "Webfinger" -> Webfinger(req)
    [] req.op = "HealthCheck" -> HealthCheck(rpc \in {"OK", Signing}, rpc # Signing)

ServeRead(c) ==
  /\ call[c].at = "sent" /\ call[c].req.op # "AddVC" /\ Authorized(call[c].req, call[c].token)
  /\ \E rpc \in RPCResults :
       /\ RPC(rpc) /\ Reply(c, Handle(call[c].req, rpc))
  /\ UNCHANGED <<stored, tree, svcts, adds, reads>>

\* AddVC up to the call of QueueLeaf: the leaf carries the agent's clock.
MakeLeaf(c) ==
  /\ call[c].at = "sent" /\ call[c].req.op = "AddVC" /\ Authorized(call[c].req, call[c].token)
  /\ LET req == call[c].req
         refused == Answer(AddVCReturns(req), NoBody) IN
     IF refused.status # 200 THEN Reply(c, refused)
     ELSE \E t \in Times :
            call' = [call EXCEPT ![c] = [at |-> "queue", req |-> req, leaf |-> CreateLeaf(t, req.vc)]]
  /\ UNCHANGED <<stored, tree, svcts, adds, reads, faults>>

SignOwnLeaf(c) ==
  /\ call[c].at = "queue"
  /\ LET leaf == call[c].leaf
         a == call[c].req.alias
         kept == IF stored[a][leaf.entry] = NoTime THEN leaf.timestamp ELSE stored[a][leaf.entry] IN
     \E rpc \in RPCResults :
       /\ RPC(rpc)
       /\ \/ stored' = [stored EXCEPT ![a][leaf.entry] = kept]
          \/ rpc \in RPCCodes /\ UNCHANGED stored
       /\ Reply(c, AddVCAnswer(rpc, leaf))
  /\ UNCHANGED <<tree, svcts, adds, reads>>

\* QueueLeaf keeps the first leaf of an entry and answers with it; when the call
\* fails the leaf may have been queued.  The answer is signed from that leaf, and
\* an error of the key manager is answered although the leaf is queued.
QueueLeaf(c) ==
  /\ call[c].at = "queue"
  /\ LET leaf == call[c].leaf
         a == call[c].req.alias
         kept == IF stored[a][leaf.entry] = NoTime THEN leaf.timestamp ELSE stored[a][leaf.entry] IN
     \E rpc \in RPCResults :
       /\ RPC(rpc)
       /\ \/ stored' = [stored EXCEPT ![a][leaf.entry] = kept]
          \/ rpc \in RPCCodes /\ UNCHANGED stored
       /\ Reply(c, AddVCAnswer(rpc, [timestamp |-> kept, entry |-> leaf.entry]))
  /\ UNCHANGED <<tree, svcts, adds, reads>>

-----------------------------------------------------------------------------
(* The answer reaches the client *)

\* do: anything but 200 is an error to the caller.
ReturnAddVC(c) ==
  /\ call[c].at = "answered" /\ call[c].req.op = "AddVC"
  /\ call' = [call EXCEPT ![c] = Idle]
  /\ LET req == call[c].req
         answer == call[c].answer IN
     IF answer.status = 200 /\ VerifyVCTimestampSignature(answer.body, req.vc)
     THEN svcts' = [svcts EXCEPT ![c] = @ \cup {<<req.alias, req.vc, answer.body.timestamp>>}]
     ELSE UNCHANGED svcts
  /\ UNCHANGED <<stored, tree, adds, reads, faults>>

ReturnOther(c) ==
  /\ call[c].at = "answered" /\ call[c].req.op # "AddVC"
  /\ call' = [call EXCEPT ![c] = Idle]
  /\ UNCHANGED <<stored, tree, svcts, adds, reads, faults>>

\* The client times out, or the connection is lost.
LoseAnswer(c) ==
  /\ call[c].at = "answered" /\ Fault
  /\ call' = [call EXCEPT ![c] = Idle]
  /\ UNCHANGED <<stored, tree, svcts, adds, reads>>

-----------------------------------------------------------------------------
\* A signer appends waiting leaves, as the log storage promises.
Integrate(a) ==
  /\ \E n \in 1 .. MaxBatch : \E batch \in [1 .. n -> {e \in Entries : stored[a][e] # NoTime}] :
       tree' = [tree EXCEPT ![a] = @ \o [i \in 1 .. n |-> [timestamp |-> stored[a][batch[i]], entry |-> batch[i]]]]
  /\ UNCHANGED <<stored, call, svcts, adds, reads, faults>>
  /\ Log(a)!Integrate

Serve(c) == Unauthorised(c) \/ ServeRead(c) \/ MakeLeaf(c) \/ QueueLeaf(c)
Return(c) == ReturnAddVC(c) \/ ReturnOther(c)

Done == (\A c \in Clients : call[c] = Idle) /\ adds = MaxAdds /\ reads = MaxReads /\ UNCHANGED vars

Next ==
  \/ \E c \in Clients : AddVC(c) \/ Read(c) \/ Serve(c) \/ Return(c) \/ LoseAnswer(c)
  \/ \E a \in Aliases : Integrate(a)
  \/ Done

Spec == Init /\ [][Next]_vars

-----------------------------------------------------------------------------
(* Properties *)

\* Every signed timestamp the agent sends, for a first submission, a duplicate
\* or a retry, verifies against the credential sent and is that of the leaf the
\* log keeps: its leaf hash is the one that gets into the tree.
TimestampIsOfTheLoggedLeaf ==
  \A c \in Clients :
    call[c].at = "answered" /\ call[c].req.op = "AddVC" /\ call[c].answer.status = 200 =>
      LET req == call[c].req
          resp == call[c].answer.body IN
      /\ VerifyVCTimestampSignature(resp, req.vc)
      /\ stored[req.alias][req.vc.entry] = resp.timestamp

\* A log holds only what hasPermissions, ParseCredential and its list of issuers
\* let in, whatever is submitted again, lost or refused.
LoggedIsPermitted ==
  \A a \in Aliases, e \in Entries :
    stored[a][e] # NoTime =>
      /\ "w" \in Logs[a].perm
      /\ \E vc \in Credentials : vc.entry = e /\ "ParseCredential" \notin vc.fails /\ ~IssuerUnlisted(a, vc)

\* An inclusion proof the agent returns is one of the tree size that was asked
\* for, so that it verifies against the tree head of that size.
ProofsAreOfTheRequestedTree ==
  \A c \in Clients :
    call[c].at = "answered" /\ call[c].req.op \in {"GetProofByHash", "GetEntryAndProof"}
      /\ call[c].answer.status = 200 =>
      LET req == call[c].req
          proof == call[c].answer.body.proof IN
      /\ proof.size = req.size /\ proof.index < proof.size
      /\ req.op = "GetProofByHash" => tree[req.alias][proof.index + 1] = req.hash

\* get-entries answers with the entries from start on, at most maxRange of them,
\* and at least one: a client that asks again from where it stopped gets on.
EntriesAreTheRange ==
  \A c \in Clients :
    call[c].at = "answered" /\ call[c].req.op = "GetEntries" /\ call[c].answer.status = 200 =>
      LET req == call[c].req
          entries == call[c].answer.body.entries IN
      /\ Len(entries) \in 1 .. Min({maxRange, req.end - req.start + 1})
      /\ \A n \in DOMAIN entries : entries[n] = tree[req.alias][req.start + n]

\* What the agent answers with a 5xx although no call failed: CreateLeaf and
\* MarshalCanonical, a range that starts behind the end of the log
\* (command.go:475), and names that %q does not write as JSON.
Unservable(req, t) ==
  \/ req.op = "AddVC" /\ {"CreateLeaf", "MarshalCanonical"} \cap req.vc.fails # {}
  \/ req.op = "GetEntries" /\ Len(t) <= req.start
  \/ req.op \in {"GetSTH", "GetIssuers"} /\ req.alias \in NotJSON
  \/ req.op = "Webfinger" /\ req.resource.ledger \in NotJSON

\* A range of a log that can be read, which starts inside the log and whose
\* length is an int64.
Servable(req, t) ==
  /\ req.op = "GetEntries" /\ req.alias \in Aliases /\ "r" \in Logs[req.alias].perm
  /\ req.start >= 0 /\ req.end <= IntMax /\ req.end - req.start \in 0 .. IntMax - 1
  /\ req.start < Len(t)

\* When none of its own calls fails, the agent blames itself for nothing else, and
\* refuses no range it can serve, also when computing its bounds overflows.
NoErrorWithoutReason ==
  [][\A c \in Clients :
       call[c].at \in {"sent", "queue"} /\ call'[c].at = "answered" /\ faults' = faults =>
         LET req == call[c].req
             status == call'[c].answer.status IN
         /\ status >= 500 => Unservable(req, TreeOf(req.alias))
         /\ Servable(req, TreeOf(req.alias)) /\ Authorized(req, call[c].token) => status = 200]_vars
=============================================================================
