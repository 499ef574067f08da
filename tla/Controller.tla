------------------------------- MODULE Controller -------------------------------
(***************************************************************************)
(* The handlers of the vct agent as functions of a request and of what the  *)
(* log answers: the token check of startcmd, the REST operations of         *)
(* pkg/controller/rest, the commands of pkg/controller/command and the      *)
(* status codes of pkg/controller/errors.                                   *)
(*                                                                         *)
(* A handler is a list of early returns, <<condition, error>> in the order  *)
(* of the code, and the body it encodes when none of them applies.          *)
(* Integers have the width of IntMax: arithmetic wraps, and ParseInt        *)
(* refuses what does not fit.                                               *)
(***************************************************************************)
EXTENDS Integers, Sequences, FiniteSetsExt

CONSTANTS
  Logs,         \* alias -> [perm |-> permissions, issuers |-> listed issuers]
  Loaders,      \* the aliases that have a JSON-LD document loader
  NotJSON,      \* names that %q writes with an escape JSON does not have
  ReadToken,    \* the agent's API tokens, "" when not set
  WriteToken,
  IntMax,       \* the largest int64
  maxRange,     \* how many entries GetEntries returns at most
  RPCCodes      \* how calls to the log fail

ASSUME IntMaxAssumption == IntMax \in Nat
ASSUME MaxRangeAssumption == maxRange \in 1 .. IntMax
ASSUME RPCAssumption == "OK" \notin RPCCodes

Aliases == DOMAIN Logs

\* startAgent creates a loader for every log before it serves.
ASSUME LoadersAssumption == Aliases \subseteq Loaders

Wrap(n) == ((n + IntMax + 1) % (2 * (IntMax + 1))) - (IntMax + 1)

-----------------------------------------------------------------------------
(* pkg/controller/errors *)

StatusErr(code) == [status |-> code, rpc |-> "none"]
RPCErr(code) == [status |-> 0, rpc |-> code]

ErrValidation == StatusErr(400)
ErrBadRequest == StatusErr(400)
ErrNotFound == StatusErr(404)
ErrInternal == StatusErr(500)
Unauthorized == StatusErr(401)
NoCode == StatusErr(500)     \* an error of the commands that carries no code
ServiceUnavailable == StatusErr(503)

NotFoundIsInternal(code) ==
  CASE code \in {"Canceled", "DeadlineExceeded"} -> 408
    [] code \in {"InvalidArgument", "OutOfRange", "AlreadyExists"} -> 400
    [] code \in {"PermissionDenied", "ResourceExhausted"} -> 403
    [] code = "Unauthenticated" -> 401
    [] code = "FailedPrecondition" -> 412
    [] code = "Aborted" -> 409
    [] code = "Unimplemented" -> 501
    [] code = "Unavailable" -> 503
    [] OTHER -> 500

statusCodeFromRPCError(code) ==
  CASE code \in {"Canceled", "DeadlineExceeded"} -> 408
    [] code \in {"InvalidArgument", "OutOfRange", "AlreadyExists"} -> 400
    [] code = "NotFound" -> 404
    [] code \in {"PermissionDenied", "ResourceExhausted"} -> 403
    [] code = "Unauthenticated" -> 401
    [] code = "FailedPrecondition" -> 412
    [] code = "Aborted" -> 409
    [] code = "Unimplemented" -> 501
    [] code = "Unavailable" -> 503
    [] OTHER -> 500

\* The outermost error that carries a code decides; wrapping hides none.
StatusCodeFromError(e) == IF e.rpc = "none" THEN e.status ELSE statusCodeFromRPCError(e.rpc)

NoBody == [none |-> TRUE]

\* The first early return that applies is sent as an error, otherwise the body.
Answer(returns, body) ==
  LET hit == {n \in DOMAIN returns : returns[n][1]} IN
  IF hit = {}
  THEN [status |-> 200, body |-> body]
  ELSE [status |-> StatusCodeFromError(returns[Min(hit)][2]), body |-> NoBody]

-----------------------------------------------------------------------------
(* Permissions *)

\* uri of a request: which of these its URI contains, or for health, is.  A URI
\* may contain the name of an endpoint it does not lead to, as part of an alias.
healthCheckEndpoint == "/healthcheck"
addVCEndpoint == "/add-vc"
webFingerEndpoint == "/.well-known/webfinger"

\* Discovery and health take no token; add-vc is open when the write token is
\* not set.
ValidateAuthorizationBearerToken(req, token) ==
  \/ {healthCheckEndpoint, webFingerEndpoint} \cap req.uri # {}
  \/ LET required == IF addVCEndpoint \in req.uri THEN WriteToken ELSE ReadToken IN
     required = "" \/ token = required

\* The middleware is installed when one of the tokens is set.
Authorized(req, token) ==
  (ReadToken = "" /\ WriteToken = "") \/ ValidateAuthorizationBearerToken(req, token)

\* hasPermissions: the log exists, and its permissions allow the operation.
NoLog(alias) == <<alias \notin DOMAIN Logs, ErrNotFound>>
NotPermitted(alias, perm) == <<alias \in DOMAIN Logs /\ perm \notin Logs[alias].perm, Unauthorized>>

NotANumber(n) == <<n > IntMax, ErrValidation>>

\* A name that REST hands over with %q is decoded as JSON.
NotDecoded(name) == <<name \in NotJSON, ErrInternal>>

-----------------------------------------------------------------------------
(* AddVC.  A credential is [entry, issuer, proof, fails]: its canonical form *)
(* without the proof, and which of ParseCredential, CreateLeaf and            *)
(* MarshalCanonical fail for it.  CreateLeaf needs an object: a JWT, which    *)
(* ParseCredential takes, is none.                                           *)

CreateLeaf(timestamp, vc) == [timestamp |-> timestamp, entry |-> vc.entry]

IssuerUnlisted(alias, vc) == Logs[alias].issuers # {} /\ vc.issuer \notin Logs[alias].issuers

Fails(step, vc, e) == <<step \in vc.fails, e>>

AddVCIssuerUnchecked(req) ==
  <<NoLog(req.alias), NotPermitted(req.alias, "w"), <<req.alias \notin Loaders, NoCode>>,
    Fails("ParseCredential", req.vc, ErrBadRequest), Fails("CreateLeaf", req.vc, NoCode),
    Fails("MarshalCanonical", req.vc, ErrInternal)>>

\* The early returns before the leaf is made and queued.
AddVCReturns(req) ==
  <<NoLog(req.alias), NotPermitted(req.alias, "w"), <<req.alias \notin Loaders, NoCode>>,
    Fails("ParseCredential", req.vc, ErrBadRequest),
    <<req.alias \in DOMAIN Logs /\ IssuerUnlisted(req.alias, req.vc), ErrBadRequest>>,
    Fails("CreateLeaf", req.vc, NoCode), Fails("MarshalCanonical", req.vc, ErrInternal)>>

\* What the signature covers is made of the leaf alone.
CreateVCTimestampSignature(leaf) == [timestamp |-> leaf.timestamp, entry |-> leaf.entry]
signV1VCTS(leaf) == CreateVCTimestampSignature(leaf)

\* rpc is what QueueLeaf answered with the leaf it returned, the first one
\* queued for the entry.
AddVCAnswer(rpc, loggedLeaf) ==
  Answer(<< <<rpc # "OK", RPCErr(rpc)>> >>,
         [timestamp |-> loggedLeaf.timestamp, signature |-> signV1VCTS(loggedLeaf)])

\* The client's check of the answer against the credential it sent.
VerifyVCTimestampSignature(resp, vc) ==
  resp.signature = CreateVCTimestampSignature(CreateLeaf(resp.timestamp, vc))

\* HashLeaf is injective: a leaf stands for its hash.
CalculateLeafHash(timestamp, vc) == CreateLeaf(timestamp, vc)

-----------------------------------------------------------------------------
(* The log answers a read from its latest root: the leaves of tree are those *)
(* the root commits to.  rpc is "OK" or the code the call fails with; Signing *)
(* stands for an error of the key manager or a missing part of the log's      *)
(* answer, which carry no code.                                             *)

Signing == "signing"

\* "OK", or a failure of the call to the log or of the key manager.
RPCResults == {"OK", Signing} \cup RPCCodes

\* The read calls of the client, each with the integers it sends.
IsRead(req) ==
  /\ req.op \in {"GetSTH", "GetEntries", "GetEntryAndProof", "GetProofByHash", "GetSTHConsistency",
                "GetIssuers", "Webfinger", "HealthCheck"}
  /\ req.op = "GetEntries" => req.start \in Int /\ req.end \in Int
  /\ req.op = "GetEntryAndProof" => req.index \in Int /\ req.size \in Int
  /\ req.op = "GetProofByHash" => req.size \in Int
  /\ req.op = "GetSTHConsistency" => req.first \in Int /\ req.second \in Int

GetSTH(req, tree, rpc) ==
  Answer(<<NotDecoded(req.alias), NoLog(req.alias), NotPermitted(req.alias, "r"),
           <<rpc # "OK", RPCErr(rpc)>> >>,
         [treeSize |-> Len(tree), root |-> tree])

GetEntriesInvalid(req) == req.start < 0 \/ req.end < 0 \/ req.start > req.end

GetEntriesOffByOne(req) ==
  LET end == IF Wrap(req.end - req.start) > maxRange THEN Wrap(req.start + maxRange) ELSE req.end IN
  [start |-> req.start, count |-> Wrap(Wrap(end + 1) - req.start)]

\* The range that is asked of the log: at most maxRange entries.
GetEntriesRange(req) ==
  LET end == IF Wrap(req.end - req.start + 1) > maxRange THEN Wrap(req.start + maxRange - 1) ELSE req.end IN
  [start |-> req.start, count |-> Wrap(Wrap(end + 1) - req.start)]

GetLeavesByRange(range, tree) ==
  SubSeq(tree, Max({range.start, 0}) + 1, Min({range.start + range.count, Len(tree)}))

GetEntries(req, tree, rpc) ==
  LET range == GetEntriesRange(req)
      leaves == GetLeavesByRange(range, tree) IN
  Answer(<<NotANumber(req.start), NotANumber(req.end), <<GetEntriesInvalid(req), ErrValidation>>,
           NoLog(req.alias), NotPermitted(req.alias, "r"),
           <<rpc # "OK", RPCErr(rpc)>>,
           <<range.count <= 0, RPCErr("InvalidArgument")>>,
           <<Len(tree) <= req.start, ErrInternal>>,
           <<Len(leaves) > range.count, ErrInternal>> >>,
         [entries |-> leaves])

GetEntryAndProofInvalid(req) == req.size < 1 \/ req.index < 0 \/ req.index >= req.size

AnyTreeSize(req, tree) == FALSE

\* The log has not reached the tree size of the request.
AheadOfLog(req, tree) == Len(tree) < req.size

\* Asked for a tree it has not reached, the log answers for the one it has.
InclusionProof(index, size, tree) ==
  [index |-> index, size |-> Min({size, Len(tree)})]

GetEntryAndProof(req, tree, rpc) ==
  Answer(<<NotANumber(req.index), NotANumber(req.size), <<GetEntryAndProofInvalid(req), ErrValidation>>,
           NoLog(req.alias), NotPermitted(req.alias, "r"),
           <<rpc # "OK", RPCErr(rpc)>>,
           <<AheadOfLog(req, tree), ErrBadRequest>>,
           <<Len(tree) <= req.index, ErrInternal>> >>,
         [leaf |-> tree[req.index + 1], proof |-> InclusionProof(req.index, req.size, tree)])

Positions(leaf, tree) == {n \in 0 .. Len(tree) - 1 : tree[n + 1] = leaf}

\* The hash parameter of a request when it is not base64.
NotBase64 == [timestamp |-> 0, entry |-> ""]

GetProofByHash(req, tree, rpc) ==
  LET at == {n \in Positions(req.hash, tree) : n < req.size} IN
  Answer(<<NotANumber(req.size), <<req.size < 1, ErrValidation>>,
           NoLog(req.alias), NotPermitted(req.alias, "r"),
           <<req.hash = NotBase64, ErrBadRequest>>,
           <<rpc # "OK", RPCErr(rpc)>>,
           <<Positions(req.hash, tree) = {}, RPCErr("NotFound")>>,
           <<AheadOfLog(req, tree), ErrNotFound>>,
           <<at = {}, ErrNotFound>> >>,
         [proof |-> InclusionProof(Min(at), req.size, tree)])

GetSTHConsistencyInvalid(req) == req.first < 0 \/ req.second < 0 \/ req.first > req.second

\* From the empty tree the answer is empty and the log is not asked.
GetSTHConsistency(req, tree, rpc) ==
  LET asked == req.first # 0 IN
  Answer(<<NotANumber(req.first), NotANumber(req.second), <<GetSTHConsistencyInvalid(req), ErrValidation>>,
           NoLog(req.alias), NotPermitted(req.alias, "r"),
           <<asked /\ rpc # "OK", RPCErr(rpc)>>,
           <<asked /\ Len(tree) < req.second, ErrValidation>> >>,
         [hashes |-> IF asked THEN <<req.first, req.second>> ELSE <<>>])

GetIssuers(req) ==
  Answer(<<NotDecoded(req.alias), NoLog(req.alias), NotPermitted(req.alias, "r")>>,
         [issuers |-> Logs[req.alias].issuers])

\* resource is [host, ledger]; host is NotAURI when there is no resource or
\* url.Parse refuses it, and "self" when it is the agent's.
NotAURI == "not a URI"

Webfinger(req) ==
  Answer(<<NotDecoded(req.resource.ledger),
           <<req.resource.host = NotAURI, ErrBadRequest>>,
           <<req.resource.host # "self", ErrNotFound>>,
           <<req.resource.ledger \notin DOMAIN Logs, ErrNotFound>> >>,
         [subject |-> req.resource])

\* Both the database and the key manager have to answer.
HealthCheck(dbUp, kmsUp) == Answer(<< <<~dbUp \/ ~kmsUp, ServiceUnavailable>> >>, NoBody)
=============================================================================
