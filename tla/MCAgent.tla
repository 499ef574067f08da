--------------------------------- MODULE MCAgent ---------------------------------
(* Instances of Agent for TLC. *)
EXTENDS Agent, TLC

MCLogs == [maple |-> [perm |-> {"r", "w"}, issuers |-> {"i1", "i2"}],
           birch |-> [perm |-> {"r"}, issuers |-> {}]]

\* Of v1 there are two that differ in the proof only; v3's issuer is not listed,
\* v4 does not parse, and v5 is a JWT.
Credential(entry, proof, issuer, fails) == [entry |-> entry, proof |-> proof, issuer |-> issuer, fails |-> fails]

MCCredentials ==
  {Credential("v1", "none", "i1", {}), Credential("v1", "bbs", "i1", {}), Credential("v2", "none", "i2", {}),
   Credential("v3", "none", "i3", {}), Credential("v4", "bad", "i2", {"ParseCredential"}),
   Credential("v5", "none", "i1", {"CreateLeaf"})}

\* c2 may only write.
MCMixedTokens == [c1 |-> [read |-> "rt", write |-> "wt"], c2 |-> [read |-> "", write |-> "wt"]]

\* An int64 of 4 bits; an argument of 8, a uint64 of the client, does not fit.
Numbers == {-1, 0, 1, 7, 8}

\* S as requests of the logs, under URIs that contain the endpoints uri.
On(aliases, uri, S) == {[alias |-> a, uri |-> uri] @@ r : a \in aliases, r \in S}

\* An alias with an unprintable character, for a log there is not; one that makes
\* the URI contain the name of an endpoint; and a health check with a query.
MCReads ==
  On({"maple"}, {},
     {[op |-> "GetEntries", start |-> s, end |-> e] : s, e \in Numbers}
     \cup {[op |-> "GetEntryAndProof", index |-> i, size |-> n] : i \in {-1, 0, 1}, n \in {0, 1, 2, 3, 8}}
     \cup {[op |-> "GetSTHConsistency", first |-> m, second |-> n] : m \in {-1, 0, 1, 2}, n \in {0, 2, 3, 8}}
     \cup {[op |-> "GetProofByHash", size |-> n, hash |-> [timestamp |-> t, entry |-> "v1"]] :
             n \in {0, 1, 2, 8}, t \in {1, 2}}
     \cup {[op |-> "GetProofByHash", size |-> 1, hash |-> NotBase64]})
  \cup On({"maple", "birch", "elm", "unprintable"}, {},
     {[op |-> "GetSTH"], [op |-> "GetIssuers"], [op |-> "GetEntries", start |-> 0, end |-> 2]})
  \cup On({"add-vc-trial"}, {addVCEndpoint}, {[op |-> "GetSTH"]})
  \cup {[op |-> "Webfinger", uri |-> {webFingerEndpoint}, resource |-> [host |-> h, ledger |-> l]] :
          h \in {NotAURI, "self", "other"}, l \in {"maple", "elm", "unprintable"}}
  \cup {[op |-> "HealthCheck", uri |-> u] : u \in {{}, {healthCheckEndpoint}}}
=============================================================================
