------------------------------- MODULE MCCertPool -------------------------------
(***************************************************************************)
(* Small instances of CertPool: p1 and p2 are two parsed copies of one      *)
(* certificate, p3 another certificate of the same subject.                 *)
(***************************************************************************)
EXTENDS CertPool

CONSTANTS t1, t2, p1, p2, p3, nil

MCRaw == [c \in Certs |-> IF c = p3 THEN "b" ELSE "a"]
MCSubject == [r \in {"a", "b"} |-> "ca"]

Lists == { <<p1>>, <<p2>>, <<p3, nil, p3>>, <<p1, p2, p3>> }
=============================================================================
