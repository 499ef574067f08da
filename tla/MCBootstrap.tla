------------------------------- MODULE MCBootstrap -------------------------------
(***************************************************************************)
(* Small instances of Bootstrap.                                            *)
(***************************************************************************)
EXTENDS Bootstrap

CONSTANTS a1, a2

\* The signing key, which is created in one call, and one log.
KidAndTree == [a \in {a1, a2} |-> <<"kid", "maple">>]
=============================================================================
