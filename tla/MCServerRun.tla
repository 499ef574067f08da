------------------------------ MODULE MCServerRun -------------------------------
(***************************************************************************)
(* Small instances of ServerRun.                                            *)
(***************************************************************************)
EXTENDS ServerRun

\* One object of each kind of storage.sql, in its order.
MCScript == <<"type", "table", "index", "function">>
=============================================================================
