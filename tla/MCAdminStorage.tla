----------------------------- MODULE MCAdminStorage -----------------------------
(***************************************************************************)
(* Small instances of AdminStorage.                                         *)
(***************************************************************************)
EXTENDS AdminStorage

CONSTANTS c1, c2, i1, s1, s2
=============================================================================
