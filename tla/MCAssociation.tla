---------------------------- MODULE MCAssociation ----------------------------
(***************************************************************************)
(* Instances of Association for TLC.                                       *)
(***************************************************************************)
EXTENDS Association

CONSTANTS x1, x2, i1, i2
=============================================================================
