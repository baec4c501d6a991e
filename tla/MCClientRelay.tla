---------------------------- MODULE MCClientRelay ----------------------------
(***************************************************************************)
(* Instances of ClientRelay for TLC.                                       *)
(***************************************************************************)
EXTENDS ClientRelay

CONSTANTS r1, r2
=============================================================================
