----------------------------- MODULE MCServerUdp -----------------------------
(***************************************************************************)
(* Instances of ServerUdp for TLC.                                         *)
(***************************************************************************)
EXTENDS ServerUdp

CONSTANTS a1, s1, s2, t1, t2, t3
=============================================================================
