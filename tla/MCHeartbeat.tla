----------------------------- MODULE MCHeartbeat -----------------------------
(***************************************************************************)
(* Instances of Heartbeat for TLC.                                         *)
(***************************************************************************)
EXTENDS Heartbeat

CONSTANTS st1, st2, a1
=============================================================================
