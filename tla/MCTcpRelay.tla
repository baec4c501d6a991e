----------------------------- MODULE MCTcpRelay -----------------------------
(***************************************************************************)
(* Instances of TcpRelay for TLC.                                          *)
(***************************************************************************)
EXTENDS TcpRelay
=============================================================================
