------------------------------ MODULE AuthGate ------------------------------
(***************************************************************************)
(* What the authentication gate of a server connection promises, without   *)
(* flags, wakers and polls: it opens once and stays open, commands pass    *)
(* only then, and a waiter is turned away only when the connection is      *)
(* over.  ServerConnection implements it.                                  *)
(***************************************************************************)
CONSTANT Task

VARIABLES
    open,    \* a valid token was accepted
    lost,    \* the QUIC connection is closed
    place    \* where each task is: outside, inside or refused

gateVars == <<open, lost, place>>

GateInit ==
    /\ open = FALSE
    /\ lost = FALSE
    /\ place = [t \in Task |-> "outside"]

Authenticate ==
    /\ open' = TRUE
    /\ UNCHANGED <<lost, place>>

Move(t, to) ==
    /\ place[t] = "outside"
    /\ place' = [place EXCEPT ![t] = to]
    /\ UNCHANGED <<open, lost>>

Pass(t) == open /\ Move(t, "inside")

Refuse(t) == lost /\ Move(t, "refused")

Lose ==
    /\ lost' = TRUE
    /\ UNCHANGED <<open, place>>

GateNext ==
    \/ Authenticate
    \/ Lose
    \/ \E t \in Task : Pass(t) \/ Refuse(t)

GateSpec == GateInit /\ [][GateNext]_gateVars
=============================================================================
