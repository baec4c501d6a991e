------------------------------ MODULE MCServer ------------------------------
(***************************************************************************)
(* Instances of Server for TLC.                                            *)
(***************************************************************************)
EXTENDS Server

CONSTANTS t1, t2, t3, a1, s1

On(c, m) == [chan |-> c, cmd |-> m]

\* Every error path, both relay modes, a command on the wrong channel.
MixedArrivals ==
    {On("uni", "authenticate"), On("uni", "bad_authenticate"),
     On("uni", "packet"), On("datagram", "packet"), On("uni", "dissociate"),
     On("uni", "heartbeat"), On("bi", "connect"), On("bi", "authenticate"),
     On("uni", "malformed")}

\* A client that authenticates and relays UDP.
PacketArrivals == {On("uni", "authenticate"), On("datagram", "packet")}
=============================================================================
