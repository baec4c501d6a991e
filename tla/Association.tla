----------------------------- MODULE Association -----------------------------
(***************************************************************************)
(* UDP associations, from the SOCKS5 request to the server: the handler in *)
(* client/src/socks5/associate.rs, the Associate arm of process_request    *)
(* (client/src/relay/request.rs), the tasks that carry packets and the     *)
(* Dissociate (client/src/relay/task.rs), the packets that come back       *)
(* (client/src/relay/incoming.rs) and the session map they share.          *)
(*                                                                         *)
(* An association is two tasks joined by two channels of capacity one.     *)
(* Either ends when it finds the other's end of its channel dropped, so    *)
(* who holds which Sender decides how long an association lives.           *)
(*                                                                         *)
(* How the request gets its connection is ClientRelay; it may get one that *)
(* is lost.  The server is its table of IDs; ServerUdp is the detail, and  *)
(* what becomes of the table when the connection is lost is Server.        *)
(***************************************************************************)
EXTENDS Naturals, FiniteSets

CONSTANTS Assoc,    \* SOCKS5 associate requests
          Id,       \* associate IDs
          None,     \* no association, no ID
          MaxPkt    \* bound: packets each application sends

ASSUME AssociationAssumption ==
    /\ None \notin Assoc \cup Id
    /\ MaxPkt \in Nat

VARIABLES
    spc,        \* where the SOCKS5 handler of each association is
    end,        \* why it ended
    connected,  \* its UDP socket is connected to the application
    assoc_id,   \* the ID new_associate drew
    rpc,        \* where the association's process_request is
    sent,       \* packets the application has sent
    pkt_send,   \* packets in the channel to process_request
    pkt_recv,   \* packets in the channel to the SOCKS5 handler
    packet_to,  \* packets on their way: handle_packet_to tasks, and QUIC
    sessions,   \* UdpSessionMap: whose pkt_recv_tx each ID has
    incoming,   \* the ID of a packet that came back, and the association
                \* whose Sender handle_packet_from holds
    dissociate, \* Dissociate commands on their way, by ID
    socket,     \* the IDs that have a socket at the server
    lost,       \* the QUIC connection is over
    late        \* history: associations that had packets on their way when
                \* their Dissociate was sent

vars == <<spc, end, connected, assoc_id, rpc, sent, pkt_send, pkt_recv,
          packet_to, sessions, incoming, dissociate, socket, lost, late>>

socksVars == <<spc, end, connected, assoc_id, sent>>

relayVars == <<rpc, sessions, late>>

wireVars == <<packet_to, dissociate, socket, lost>>

Nothing == [id |-> None, tx |-> None]

TypeOK ==
    /\ spc \in [Assoc -> {"bind", "request", "reply", "relay", "connect",
                          "done"}]
    /\ end \in [Assoc -> {"none", "refused", "closed", "error", "dropped"}]
    /\ connected \in SUBSET Assoc
    /\ assoc_id \in [Assoc -> Id \cup {None}]
    /\ rpc \in [Assoc -> {"none", "queued", "recv", "dissociate", "done",
                          "timeout"}]
    /\ sent \in [Assoc -> 0..MaxPkt]
    /\ pkt_send \in [Assoc -> 0..1]
    /\ pkt_recv \in [Assoc -> 0..1]
    /\ packet_to \in [Assoc -> 0..MaxPkt]
    /\ sessions \in [Id -> Assoc \cup {None}]
    /\ incoming \in [id : Id \cup {None}, tx : Assoc \cup {None}]
    /\ dissociate \in SUBSET Id
    /\ socket \in SUBSET Id
    /\ lost \in BOOLEAN
    /\ late \in SUBSET Assoc

Init ==
    /\ spc = [x \in Assoc |-> "bind"]
    /\ end = [x \in Assoc |-> "none"]
    /\ connected = {}
    /\ assoc_id = [x \in Assoc |-> None]
    /\ rpc = [x \in Assoc |-> "none"]
    /\ sent = [x \in Assoc |-> 0]
    /\ pkt_send = [x \in Assoc |-> 0]
    /\ pkt_recv = [x \in Assoc |-> 0]
    /\ packet_to = [x \in Assoc |-> 0]
    /\ sessions = [i \in Id |-> None]
    /\ incoming = Nothing
    /\ dissociate = {}
    /\ socket = {}
    /\ lost = FALSE
    /\ late = {}

-----------------------------------------------------------------------------
(***************************************************************************)
(* The SOCKS5 handler.                                                     *)
(***************************************************************************)

\* The handler returns, and drops pkt_send_tx, pkt_recv_rx and the socket.
\* A packet it has put into the channel before stays there.
Return(x, why) ==
    /\ spc' = [spc EXCEPT ![x] = "done"]
    /\ end' = [end EXCEPT ![x] = why]
    /\ pkt_recv' = [pkt_recv EXCEPT ![x] = 0]

\* bind_udp_socket: bound, or GeneralFailure is the reply.
Bind(x) ==
    /\ spc[x] = "bind"
    /\ \/ spc' = [spc EXCEPT ![x] = "request"] /\ UNCHANGED <<end, pkt_recv>>
       \/ Return(x, "refused")
    /\ UNCHANGED <<connected, assoc_id, sent, relayVars, pkt_send, incoming,
                   wireVars>>

\* RelayRequest::new_associate, with an ID drawn at random, and
\* req_tx.send(relay_req).
SendRequest(x, i) ==
    /\ spc[x] = "request"
    /\ assoc_id' = [assoc_id EXCEPT ![x] = i]
    /\ rpc' = [rpc EXCEPT ![x] = "queued"]
    /\ spc' = [spc EXCEPT ![x] = "reply"]
    /\ UNCHANGED <<end, connected, sent, sessions, late, pkt_send, pkt_recv,
                   incoming, wireVars>>

\* conn.reply(Succeeded), whatever becomes of the request; it may fail.
ReplySucceeded(x) ==
    /\ spc[x] = "reply"
    /\ \/ spc' = [spc EXCEPT ![x] = "relay"] /\ UNCHANGED <<end, pkt_recv>>
       \/ Return(x, "error")
    /\ UNCHANGED <<connected, assoc_id, sent, relayVars, pkt_send, incoming,
                   wireVars>>

\* process_request, or the request it was spawned with, has the receiver.
Receiving(x) == rpc[x] \in {"queued", "recv"}

\* socks5_to_relay: a packet of the application, sent into the channel when
\* there is room, or nowhere if the receiver is gone.  (Fragments are
\* ignored.)  The first packet's sender is what the socket is then connected
\* to; socks5_to_relay and relay_to_socks5 are branches of one select!, so
\* until that has happened the other is not polled, whatever is in its
\* channel by then.
FromApplication_NoConnect(x) ==
    /\ spc[x] = "relay" /\ sent[x] < MaxPkt
    /\ sent' = [sent EXCEPT ![x] = @ + 1]
    /\ \/ /\ Receiving(x) /\ pkt_send[x] = 0
          /\ pkt_send' = [pkt_send EXCEPT ![x] = 1]
       \/ ~Receiving(x) /\ UNCHANGED pkt_send
    /\ UNCHANGED <<spc, end, connected, assoc_id, relayVars, pkt_recv,
                   incoming, wireVars>>

FromApplication(x) ==
    /\ spc[x] = "relay" /\ sent[x] < MaxPkt
    /\ sent' = [sent EXCEPT ![x] = @ + 1]
    /\ spc' = [spc EXCEPT ![x] = IF x \in connected THEN @ ELSE "connect"]
    /\ \/ /\ Receiving(x) /\ pkt_send[x] = 0
          /\ pkt_send' = [pkt_send EXCEPT ![x] = 1]
       \/ ~Receiving(x) /\ UNCHANGED pkt_send
    /\ UNCHANGED <<end, connected, assoc_id, relayVars, pkt_recv, incoming,
                   wireVars>>

\* socket.connect(src_addr), which may fail.
Connect(x) ==
    /\ spc[x] = "connect"
    /\ \/ /\ connected' = connected \cup {x}
          /\ spc' = [spc EXCEPT ![x] = "relay"]
          /\ UNCHANGED <<end, pkt_recv>>
       \/ Return(x, "error") /\ UNCHANGED connected
    /\ UNCHANGED <<assoc_id, sent, relayVars, pkt_send, incoming, wireVars>>

\* relay_to_socks5: a packet for the application; sending it on a socket that
\* is not connected is an error.
ToApplication(x) ==
    /\ spc[x] = "relay" /\ pkt_recv[x] > 0
    /\ IF x \in connected
         THEN pkt_recv' = [pkt_recv EXCEPT ![x] = @ - 1]
              /\ UNCHANGED <<spc, end>>
         ELSE Return(x, "error")
    /\ UNCHANGED <<connected, assoc_id, sent, relayVars, pkt_send, incoming,
                   wireVars>>

\* Who holds a Sender of pkt_recv: the request, the map, handle_packet_from.
HasSender_Map(x) == \E i \in Id : sessions[i] = x

HasSender(x) ==
    \/ rpc[x] = "queued"
    \/ \E i \in Id : sessions[i] = x
    \/ incoming.tx = x

\* relay_to_socks5: recv() returns None, and the association ends.
ChannelClosed_Ignored(x) == FALSE /\ spc[x] = "relay" /\ UNCHANGED vars

ChannelClosed(x) ==
    /\ spc[x] = "relay" /\ pkt_recv[x] = 0 /\ ~HasSender(x)
    /\ Return(x, "dropped")
    /\ UNCHANGED <<connected, assoc_id, sent, relayVars, pkt_send, incoming,
                   wireVars>>

\* The application closes the SOCKS5 connection, or the socket fails.
Disconnect(x) ==
    /\ spc[x] = "relay"
    /\ Return(x, "closed") \/ Return(x, "error")
    /\ UNCHANGED <<connected, assoc_id, sent, relayVars, pkt_send, incoming,
                   wireVars>>

-----------------------------------------------------------------------------
(***************************************************************************)
(* process_request.                                                        *)
(***************************************************************************)

\* The connection is there: UdpSessionMap::insert, which drops the Sender the
\* map had for the ID.
Insert(x) ==
    /\ rpc[x] = "queued"
    /\ rpc' = [rpc EXCEPT ![x] = "recv"]
    /\ sessions' = [sessions EXCEPT ![assoc_id[x]] = x]
    /\ UNCHANGED <<socksVars, late, pkt_send, pkt_recv, incoming, wireVars>>

\* It is not there in time: the request is dropped, channels and all.
TimeoutRequest(x) ==
    /\ rpc[x] = "queued"
    /\ rpc' = [rpc EXCEPT ![x] = "timeout"]
    /\ pkt_send' = [pkt_send EXCEPT ![x] = 0]
    /\ UNCHANGED <<socksVars, sessions, late, pkt_recv, incoming, wireVars>>

\* pkt_send_rx.recv(): a packet, for which handle_packet_to is spawned ...
SpawnPacketTo(x) ==
    /\ rpc[x] = "recv" /\ pkt_send[x] > 0
    /\ pkt_send' = [pkt_send EXCEPT ![x] = @ - 1]
    /\ packet_to' = [packet_to EXCEPT ![x] = @ + 1]
    /\ UNCHANGED <<socksVars, relayVars, pkt_recv, incoming, dissociate,
                   socket, lost>>

\* ... or None, once the SOCKS5 handler is over: the ID is removed, whosever
\* it is by now.
Remove_Not(x) ==
    /\ rpc[x] = "recv" /\ pkt_send[x] = 0 /\ spc[x] = "done"
    /\ rpc' = [rpc EXCEPT ![x] = "dissociate"]
    /\ UNCHANGED <<socksVars, sessions, late, pkt_send, pkt_recv, incoming,
                   wireVars>>

Remove(x) ==
    /\ rpc[x] = "recv" /\ pkt_send[x] = 0 /\ spc[x] = "done"
    /\ rpc' = [rpc EXCEPT ![x] = "dissociate"]
    /\ sessions' = [sessions EXCEPT ![assoc_id[x]] = None]
    /\ UNCHANGED <<socksVars, late, pkt_send, pkt_recv, incoming, wireVars>>

\* handle_dissociate, on a stream of its own; an error is only logged.
SendDissociate_Not(x) ==
    /\ rpc[x] = "dissociate"
    /\ rpc' = [rpc EXCEPT ![x] = "done"]
    /\ UNCHANGED <<socksVars, sessions, pkt_send, pkt_recv, incoming, wireVars,
                   late>>

SendDissociate(x) ==
    /\ rpc[x] = "dissociate"
    /\ rpc' = [rpc EXCEPT ![x] = "done"]
    /\ dissociate' = IF lost THEN dissociate ELSE dissociate \cup {assoc_id[x]}
    /\ late' = IF packet_to[x] > 0 THEN late \cup {x} ELSE late
    /\ UNCHANGED <<socksVars, sessions, pkt_send, pkt_recv, incoming,
                   packet_to, socket, lost>>

-----------------------------------------------------------------------------
(***************************************************************************)
(* The way to the server and back.                                         *)
(***************************************************************************)

\* A packet arrives, and the server has a socket for its ID, be it after the
\* connection was lost; or it is lost, too large, or too late.
PacketArrives(x) ==
    /\ packet_to[x] > 0
    /\ packet_to' = [packet_to EXCEPT ![x] = @ - 1]
    /\ socket' \in {socket, socket \cup {assoc_id[x]}}
    /\ UNCHANGED <<socksVars, relayVars, pkt_send, pkt_recv, incoming,
                   dissociate, lost>>

DissociateArrives(i) ==
    /\ i \in dissociate
    /\ dissociate' = dissociate \ {i}
    /\ \/ socket' = socket \ {i}
       \/ lost /\ UNCHANGED socket
    /\ UNCHANGED <<socksVars, relayVars, pkt_send, pkt_recv, incoming,
                   packet_to, lost>>

\* The server's socket receives a packet and sends it back:
\* process_incoming_datagram or process_incoming_uni_stream runs for it.
PacketFrom(i) ==
    /\ i \in socket /\ ~lost /\ incoming = Nothing
    /\ incoming' = [id |-> i, tx |-> None]
    /\ UNCHANGED <<socksVars, relayVars, pkt_send, pkt_recv, wireVars>>

\* handle_packet_from: UdpSessionMap::get, a warning if there is none.
GetSession ==
    /\ incoming.id # None /\ incoming.tx = None
    /\ incoming' = IF sessions[incoming.id] = None THEN Nothing
                   ELSE [incoming EXCEPT !.tx = sessions[incoming.id]]
    /\ UNCHANGED <<socksVars, relayVars, pkt_send, pkt_recv, wireVars>>

\* recv_pkt_tx.send(...): when there is room, or nowhere once the receiver is
\* dropped.
Deliver ==
    /\ incoming.tx # None
    /\ \/ /\ spc[incoming.tx] # "done" /\ pkt_recv[incoming.tx] = 0
          /\ pkt_recv' = [pkt_recv EXCEPT ![incoming.tx] = 1]
       \/ spc[incoming.tx] = "done" /\ UNCHANGED pkt_recv
    /\ incoming' = Nothing
    /\ UNCHANGED <<socksVars, relayVars, pkt_send, wireVars>>

\* The connection is over.
ConnectionLost ==
    /\ ~lost
    /\ lost' = TRUE
    /\ UNCHANGED <<socksVars, relayVars, pkt_send, pkt_recv, incoming,
                   packet_to, dissociate, socket>>

\* The server drops its table when nobody owns the connection any more, which
\* may be never (ConnectionReleases of Server).
ServerReleases ==
    /\ lost /\ socket # {}
    /\ socket' = {}
    /\ UNCHANGED <<socksVars, relayVars, pkt_send, pkt_recv, incoming,
                   packet_to, dissociate, lost>>

SocksStep(x) ==
    \/ Bind(x) \/ (\E i \in Id : SendRequest(x, i)) \/ ReplySucceeded(x)
    \/ Connect(x) \/ ToApplication(x) \/ ChannelClosed(x)

RequestStep(x) ==
    \/ Insert(x) \/ TimeoutRequest(x) \/ SpawnPacketTo(x) \/ Remove(x)
    \/ SendDissociate(x)

WireStep ==
    \/ \E x \in Assoc : PacketArrives(x)
    \/ \E i \in Id : DissociateArrives(i)
    \/ GetSession
    \/ Deliver

Next ==
    \/ \E x \in Assoc :
          SocksStep(x) \/ FromApplication(x) \/ Disconnect(x) \/ RequestStep(x)
    \/ WireStep
    \/ \E i \in Id : PacketFrom(i)
    \/ ConnectionLost
    \/ ServerReleases

\* Tasks that can go on do, the request gets the connection or times out, and
\* what was sent arrives or is lost.  The application may keep its
\* association for ever, and the connection may last for ever.
Fairness ==
    /\ \A x \in Assoc : WF_vars(SocksStep(x)) /\ WF_vars(RequestStep(x))
    /\ \A x \in Assoc : WF_vars(PacketArrives(x))
    /\ \A i \in Id : WF_vars(DissociateArrives(i))
    /\ WF_vars(GetSession)
    /\ WF_vars(Deliver)

Spec == Init /\ [][Next]_vars /\ Fairness

-----------------------------------------------------------------------------
(***************************************************************************)
(* Properties.                                                             *)
(***************************************************************************)

\* Another association drew the same ID.
Shared(x) == \E y \in Assoc \ {x} : assoc_id[y] = assoc_id[x]

\* An association ends under the application, which has asked for nothing,
\* only because its request timed out or another one drew its ID: insert
\* drops its Sender then, or remove takes the other one's away.
DroppedForAReason ==
    \A x \in Assoc : end[x] = "dropped" => rpc[x] = "timeout" \/ Shared(x)

\* No packet comes back before the application has sent one, and whenever
\* relay_to_socks5 may look at its channel, the socket it sends on is
\* connected, although the packet that asks for the reply is sent first and
\* the reply may be there before the socket is: unless the ID is someone
\* else's as well.
RepliesFollowPackets ==
    \A x \in Assoc :
        pkt_recv[x] > 0 =>
            \/ sent[x] > 0 /\ (spc[x] = "relay" => x \in connected)
            \/ Shared(x)

\* When the SOCKS5 handler is over, process_request ends too and the map
\* forgets the association, connection or no connection: an entry left behind
\* would have heartbeats sent for it for ever.
EndedIsForgotten ==
    \A x \in Assoc :
        (spc[x] = "done") ~> (/\ rpc[x] \in {"none", "done", "timeout"}
                              /\ \A i \in Id : sessions[i] # x)

\* An application whose request timed out is told: its SOCKS5 connection,
\* which had Succeeded as reply, is shut down.
TimeoutIsTold == \A x \in Assoc : (rpc[x] = "timeout") ~> (spc[x] = "done")

\* The server releases the socket of an association that is over, unless a
\* packet was still on its way when the Dissociate was sent: each goes in a
\* task and on a stream of its own, and may be overtaken.  (A connection that
\* is lost is not for the Dissociate to clean up.)
DissociatedUnlessOvertaken ==
    \A x \in Assoc :
        (rpc[x] = "done") ~> (\/ assoc_id[x] \notin socket
                              \/ x \in late \/ Shared(x) \/ lost)
=============================================================================
