------------------------------ MODULE ServerUdp ------------------------------
(***************************************************************************)
(* The UDP relay of one server connection: the session table and the       *)
(* sessions of server/src/connection/udp.rs, the tasks that put packets    *)
(* into it and drop associations (task.rs), and the way back of the        *)
(* packets the sockets receive (listen_received_udp_packet and             *)
(* process_received_udp_packet).                                           *)
(*                                                                         *)
(* Ownership is what the module is about.  A session's task, and with it   *)
(* its socket, lives until every Sender of its channel is dropped; one is  *)
(* in the table, one in each task that has looked it up or created it.     *)
(* The table itself lives until the select! of Connection::handle is over  *)
(* and every task that holds a clone of the connection has ended, those    *)
(* that wait at the authentication gate included.                          *)
(*                                                                         *)
(* How the gate works is in ServerConnection: here a task passes it, is    *)
(* turned away or stays there.  Payloads and target addresses are left     *)
(* out.                                                                    *)
(***************************************************************************)
EXTENDS Naturals, FiniteSets

CONSTANTS Assoc,      \* associate IDs
          Session,    \* UdpSession values, as many as are ever created
          Task,       \* spawned tasks
          None        \* no session, no associate ID

ASSUME UdpAssumption == None \notin Assoc \cup Session

VARIABLES
    map,              \* UdpSessionMap::map
    session,          \* each session's task: unused, live, ended (every
                      \* Sender was dropped) or failed (a socket error)
    owner,            \* the assoc_id each session was created for
    send_pkt,         \* packets in each session's send channel
    sending,          \* sessions inside socket.send_to
    received,         \* sessions with a packet for recv_pkt_tx.send
    recv_pkt,         \* the assoc_id of the packet in the shared recv channel
    udp_packet_from,  \* the relay mode the client's first Packet chose
    cmd,              \* what each task was spawned for: a Packet on a
                      \* stream ("uni") or in a datagram, a Dissociate, or a
                      \* packet to send back
    assoc_id,         \* the ID each task works on
    send_pkt_tx,      \* the session whose Sender each task holds
    pc,               \* where each task is
    result,           \* what became of each task
    closed            \* the select! of Connection::handle is over

vars == <<map, session, owner, send_pkt, sending, received, recv_pkt,
          udp_packet_from, cmd, assoc_id, send_pkt_tx, pc, result, closed>>

sessionVars == <<session, owner, send_pkt, sending, received, recv_pkt>>

taskVars == <<cmd, assoc_id, send_pkt_tx, pc, result>>

Packet == {"uni", "datagram"}

TypeOK ==
    /\ map \in [Assoc -> Session \cup {None}]
    /\ session \in [Session -> {"unused", "live", "ended", "failed"}]
    /\ owner \in [Session -> Assoc \cup {None}]
    /\ send_pkt \in [Session -> 0..1]
    /\ sending \in SUBSET Session
    /\ received \in SUBSET Session
    /\ recv_pkt \in Assoc \cup {None}
    /\ udp_packet_from \in {"none", "uni", "datagram"}
    /\ cmd \in [Task -> Packet \cup {"none", "dissociate", "reply"}]
    /\ assoc_id \in [Task -> Assoc \cup {None}]
    /\ send_pkt_tx \in [Task -> Session \cup {None}]
    /\ pc \in [Task -> {"idle", "gate", "read", "get", "bind", "insert",
                        "send", "dissociate", "return", "reply", "done"}]
    /\ result \in [Task -> {"none", "refused", "sent", "dropped", "error",
                            "dissociated", "uni", "datagram"}]
    /\ closed \in BOOLEAN

Init ==
    /\ map = [a \in Assoc |-> None]
    /\ session = [s \in Session |-> "unused"]
    /\ owner = [s \in Session |-> None]
    /\ send_pkt = [s \in Session |-> 0]
    /\ sending = {}
    /\ received = {}
    /\ recv_pkt = None
    /\ udp_packet_from = "none"
    /\ cmd = [t \in Task |-> "none"]
    /\ assoc_id = [t \in Task |-> None]
    /\ send_pkt_tx = [t \in Task |-> None]
    /\ pc = [t \in Task |-> "idle"]
    /\ result = [t \in Task |-> "none"]
    /\ closed = FALSE

Goto(t, to) == pc' = [pc EXCEPT ![t] = to]

\* Task t ends, and drops the Sender it may hold.
Finish(t, res) ==
    /\ Goto(t, "done")
    /\ result' = [result EXCEPT ![t] = res]
    /\ send_pkt_tx' = [send_pkt_tx EXCEPT ![t] = None]

-----------------------------------------------------------------------------
(***************************************************************************)
(* Packet and Dissociate commands.                                         *)
(***************************************************************************)

\* A listener accepts a stream or a datagram with a Packet or a Dissociate
\* and spawns a task for it, which owns a clone of the connection from here
\* on, and reads the command.
AcceptCommand(t, a, c) ==
    /\ pc[t] = "idle" /\ ~closed
    /\ cmd' = [cmd EXCEPT ![t] = c]
    /\ assoc_id' = [assoc_id EXCEPT ![t] = a]
    /\ Goto(t, "gate")
    /\ UNCHANGED <<map, sessionVars, udp_packet_from, send_pkt_tx, result,
                   closed>>

\* UdpPacketFrom::uni_stream() and ::datagram(): the first Packet chooses.
ModeAgrees_Always(c) == c \in Packet

ModeAgrees(c) == udp_packet_from \in {"none", c}

\* The gate lets the task through, be the connection closed by then or not.
\* A Packet must have come the way that the connection's Packets come, and
\* is a BadCommand otherwise; the payload of a stream is still to be read,
\* that of a datagram is there.
PassGate_NoMode(t) ==
    /\ pc[t] = "gate"
    /\ Goto(t, CASE cmd[t] = "uni" -> "read"
                 [] cmd[t] = "datagram" -> "get"
                 [] cmd[t] = "dissociate" -> "dissociate")
    /\ UNCHANGED <<map, sessionVars, udp_packet_from, cmd, assoc_id,
                   send_pkt_tx, result, closed>>

PassGate(t) ==
    /\ pc[t] = "gate"
    /\ \/ /\ cmd[t] \in Packet
          /\ ModeAgrees(cmd[t])
          /\ udp_packet_from' = cmd[t]
          /\ Goto(t, IF cmd[t] = "uni" THEN "read" ELSE "get")
          /\ UNCHANGED <<send_pkt_tx, result>>
       \/ /\ cmd[t] \in Packet
          /\ ~ModeAgrees(cmd[t])
          /\ Finish(t, "refused")
          /\ UNCHANGED udp_packet_from
       \/ /\ cmd[t] = "dissociate"
          /\ Goto(t, "dissociate")
          /\ UNCHANGED <<udp_packet_from, send_pkt_tx, result>>
    /\ UNCHANGED <<map, sessionVars, cmd, assoc_id, closed>>

\* The command cannot be read, or the gate is not opened in time.
LeaveGate(t) ==
    /\ pc[t] = "gate"
    /\ Finish(t, "refused")
    /\ UNCHANGED <<map, sessionVars, udp_packet_from, cmd, assoc_id, closed>>

\* packet_from_uni_stream: read_exact of the payload, which fails when the
\* stream or the connection goes away.
ReadPayload(t) ==
    /\ pc[t] = "read"
    /\ \/ Goto(t, "get") /\ UNCHANGED <<send_pkt_tx, result>>
       \/ Finish(t, "error")
    /\ UNCHANGED <<map, sessionVars, udp_packet_from, cmd, assoc_id, closed>>

\* UdpSessionMap::send, the first critical section: look the ID up.
Get(t) ==
    /\ pc[t] = "get"
    /\ LET s == map[assoc_id[t]] IN
         /\ send_pkt_tx' = [send_pkt_tx EXCEPT ![t] = s]
         /\ Goto(t, IF s = None THEN "bind" ELSE "send")
    /\ UNCHANGED <<map, sessionVars, udp_packet_from, cmd, assoc_id, result,
                   closed>>

\* UdpSession::new, without the lock: bind a socket and spawn the session's
\* task, or fail.
Bind(t) ==
    /\ pc[t] = "bind"
    /\ \/ \E s \in Session :
            /\ session[s] = "unused"
            /\ session' = [session EXCEPT ![s] = "live"]
            /\ owner' = [owner EXCEPT ![s] = assoc_id[t]]
            /\ send_pkt_tx' = [send_pkt_tx EXCEPT ![t] = s]
            /\ Goto(t, "insert")
            /\ UNCHANGED result
       \/ Finish(t, "error") /\ UNCHANGED <<session, owner>>
    /\ UNCHANGED <<map, send_pkt, sending, received, recv_pkt,
                   udp_packet_from, cmd, assoc_id, closed>>

\* The second critical section: whatever the table holds for the ID by now
\* is replaced, and its Sender dropped.
Insert(t) ==
    /\ pc[t] = "insert"
    /\ map' = [map EXCEPT ![assoc_id[t]] = send_pkt_tx[t]]
    /\ Goto(t, "send")
    /\ UNCHANGED <<sessionVars, udp_packet_from, cmd, assoc_id, send_pkt_tx,
                   result, closed>>

\* send_pkt_tx.send(...).await: waits for room in the channel of a running
\* session; the error of one that is gone is ignored.
Room(s) == session[s] = "live" /\ send_pkt[s] = 0

Send(t) ==
    /\ pc[t] = "send"
    /\ LET s == send_pkt_tx[t] IN
         \/ /\ Room(s)
            /\ send_pkt' = [send_pkt EXCEPT ![s] = @ + 1]
            /\ Finish(t, "sent")
         \/ /\ session[s] # "live"
            /\ Finish(t, "dropped")
            /\ UNCHANGED send_pkt
    /\ UNCHANGED <<map, session, owner, sending, received, recv_pkt,
                   udp_packet_from, cmd, assoc_id, closed>>

\* UdpSessionMap::dissociate removes the ID, dropping its Sender ...
Dissociate(t) ==
    /\ pc[t] = "dissociate"
    /\ map' = [map EXCEPT ![assoc_id[t]] = None]
    /\ Goto(t, "return")
    /\ UNCHANGED <<sessionVars, udp_packet_from, cmd, assoc_id, send_pkt_tx,
                   result, closed>>

\* ... and the task ends.
Return(t) ==
    /\ pc[t] = "return"
    /\ Finish(t, "dissociated")
    /\ UNCHANGED <<map, sessionVars, udp_packet_from, cmd, assoc_id, closed>>

-----------------------------------------------------------------------------
(***************************************************************************)
(* A session's task: the select! of listen_send_packet and                 *)
(* listen_receive_packet.                                                  *)
(***************************************************************************)

\* Somebody holds a Sender of the session's channel.
HasSender_Table(s) == \E a \in Assoc : map[a] = s

HasSender(s) ==
    \/ \E a \in Assoc : map[a] = s
    \/ \E t \in Task : send_pkt_tx[t] = s

\* The task is over: its socket, its channel and its buffers are dropped.
Stop(s, how) ==
    /\ session' = [session EXCEPT ![s] = how]
    /\ send_pkt' = [send_pkt EXCEPT ![s] = 0]
    /\ sending' = sending \ {s}
    /\ received' = received \ {s}

\* listen_send_packet: take a packet from the channel, and send_to it.
TakePacket(s) ==
    /\ session[s] = "live" /\ s \notin sending /\ send_pkt[s] > 0
    /\ send_pkt' = [send_pkt EXCEPT ![s] = @ - 1]
    /\ sending' = sending \cup {s}
    /\ UNCHANGED <<map, session, owner, received, recv_pkt, udp_packet_from,
                   taskVars, closed>>

SendTo(s) ==
    /\ session[s] = "live" /\ s \in sending
    /\ sending' = sending \ {s}
    /\ UNCHANGED <<map, session, owner, send_pkt, received, recv_pkt,
                   udp_packet_from, taskVars, closed>>

\* send_to or recv_from returns an error, which ends the session; the table
\* is not told.
SocketFails(s) ==
    /\ session[s] = "live"
    /\ s \in sending \/ s \notin received
    /\ Stop(s, "failed")
    /\ UNCHANGED <<map, owner, recv_pkt, udp_packet_from, taskVars, closed>>

\* The channel is empty and every Sender dropped: recv() returns None.
SessionEnds(s) ==
    /\ session[s] = "live" /\ s \notin sending /\ send_pkt[s] = 0
    /\ ~HasSender(s)
    /\ Stop(s, "ended")
    /\ UNCHANGED <<map, owner, recv_pkt, udp_packet_from, taskVars, closed>>

\* listen_receive_packet: recv_from returns a packet ...
RecvFrom(s) ==
    /\ session[s] = "live" /\ s \notin received
    /\ received' = received \cup {s}
    /\ UNCHANGED <<map, session, owner, send_pkt, sending, recv_pkt,
                   udp_packet_from, taskVars, closed>>

\* ... which goes into the connection's channel when there is room, or
\* nowhere once the receiving end is dropped.
Forward(s) ==
    /\ s \in received
    /\ recv_pkt = None
    /\ received' = received \ {s}
    /\ recv_pkt' = IF closed THEN None ELSE owner[s]
    /\ UNCHANGED <<map, session, owner, send_pkt, sending, udp_packet_from,
                   taskVars, closed>>

-----------------------------------------------------------------------------
(***************************************************************************)
(* The connection.                                                         *)
(***************************************************************************)

\* listen_received_udp_packet: spawn a task for the packet ...
ListenReceived(t) ==
    /\ pc[t] = "idle" /\ ~closed
    /\ recv_pkt # None
    /\ cmd' = [cmd EXCEPT ![t] = "reply"]
    /\ assoc_id' = [assoc_id EXCEPT ![t] = recv_pkt]
    /\ recv_pkt' = None
    /\ Goto(t, "reply")
    /\ UNCHANGED <<map, session, owner, send_pkt, sending, received,
                   udp_packet_from, send_pkt_tx, result, closed>>

\* ... and process_received_udp_packet sends it the way the client chose.
\* check().unwrap() has no value while the mode is "none".
Reply(t) ==
    /\ pc[t] = "reply"
    /\ udp_packet_from # "none"
    /\ Finish(t, udp_packet_from)
    /\ UNCHANGED <<map, sessionVars, udp_packet_from, cmd, assoc_id, closed>>

\* The select! of Connection::handle ends and drops its futures: the
\* receiving end of recv_pkt and the listeners with their clones of the
\* connection.  Nothing is accepted any more.
Close ==
    /\ ~closed
    /\ closed' = TRUE
    /\ recv_pkt' = None
    /\ UNCHANGED <<map, session, owner, send_pkt, sending, received,
                   udp_packet_from, taskVars>>

\* Who has a clone of the connection: the listeners, and every task that is
\* not over, wherever it waits.
Owned_Listeners == ~closed

Owned == ~closed \/ \E t \in Task : pc[t] \notin {"idle", "done"}

\* The last clone of the connection is dropped, and the table with it.
DropMap ==
    /\ ~Owned
    /\ \E a \in Assoc : map[a] # None
    /\ map' = [a \in Assoc |-> None]
    /\ UNCHANGED <<sessionVars, udp_packet_from, taskVars, closed>>

\* The steps a task takes by itself.
TaskStep(t) ==
    \/ Get(t) \/ Bind(t) \/ Insert(t) \/ Send(t) \/ Dissociate(t)
    \/ Return(t) \/ Reply(t)

SessionStep(s) == TakePacket(s) \/ SendTo(s) \/ SessionEnds(s)

Next ==
    \/ \E t \in Task :
          \/ \E a \in Assoc, c \in Packet \cup {"dissociate"} :
                AcceptCommand(t, a, c)
          \/ PassGate(t) \/ LeaveGate(t)
          \/ ReadPayload(t) \/ ListenReceived(t) \/ TaskStep(t)
    \/ \E s \in Session :
          SessionStep(s) \/ SocketFails(s) \/ RecvFrom(s) \/ Forward(s)
    \/ Close
    \/ DropMap

\* Tasks and sessions that can go on do; bind and send_to return.  A payload
\* may never arrive while the connection is open, and a read of it fails
\* once it is not.  A task may stay at the gate for ever: its wake-up can be
\* lost (ConnectionReleases of Server).
Fairness ==
    /\ \A t \in Task : /\ WF_vars(TaskStep(t))
                       /\ WF_vars(closed /\ ReadPayload(t))
    /\ \A s \in Session : WF_vars(SessionStep(s))
    /\ WF_vars(DropMap)

Spec == Init /\ [][Next]_vars /\ Fairness

-----------------------------------------------------------------------------
(***************************************************************************)
(* Properties.                                                             *)
(***************************************************************************)

\* check().unwrap() in process_received_udp_packet cannot panic: a socket
\* that can receive exists only after a Packet has chosen the mode.
ModeKnown ==
    (\E t \in Task : pc[t] = "reply") => udp_packet_from # "none"

\* A packet that UdpSessionMap::send throws away (`let _ =`) met a session
\* whose socket had failed.  No other session can be gone while a task holds
\* its Sender, whatever Dissociate or the race of two first packets has
\* dropped from the table in between.
DropsOnlyOnFailure ==
    \A t \in Task :
        (pc[t] = "send" /\ session[send_pkt_tx[t]] # "live")
            => session[send_pkt_tx[t]] = "failed"

\* The task relays, or has relayed, a packet.
Relayed(t) ==
    \/ cmd[t] \in Packet /\ pc[t] # "gate" /\ result[t] # "refused"
    \/ cmd[t] = "reply" /\ pc[t] = "done"

\* The way it goes.
Way(t) == IF cmd[t] = "reply" THEN result[t] ELSE cmd[t]

\* All packets of a connection, there and back, go the same way, whatever
\* the order in which streams and datagrams race through the gate to be the
\* first: the compare_exchange of UdpPacketFrom, and the match on check().
OneRelayMode ==
    \A t, u \in Task : Relayed(t) /\ Relayed(u) => Way(t) = Way(u)

\* The tasks, channels and packets of this module implement the table that
\* the rest of the server may rely on: an entry is of the ID's own session,
\* a socket is closed only when the table no longer leads to it, and then it
\* is closed; the table is used only while somebody owns the connection, and
\* dropped when nobody does.
Table == INSTANCE SessionTable WITH table <- map, socket <- session,
                                    gone <- ~Owned

ImplementsTable == Table!TableSpec
=============================================================================
