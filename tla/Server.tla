------------------------------- MODULE Server -------------------------------
(***************************************************************************)
(* A server connection as a whole: the authentication gate and dispatch of *)
(* ServerConnection composed with the UDP session table of SessionTable    *)
(* (which ServerUdp implements).  What the composition adds is who keeps   *)
(* what alive: every spawned task owns a clone of the Connection, and with *)
(* it the table, from the moment it is spawned until it is over, however   *)
(* long it stays at the gate; so do the futures in the select! of          *)
(* Connection::handle, until it is over.                                   *)
(***************************************************************************)
EXTENDS ServerConnection

CONSTANTS Assoc, Session, None

ASSUME ServerAssumption == None \notin Assoc \cup Session

VARIABLES
    table, socket, owner,   \* as in SessionTable
    relaying                \* the tasks inside the function that handles
                            \* their command: task::connect, task::packet_from_*
                            \* or task::dissociate

serverVars == <<vars, table, socket, owner, relaying>>

sessionVars == <<table, socket, owner>>

\* Who holds a clone of the Connection.  handle moves its own into the
\* futures of its select!, which are dropped when that is over, before
\* is_closed is set.
Selects == pc[Handle] \notin {"close", "done"}

Owners_Sessions ==
    {t \in Task : pc[t] \notin {"idle", "done"}} \cup relaying
        \cup {w \in {Handle} : Selects}
        \cup {s \in Session : socket[s] = "live"}

Owners ==
    {t \in Task : pc[t] \notin {"idle", "done"}} \cup relaying
        \cup {w \in {Handle} : Selects}

UdpTable == INSTANCE SessionTable WITH gone <- Owners = {}

ServerTypeOK ==
    /\ TypeOK
    /\ table \in [Assoc -> Session \cup {None}]
    /\ socket \in [Session -> {"unused", "live", "ended", "failed"}]
    /\ owner \in [Session -> Assoc \cup {None}]
    /\ relaying \in SUBSET Task

ServerInit == Init /\ relaying = {} /\ UdpTable!TableInit

-----------------------------------------------------------------------------
\* The gate is open and the command is one that takes a while: its handler
\* runs on in the same task.
BeginRelay(t) ==
    /\ Dispatch(t)
    /\ relaying' = IF result'[t] = "ok" /\ item[t].cmd # "heartbeat"
                     THEN relaying \cup {t} ELSE relaying
    /\ UNCHANGED sessionVars

\* A Packet's task binds a socket and enters its session, a Dissociate's task
\* removes the ID: one step of the table each.
RelayStep(t) ==
    /\ t \in relaying
    /\ \E a \in Assoc :
          \/ /\ item[t].cmd = "packet"
             /\ \E s \in Session : UdpTable!Open(s, a) \/ UdpTable!Enter(a, s)
          \/ /\ item[t].cmd = "dissociate"
             /\ UdpTable!Remove(a)
    /\ UNCHANGED <<vars, relaying>>

\* The handler returns; the task drops its clone of the connection.
EndRelay(t) ==
    /\ t \in relaying
    /\ relaying' = relaying \ {t}
    /\ UNCHANGED <<vars, sessionVars>>

\* A session's own task: its socket fails, or nothing leads to it any more.
SessionStep(s) ==
    /\ UdpTable!Fail(s) \/ UdpTable!Release(s)
    /\ UNCHANGED <<vars, relaying>>

\* The last owner is gone, and with it the table and its Senders.
DropConnection ==
    /\ Owners = {}
    /\ UdpTable!Drop
    /\ UNCHANGED <<vars, relaying>>

\* Connection::handle returns: is_closed is set.
HandleReturns == SetClosed /\ UNCHANGED <<sessionVars, relaying>>

\* The steps that do not touch the table.
GateStep ==
    /\ \/ \E t \in Task :
             \/ \E i \in Arrivals : Accept(t, i)
             \/ ReadCommand(t)
             \/ PollClosed(t) \/ PollLoad(t) \/ PollPush(t)
             \/ SetAuthenticated(t) \/ Wake(t) \/ Reject(t) \/ RejectWake(t)
             \/ ReportError(t)
       \/ PollClosed(Handle) \/ PollLoad(Handle) \/ PollPush(Handle)
       \/ Expire \/ ExpireWake \/ ListenerEnds
       \/ Repoll \/ TimerFires \/ PeerCloses
    /\ UNCHANGED <<sessionVars, relaying>>

ServerNext ==
    \/ GateStep
    \/ HandleReturns
    \/ \E t \in Task : BeginRelay(t) \/ RelayStep(t) \/ EndRelay(t)
    \/ \E s \in Session : SessionStep(s)
    \/ DropConnection

\* On top of the fairness of the gate: a header or a payload that is awaited
\* on a stream of a connection that is over fails, a TCP relay ends at the
\* latest when its stream is gone, the other handlers return, a session's
\* task that can end does, and the last owner's drop is the drop of the table.
ServerFairness ==
    /\ Fairness
    /\ \A t \in Task :
          /\ WF_serverVars(controller # "open" /\ ReadCommand(t)
                             /\ UNCHANGED <<sessionVars, relaying>>)
          /\ WF_serverVars((controller # "open" \/ item[t].cmd # "connect")
                             /\ EndRelay(t))
    /\ \A s \in Session : WF_serverVars(UdpTable!Release(s) /\ SessionStep(s))
    /\ WF_serverVars(DropConnection)

ServerSpec == ServerInit /\ [][ServerNext]_serverVars /\ ServerFairness

-----------------------------------------------------------------------------
(***************************************************************************)
(* Properties.                                                             *)
(***************************************************************************)

Released == \A s \in Session : socket[s] # "live"

\* A task asleep at the gate with nobody left to wake it.
Stuck(t) == pc[t] = "pending" /\ pc[Handle] = "done"

\* No UDP socket is bound before a valid token was received and a Packet has
\* chosen the way that replies will take, whichever tasks raced through the
\* gate: the gate, the dispatch and the table together.
SocketsAreAuthenticated ==
    \A s \in Session :
        socket[s] # "unused" => TokenReceived /\ udp_packet_from # "none"

\* Once the QUIC connection is gone, Connection::handle ends and says so in
\* is_closed, and the connection's sockets are closed: whatever Packets were
\* dispatched on it while it went down, unless a task that nothing will wake
\* keeps the connection alive.
ReleasedUnlessStuck ==
    (controller # "open")
        ~> (is_closed /\ (Released \/ \E t \in Task : Stuck(t)))

\* What protocol/README.md says of the end of a connection: all UDP sockets
\* in its session table are released.
ConnectionReleases == is_closed ~> Released
=============================================================================
