--------------------------- MODULE ServerUdpProofs ---------------------------
(***************************************************************************)
(* Proofs about ServerUdp, for any number of associations, sessions and    *)
(* tasks.                                                                  *)
(***************************************************************************)
EXTENDS ServerUdp, TLAPS

\* A task works on an ID, and holds a Sender exactly from the moment it looked
\* a session up or created one until it is done.
Holding ==
    \A t \in Task :
        /\ pc[t] # "idle" => assoc_id[t] \in Assoc
        /\ IF pc[t] \in {"insert", "send"} THEN send_pkt_tx[t] \in Session
                                           ELSE send_pkt_tx[t] = None

\* A session that was never created, or that ended because its channel was
\* closed, is out of everyone's reach: no table entry and no task has its
\* Sender.  Senders are only ever cloned from the table.
OutOfReach ==
    \A s \in Session : session[s] \in {"unused", "ended"} => ~HasSender(s)

\* Only running sessions are inside send_to or have a packet to pass on.
Running ==
    \A s \in Session : s \in sending \cup received => session[s] = "live"

\* Whatever a Packet leads to comes after the mode was chosen.
ModeFirst ==
    udp_packet_from = "none" =>
        /\ \A s \in Session : session[s] = "unused"
        /\ \A t \in Task : pc[t] \in {"idle", "gate", "dissociate", "return",
                                     "done"}
        /\ recv_pkt = None

\* A session that is about to be inserted was created for the task's ID.
OwnSession ==
    \A t \in Task : pc[t] = "insert" => owner[send_pkt_tx[t]] = assoc_id[t]

\* What each task was spawned for, where that takes it, and what is relayed
\* goes the way that UdpPacketFrom says.
OneWay ==
    \A t \in Task :
        /\ pc[t] = "idle" <=> cmd[t] = "none"
        /\ pc[t] # "done" => result[t] = "none"
        /\ pc[t] = "gate" => cmd[t] \in Packet \cup {"dissociate"}
        /\ pc[t] \in {"dissociate", "return"} => cmd[t] = "dissociate"
        /\ pc[t] \in {"read", "get", "bind", "insert", "send"}
              => cmd[t] \in Packet
        /\ pc[t] = "reply" => cmd[t] = "reply"
        /\ Relayed(t) => Way(t) = udp_packet_from /\ Way(t) # "none"

Core ==
    TypeOK /\ Holding /\ OutOfReach /\ Running /\ ModeFirst /\ OwnSession

IInv == Core /\ OneWay

-----------------------------------------------------------------------------
\* The empty table satisfies the inductive invariant.
LEMMA InitInv == Init => IInv
<1> SUFFICES ASSUME Init PROVE IInv
    OBVIOUS
<1> USE UdpAssumption DEF Init
<1>1. TypeOK
  <2>1. /\ map \in [Assoc -> Session \cup {None}]
        /\ session \in [Session -> {"unused", "live", "ended", "failed"}]
        /\ owner \in [Session -> Assoc \cup {None}]
        /\ send_pkt \in [Session -> 0..1]
    OBVIOUS
  <2>2. /\ cmd \in [Task -> Packet \cup {"none", "dissociate", "reply"}]
        /\ assoc_id \in [Task -> Assoc \cup {None}]
        /\ send_pkt_tx \in [Task -> Session \cup {None}]
    OBVIOUS
  <2>3. QED
    BY <2>1, <2>2 DEF TypeOK
<1>2. Holding /\ Running /\ ModeFirst /\ OwnSession
    BY DEF Holding, Running, ModeFirst, OwnSession
<1>3. OutOfReach
    BY DEF OutOfReach, HasSender
<1>4. OneWay
    BY DEF OneWay, Relayed, Packet
<1>5. QED
    BY <1>1, <1>2, <1>3, <1>4 DEF IInv, Core

\* Every step of a task, of a session and of the connection preserves what
\* the sessions rely on.
LEMMA StepCore == Core /\ [Next]_vars => Core'
<1> SUFFICES ASSUME Core, [Next]_vars PROVE Core'
    OBVIOUS
<1> USE UdpAssumption
    DEF Core, TypeOK, Holding, OutOfReach, Running, ModeFirst, OwnSession,
        Packet, HasSender, sessionVars, taskVars, Goto, Finish, Stop
<1>1. ASSUME NEW t \in Task, NEW a \in Assoc,
             NEW c \in Packet \cup {"dissociate"}, AcceptCommand(t, a, c)
      PROVE  Core'
    BY <1>1 DEF AcceptCommand
<1>2. ASSUME NEW t \in Task, ReadPayload(t)
      PROVE  Core'
    BY <1>2 DEF ReadPayload
<1>3. ASSUME NEW t \in Task, Get(t)
      PROVE  Core'
    BY <1>3 DEF Get
<1>4. ASSUME NEW t \in Task, Bind(t)
      PROVE  Core'
    BY <1>4, SMTT(30) DEF Bind
<1>5. ASSUME NEW t \in Task, Insert(t)
      PROVE  Core'
    BY <1>5 DEF Insert
<1>6. ASSUME NEW t \in Task, Send(t)
      PROVE  Core'
    BY <1>6 DEF Send, Room
<1>7. ASSUME NEW t \in Task, PassGate(t) \/ LeaveGate(t)
      PROVE  Core'
    BY <1>7 DEF PassGate, LeaveGate, ModeAgrees
<1>8. ASSUME NEW t \in Task, Dissociate(t) \/ Return(t)
      PROVE  Core'
    BY <1>8 DEF Dissociate, Return
<1>9. ASSUME NEW s \in Session, TakePacket(s)
      PROVE  Core'
    BY <1>9 DEF TakePacket
<1>10. ASSUME NEW s \in Session, SendTo(s)
      PROVE  Core'
    BY <1>10 DEF SendTo
<1>11. ASSUME NEW s \in Session, SocketFails(s)
      PROVE  Core'
    BY <1>11 DEF SocketFails
<1>12. ASSUME NEW s \in Session, SessionEnds(s)
      PROVE  Core'
    BY <1>12 DEF SessionEnds
<1>13. ASSUME NEW s \in Session, RecvFrom(s)
      PROVE  Core'
    BY <1>13 DEF RecvFrom
<1>14. ASSUME NEW s \in Session, Forward(s)
      PROVE  Core'
    BY <1>14 DEF Forward
<1>15. ASSUME NEW t \in Task, ListenReceived(t)
      PROVE  Core'
    BY <1>15 DEF ListenReceived
<1>16. ASSUME NEW t \in Task, Reply(t)
      PROVE  Core'
    BY <1>16 DEF Reply
<1>17. CASE Close
    BY <1>17 DEF Close
<1>18. CASE DropMap
    BY <1>18 DEF DropMap
<1>19. CASE UNCHANGED vars
    BY <1>19 DEF vars
<1> HIDE DEF Core
<1>20. QED
    BY <1>1, <1>2, <1>3, <1>4, <1>5, <1>6, <1>7, <1>8, <1>9, <1>10,
       <1>11, <1>12, <1>13, <1>14, <1>15, <1>16, <1>17, <1>18, <1>19
    DEF Next, TaskStep, SessionStep

\* Every step preserves what is known of the way packets go: only PassGate
\* chooses it, and only when nothing has been relayed.
LEMMA StepOneWay ==
    ASSUME TypeOK, OneWay, [Next]_vars
    PROVE  OneWay'
<1>t. /\ cmd \in [Task -> Packet \cup {"none", "dissociate", "reply"}]
      /\ pc \in [Task -> {"idle", "gate", "read", "get", "bind", "insert",
                          "send", "dissociate", "return", "reply", "done"}]
      /\ result \in [Task -> {"none", "refused", "sent", "dropped", "error",
                              "dissociated", "uni", "datagram"}]
    BY DEF TypeOK
<1> USE <1>t DEF OneWay, Relayed, Way, Packet, Goto, Finish
<1>1. ASSUME NEW t \in Task, NEW a \in Assoc,
             NEW c \in Packet \cup {"dissociate"}, AcceptCommand(t, a, c)
      PROVE  OneWay'
    BY <1>1 DEF AcceptCommand
<1>2. ASSUME NEW t \in Task, PassGate(t)
      PROVE  OneWay'
    BY <1>2 DEF PassGate, ModeAgrees
<1>3. ASSUME NEW t \in Task, LeaveGate(t) \/ ReadPayload(t)
      PROVE  OneWay'
    BY <1>3 DEF LeaveGate, ReadPayload
<1>4. ASSUME NEW t \in Task, Get(t) \/ Bind(t) \/ Insert(t) \/ Send(t)
      PROVE  OneWay'
  <2>1. CASE Get(t) \/ Insert(t)
    BY <2>1 DEF Get, Insert
  <2>2. CASE Bind(t)
    BY <2>2 DEF Bind
  <2>3. CASE Send(t)
    BY <2>3 DEF Send
  <2> QED BY <1>4, <2>1, <2>2, <2>3
<1>5. ASSUME NEW t \in Task, Dissociate(t) \/ Return(t)
      PROVE  OneWay'
    BY <1>5 DEF Dissociate, Return
<1>6. ASSUME NEW t \in Task, ListenReceived(t) \/ Reply(t)
      PROVE  OneWay'
    BY <1>6 DEF ListenReceived, Reply
<1>7. ASSUME UNCHANGED <<udp_packet_from, taskVars>>
      PROVE  OneWay'
    BY <1>7 DEF taskVars
<1>8. ASSUME NEW s \in Session,
             SessionStep(s) \/ SocketFails(s) \/ RecvFrom(s) \/ Forward(s)
      PROVE  UNCHANGED <<udp_packet_from, taskVars>>
    BY <1>8 DEF SessionStep, TakePacket, SendTo, SessionEnds, SocketFails,
       RecvFrom, Forward, Stop
<1>9. CASE Close \/ DropMap \/ UNCHANGED vars
    BY <1>7, <1>9 DEF Close, DropMap, vars, taskVars
<1> HIDE DEF OneWay
<1> QED
    BY <1>1, <1>2, <1>3, <1>4, <1>5, <1>6, <1>7, <1>8, <1>9
    DEF Next, TaskStep

\* The inductive invariant is one.
LEMMA StepInv == IInv /\ [Next]_vars => IInv'
  BY StepCore, StepOneWay DEF IInv, Core

\* The inductive invariant holds in every reachable state.
THEOREM Invariant == Spec => []IInv
<1>1. QED
    BY InitInv, StepInv, PTL DEF Spec

\* The UDP relay keeps its types: in particular no channel of capacity one
\* ever holds two packets.
THEOREM TypeCorrect == Spec => []TypeOK
<1>1. IInv => TypeOK
    BY DEF IInv, Core
<1>2. QED
    BY Invariant, <1>1, PTL

\* check().unwrap() never meets None.
THEOREM UnwrapModeSafe == Spec => []ModeKnown
<1>1. IInv => ModeKnown
    BY DEF IInv, Core, ModeFirst, ModeKnown
<1>2. QED
    BY Invariant, <1>1, PTL

\* UdpSessionMap::send loses a packet only to a session whose socket failed.
THEOREM DropsSafe == Spec => []DropsOnlyOnFailure
<1>1. IInv => DropsOnlyOnFailure
    BY DEF IInv, Core, TypeOK, Holding, OutOfReach, HasSender,
           DropsOnlyOnFailure
<1>2. QED
    BY Invariant, <1>1, PTL

\* All packets of a connection go the same way.
THEOREM RelayModeSafe == Spec => []OneRelayMode
<1>1. IInv => OneRelayMode
    BY DEF IInv, OneWay, OneRelayMode
<1>2. QED
    BY Invariant, <1>1, PTL

-----------------------------------------------------------------------------
(***************************************************************************)
(* The relay implements the table of SessionTable.                         *)
(***************************************************************************)

\* The empty relay is the empty table.
LEMMA InitTable == Init => Table!TableInit
  BY DEF Init, Owned, Table!TableInit

\* A connection that nobody owns gets no owner: there are no listeners to
\* spawn a task, and no task is left.
LEMMA UnownedStays ==
    ASSUME [Next]_vars, ~Owned
    PROVE  /\ ~Owned'
           /\ \/ \E s \in Session : SocketFails(s) \/ SessionEnds(s)
              \/ DropMap
              \/ UNCHANGED <<map, session, owner>>
<1>1. closed /\ \A t \in Task : pc[t] \in {"idle", "done"}
    BY DEF Owned
<1>2. ASSUME NEW t \in Task
      PROVE  /\ \A a \in Assoc, c \in Packet \cup {"dissociate"} :
                   ~AcceptCommand(t, a, c)
             /\ ~PassGate(t) /\ ~LeaveGate(t) /\ ~ReadPayload(t)
             /\ ~ListenReceived(t) /\ ~TaskStep(t)
    BY <1>1 DEF AcceptCommand, PassGate, LeaveGate, ReadPayload,
       ListenReceived, TaskStep, Get, Bind, Insert, Send, Dissociate, Return,
       Reply
<1>3. ASSUME UNCHANGED <<pc, closed>> PROVE ~Owned'
    BY <1>1, <1>3 DEF Owned
<1>4. ASSUME NEW s \in Session,
             SessionStep(s) \/ SocketFails(s) \/ RecvFrom(s) \/ Forward(s)
      PROVE  /\ UNCHANGED <<pc, closed>>
             /\ \/ SocketFails(s) \/ SessionEnds(s)
                \/ UNCHANGED <<map, session, owner>>
    BY <1>4 DEF SessionStep, TakePacket, SendTo, SessionEnds, SocketFails,
       RecvFrom, Forward, Stop, taskVars
<1>5. CASE DropMap
    BY <1>3, <1>5 DEF DropMap, taskVars
<1>6. CASE UNCHANGED vars
    BY <1>3, <1>6 DEF vars
<1>7. ~Close
    BY <1>1 DEF Close
<1> QED
    BY <1>2, <1>3, <1>4, <1>5, <1>6, <1>7, ZenonT(30) DEF Next

\* A step that leaves the table alone is a stutter of it, or the end of the
\* last owner.
LEMMA TableAlone ==
    ASSUME UNCHANGED <<map, session, owner>>, ~Owned => ~Owned'
    PROVE  [Table!TableNext]_(Table!tableVars)
  BY DEF Table!TableNext, Table!Shut, Table!tableVars

\* Every step of a task, of a session and of the connection is a step of the
\* table, or leaves it alone.
LEMMA StepTable == IInv /\ [Next]_vars => [Table!TableNext]_(Table!tableVars)
<1> SUFFICES ASSUME IInv, [Next]_vars
             PROVE  [Table!TableNext]_(Table!tableVars)
    OBVIOUS
<1>0. ~Owned => ~Owned'
    BY UnownedStays
<1>1. ASSUME NEW t \in Task, NEW a \in Assoc,
             NEW c \in Packet \cup {"dissociate"}, AcceptCommand(t, a, c)
      PROVE  UNCHANGED <<map, session, owner>>
    BY <1>1 DEF AcceptCommand, sessionVars
<1>2. ASSUME NEW t \in Task,
             \/ PassGate(t) \/ LeaveGate(t) \/ ReadPayload(t) \/ Get(t)
             \/ Send(t) \/ Return(t) \/ ListenReceived(t) \/ Reply(t)
      PROVE  UNCHANGED <<map, session, owner>>
    BY <1>2 DEF PassGate, LeaveGate, ReadPayload, Get, Send, Return,
                ListenReceived, Reply, sessionVars
<1>3. ASSUME NEW t \in Task, pc[t] \notin {"idle", "done"}
      PROVE  Owned
    BY <1>3 DEF Owned
<1>4. ASSUME NEW t \in Task, Bind(t)
      PROVE  [Table!TableNext]_(Table!tableVars)
  <2>1. CASE UNCHANGED <<session, owner>>
    BY <1>0, <1>4, <2>1, TableAlone DEF Bind
  <2>2. CASE ~UNCHANGED <<session, owner>>
    <3>1. PICK s \in Session : /\ session[s] = "unused"
                               /\ session' = [session EXCEPT ![s] = "live"]
                               /\ owner' = [owner EXCEPT ![s] = assoc_id[t]]
                               /\ Goto(t, "insert")
      BY <1>4, <2>2 DEF Bind
    <3>2. assoc_id[t] \in Assoc /\ Owned /\ UNCHANGED map
      BY <1>3, <1>4 DEF Bind, IInv, Core, Holding
    <3>3. Owned'
      BY <3>1 DEF Goto, Owned, IInv, Core, TypeOK
    <3>4. Table!Open(s, assoc_id[t])
      BY <3>1, <3>2 DEF Table!Open
    <3> QED BY <3>2, <3>3, <3>4 DEF Table!TableNext, Table!Use
  <2> QED BY <2>1, <2>2
<1>5. ASSUME NEW t \in Task, Insert(t)
      PROVE  Table!TableNext
  <2>1. /\ send_pkt_tx[t] \in Session /\ assoc_id[t] \in Assoc
        /\ owner[send_pkt_tx[t]] = assoc_id[t]
        /\ session[send_pkt_tx[t]] \in {"live", "failed"}
    BY <1>5
    DEF Insert, IInv, Core, TypeOK, Holding, OutOfReach, OwnSession, HasSender
  <2>2. Table!Enter(assoc_id[t], send_pkt_tx[t])
    BY <1>5, <2>1 DEF Insert, sessionVars, Table!Enter
  <2>3. Owned /\ Owned'
    BY <1>3, <1>5 DEF Insert, Goto, Owned, IInv, Core, TypeOK
  <2>4. QED
    BY <2>1, <2>2, <2>3 DEF Table!TableNext, Table!Use
<1>6. ASSUME NEW t \in Task, Dissociate(t)
      PROVE  Table!TableNext
  <2>1. assoc_id[t] \in Assoc /\ Table!Remove(assoc_id[t])
    BY <1>6 DEF Dissociate, IInv, Core, Holding, sessionVars, Table!Remove
  <2>2. Owned /\ Owned'
    BY <1>3, <1>6 DEF Dissociate, Goto, Owned, IInv, Core, TypeOK
  <2>3. QED
    BY <2>1, <2>2 DEF Table!TableNext, Table!Use
<1>7. ASSUME NEW s \in Session,
             TakePacket(s) \/ SendTo(s) \/ RecvFrom(s) \/ Forward(s)
      PROVE  UNCHANGED <<map, session, owner>>
    BY <1>7 DEF TakePacket, SendTo, RecvFrom, Forward
<1>8. ASSUME NEW s \in Session, SocketFails(s) \/ SessionEnds(s)
      PROVE  Table!TableNext
  <2>1. Owned' = Owned
    BY <1>8 DEF SocketFails, SessionEnds, Stop, taskVars, Owned
  <2>2. Table!Fail(s) \/ Table!Release(s)
    BY <1>8 DEF SocketFails, SessionEnds, Stop, HasSender, Table!Fail,
                Table!Release, Table!InTable
  <2> QED BY <2>1, <2>2 DEF Table!TableNext, Table!SessionStep
<1>9. CASE DropMap
  <2>1. ~Owned /\ Table!Drop
    BY <1>9 DEF DropMap, sessionVars, Table!Drop
  <2> QED BY <1>0, <2>1 DEF Table!TableNext, Table!DropTable
<1>10. CASE Close \/ UNCHANGED vars
    BY <1>0, <1>10, TableAlone DEF Close, vars
<1> HIDE DEF IInv
<1>11. QED
    BY <1>0, <1>1, <1>2, <1>4, <1>5, <1>6, <1>7, <1>8, <1>9, <1>10, TableAlone
    DEF Next, TaskStep, SessionStep

\* The sessions, channels and tasks of the UDP relay implement the abstract
\* table, for any number of associations, sessions and tasks: an entry is of
\* the ID's own session, no socket is released while the table leads to it,
\* and the table is used only while somebody owns the connection, tasks at the
\* gate included, and is dropped as a whole only when nobody does.  (That
\* sockets are released in the end is left to TLC.)
THEOREM TableRefined ==
    Spec => Table!TableInit /\ [][Table!TableNext]_(Table!tableVars)
<1>1. QED
    BY Invariant, InitTable, StepTable, PTL DEF Spec
=============================================================================
