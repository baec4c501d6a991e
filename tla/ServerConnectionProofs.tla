----------------------- MODULE ServerConnectionProofs -----------------------
(***************************************************************************)
(* Proofs about ServerConnection, for any set of tasks and any arrivals,   *)
(* and about Server, which composes it with the session table.             *)
(***************************************************************************)
EXTENDS Server, TLAPS

Authenticate == [chan |-> "uni", cmd |-> "authenticate"]

\* A task that has a result is past its handler, one that was not spawned has
\* no item, and one at the gate has a command that is to go through it.
Progress ==
    \A t \in Task : /\ result[t] # "none" => pc[t] \in {"fail", "done"}
                    /\ pc[t] = "fail" => result[t] \in DispatchError
                    /\ IF pc[t] = "idle" THEN item[t] = NoItem
                                         ELSE item[t] \in Arrivals
                    /\ pc[t] \in {"poll", "load", "push", "pending",
                                  "dispatch"}
                          => /\ AfterRead(item[t]) = "poll"
                             /\ item[t].cmd # "malformed"

\* Why the authentication flag can be trusted.
FlagTrusted ==
    /\ \A t \in Task : pc[t] \in {"store", "wake"} => item[t] = Authenticate
    /\ is_authenticated => TokenReceived
    /\ \A t \in Task :
          pc[t] \in {"wake", "dispatch"} \/ result[t] \in {"ok", "bad_command"}
              => is_authenticated

\* The connection is closed before anyone is told that it is.
ClosedFirst ==
    /\ is_closed => controller # "open"
    /\ pc[Handle] \in {"expire_wake", "close"} => controller # "open"

\* Each error a task returned has its reason, or came too late to matter.
ErrorsExplained ==
    \A t \in Task :
        /\ result[t] = "auth_timeout" => controller # "open"
        /\ pc[t] \in {"reject", "reject_wake"} \/ result[t] = "auth_failed"
              => AfterRead(item[t]) = "reject"
        /\ result[t] = "protocol"
              => item[t].cmd = "malformed" \/ controller # "open"
        /\ result[t] = "bad_command"
              => Misplaced(item[t]) \/ WrongMode(item[t])

\* A task that refused a token has closed the connection before it returns.
FailedIsClosed ==
    \A t \in Task :
        pc[t] = "reject_wake" \/ result[t] = "auth_failed"
            => controller # "open"

\* A relayed packet came the way UdpPacketFrom says.
ModeBacked ==
    \A t \in Task : item[t].cmd = "packet" /\ result[t] = "ok"
                        => item[t].chan = udp_packet_from

IInv ==
    /\ TypeOK
    /\ Progress
    /\ FlagTrusted
    /\ ClosedFirst
    /\ ErrorsExplained
    /\ FailedIsClosed
    /\ ModeBacked
-----------------------------------------------------------------------------
\* The initial state satisfies the inductive invariant: nothing was accepted
\* and nobody has a result.
LEMMA InitInv == Init => IInv
  BY ConnectionAssumption, ZenonT(90)
  DEF Init, IInv, TypeOK, Progress, FlagTrusted, ClosedFirst, ErrorsExplained,
      FailedIsClosed, ModeBacked, TokenReceived, Waiter, TaskPC, HandlePC,
      DispatchError, NoItem

\* Every step of the handle task, of a spawned task, of the timer and of the
\* peer preserves the inductive invariant.
LEMMA StepInv == IInv /\ [Next]_vars => IInv'
<1> SUFFICES ASSUME IInv, [Next]_vars PROVE IInv'
    OBVIOUS
<1> USE ConnectionAssumption
    DEF IInv, TypeOK, Progress, FlagTrusted, ClosedFirst, ErrorsExplained,
        FailedIsClosed, ModeBacked, TokenReceived, Waiter, TaskPC,
        HandlePC, DispatchError, WrongMode
<1>1. ASSUME NEW t \in Task, NEW i \in Arrivals, Accept(t, i)
      PROVE  IInv'
  <2>1. (TypeOK /\ Progress /\ ClosedFirst /\ FailedIsClosed /\ ModeBacked)'
    <3> HIDE DEF FlagTrusted, ErrorsExplained
    <3> QED BY <1>1, SMTT(60)
            DEF Accept, Goto, NoItem, Item
  <2>2. (FlagTrusted /\ ErrorsExplained)'
    <3> HIDE DEF ModeBacked, ClosedFirst
    <3> QED BY <1>1, SMTT(60)
            DEF Accept, Goto, NoItem, AfterRead, Misplaced, IsPacket
  <2> QED BY <2>1, <2>2, Zenon
<1>2. ASSUME NEW t \in Task, ReadCommand(t)
      PROVE  IInv'
    BY <1>2, SMTT(60)
    DEF ReadCommand, AfterRead, Return, Goto, Authenticate
<1>3. ASSUME NEW t \in Task, SetAuthenticated(t)
      PROVE  IInv'
    BY <1>3, SMTT(60) DEF SetAuthenticated, Goto, Authenticate
<1>4. ASSUME NEW t \in Task, Wake(t)
      PROVE  IInv'
    BY <1>4, SMTT(60) DEF Wake, Woken, Authenticate
<1>5. ASSUME NEW t \in Task, Reject(t)
      PROVE  IInv'
    BY <1>5, SMTT(60) DEF Reject, Close, Goto
<1>6. ASSUME NEW t \in Task, RejectWake(t)
      PROVE  IInv'
    BY <1>6, SMTT(60) DEF RejectWake, Woken
<1>7. ASSUME NEW t \in Task, Dispatch(t)
      PROVE  IInv'
  <2>1. (TypeOK /\ Progress /\ ClosedFirst /\ FailedIsClosed /\ FlagTrusted)'
    <3> HIDE DEF ErrorsExplained, ModeBacked
    <3> QED BY <1>7, SMTT(60)
            DEF Dispatch, Return, Goto, IsPacket, AfterRead, Authenticate,
                Channel
  <2>2. (ErrorsExplained /\ ModeBacked)'
    <3> HIDE DEF FlagTrusted, ClosedFirst
    <3> QED BY <1>7, SMTT(60)
            DEF Dispatch, ModeAgrees, Return, Goto, Accepted, IsPacket,
                Misplaced, Item, NoItem, Channel, Command
  <2> QED BY <2>1, <2>2, Zenon
<1>8. ASSUME NEW t \in Task, ReportError(t)
      PROVE  IInv'
    BY <1>8, SMTT(60) DEF ReportError, Close, Goto
<1>9. ASSUME NEW w \in Waiter, PollClosed(w)
      PROVE  IInv'
    BY <1>9, SMTT(60) DEF PollClosed, Return, Goto
<1>10. ASSUME NEW w \in Waiter, PollLoad(w)
      PROVE  IInv'
    BY <1>10, SMTT(60) DEF PollLoad, AfterLoad, Goto
<1>11. ASSUME NEW w \in Waiter, PollPush(w)
      PROVE  IInv'
    BY <1>11, SMTT(60) DEF PollPush, Goto
<1>12. CASE Expire
    BY <1>12, SMTT(60) DEF Expire, Close, Goto
<1>13. CASE ExpireWake
    BY <1>13, SMTT(60) DEF ExpireWake, Woken
<1>14. CASE ListenerEnds
    BY <1>14, SMTT(60) DEF ListenerEnds, Goto
<1>15. CASE SetClosed
    BY <1>15, SMTT(60) DEF SetClosed, Goto
<1>16. CASE Repoll
    BY <1>16, SMTT(60) DEF Repoll, Goto
<1>17. CASE TimerFires
    BY <1>17, SMTT(60) DEF TimerFires, Goto
<1>18. CASE PeerCloses
    BY <1>18, SMTT(60) DEF PeerCloses
<1>19. CASE UNCHANGED vars
    BY <1>19, SMTT(60) DEF vars
<1>20. QED
    BY <1>1, <1>2, <1>3, <1>4, <1>5, <1>6, <1>7, <1>8, <1>9, <1>10,
       <1>11, <1>12, <1>13, <1>14, <1>15, <1>16, <1>17, <1>18, <1>19,
       ZenonT(40)
    DEF Next, TaskStep, HandleStep

\* The inductive invariant holds in every reachable state.
THEOREM Invariant == Spec => []IInv
<1>1. QED
    BY InitInv, StepInv, PTL DEF Spec

\* The state of a server connection keeps its types.
THEOREM TypeCorrect == Spec => []TypeOK
<1>1. IInv => TypeOK
    BY DEF IInv
<1>2. QED
    BY Invariant, <1>1, PTL

\* No command is matched, and so nothing is relayed, before a task received a
\* valid token: for any number of streams and datagrams racing at the gate.
THEOREM GateSafe == Spec => []NothingBeforeAuthentication
<1>1. IInv => NothingBeforeAuthentication
    BY DEF IInv, FlagTrusted, NothingBeforeAuthentication
<1>2. QED
    BY Invariant, <1>1, PTL

\* Only five steps close the connection, and only the first close counts: of
\* the steps that may be the first, each has the cause its code names.
LEMMA StepCause ==
    ASSUME IInv, [Next]_vars, controller = "open", controller' \in DispatchError
    PROVE  \/ controller' = "auth_timeout" /\ expired /\ pc[Handle] # "authed"
           \/ \E t \in Task :
                 \/ /\ controller' = "auth_failed" /\ pc[t] = "reject"
                    /\ item[t] = [chan |-> "uni", cmd |-> "bad_authenticate"]
                 \/ /\ controller' = "protocol" /\ pc[t] = "fail"
                    /\ item[t].cmd = "malformed"
                 \/ /\ controller' = "bad_command" /\ pc[t] = "fail"
                    /\ Misplaced(item[t]) \/ WrongMode(item[t])
<1>1. controller' # controller
    BY DEF DispatchError
<1>2. CASE Expire
    BY <1>1, <1>2 DEF Expire, Close
<1>3. ASSUME NEW t \in Task, Reject(t)
      PROVE  /\ controller' = "auth_failed" /\ pc[t] = "reject"
             /\ item[t] = [chan |-> "uni", cmd |-> "bad_authenticate"]
  <2>1. pc[t] = "reject" /\ controller' = "auth_failed"
    BY <1>1, <1>3 DEF Reject, Close
  <2>2. AfterRead(item[t]) = "reject"
    BY <2>1 DEF IInv, ErrorsExplained
  <2> QED BY <2>1, <2>2 DEF AfterRead
<1>4. ASSUME NEW t \in Task, ReportError(t)
      PROVE  \/ /\ controller' = "auth_failed" /\ pc[t] = "reject"
                /\ item[t] = [chan |-> "uni", cmd |-> "bad_authenticate"]
             \/ /\ controller' = "protocol" /\ pc[t] = "fail"
                /\ item[t].cmd = "malformed"
             \/ /\ controller' = "bad_command" /\ pc[t] = "fail"
                /\ Misplaced(item[t]) \/ WrongMode(item[t])
  <2>1. pc[t] = "fail" /\ controller' = result[t]
    BY <1>1, <1>4 DEF ReportError, Close
  <2>2. /\ result[t] \in DispatchError
        /\ result[t] # "auth_timeout"
        /\ result[t] = "protocol" => item[t].cmd = "malformed"
        /\ result[t] = "bad_command"
              => Misplaced(item[t]) \/ WrongMode(item[t])
    BY <2>1 DEF IInv, Progress, ErrorsExplained
  <2>3. result[t] # "auth_failed"
    BY <2>1 DEF IInv, FailedIsClosed
  <2> QED BY <2>1, <2>2, <2>3 DEF DispatchError
<1>5. ASSUME NEW t \in Task, NEW i \in Arrivals, Accept(t, i)
      PROVE  FALSE
    BY <1>1, <1>5 DEF Accept
<1>6. ASSUME NEW t \in Task,
             \/ ReadCommand(t) \/ SetAuthenticated(t) \/ Wake(t)
             \/ RejectWake(t) \/ Dispatch(t)
      PROVE  FALSE
    BY <1>1, <1>6
    DEF ReadCommand, SetAuthenticated, Wake, RejectWake, Dispatch
<1>7. ASSUME NEW w, PollClosed(w) \/ PollLoad(w) \/ PollPush(w)
      PROVE  FALSE
    BY <1>1, <1>7 DEF PollClosed, PollLoad, PollPush
<1>8. ASSUME \/ ExpireWake \/ ListenerEnds \/ SetClosed \/ Repoll
             \/ TimerFires \/ PeerCloses \/ UNCHANGED vars
      PROVE  FALSE
    BY <1>1, <1>8 DEF ExpireWake, ListenerEnds, SetClosed, Repoll, TimerFires,
       PeerCloses, DispatchError, vars
<1> QED
    BY <1>2, <1>3, <1>4, <1>5, <1>6, <1>7, <1>8, ZenonT(40)
    DEF Next, TaskStep, HandleStep

\* The close that takes effect is made by the actor that has the cause,
\* although tasks whose stream died with the connection call close() too.
THEOREM CloseCodeSafe == Spec => CloseCodeExplained
<1>1. ASSUME IInv, [Next]_vars
      PROVE  [(controller = "open" /\ controller' \in DispatchError) =>
          \/ controller' = "auth_timeout" /\ expired /\ pc[Handle] # "authed"
          \/ \E t \in Task :
                \/ /\ controller' = "auth_failed" /\ pc[t] = "reject"
                   /\ item[t] = [chan |-> "uni", cmd |-> "bad_authenticate"]
                \/ /\ controller' = "protocol" /\ pc[t] = "fail"
                   /\ item[t].cmd = "malformed"
                \/ /\ controller' = "bad_command" /\ pc[t] = "fail"
                   /\ Misplaced(item[t]) \/ WrongMode(item[t])]_vars
    BY <1>1, StepCause, Zenon
<1> QED BY Invariant, <1>1, PTL DEF Spec, CloseCodeExplained

-----------------------------------------------------------------------------
(***************************************************************************)
(* The connection implements the gate of AuthGate.                         *)
(***************************************************************************)

\* A step that takes no task to another place, and opens nothing, is a stutter
\* of the gate or the loss of the connection.
LEMMA SamePlaces ==
    ASSUME UNCHANGED is_authenticated,
           controller # "open" => controller' # "open",
           \A t \in Task : Place(t)' = Place(t)
    PROVE  [Gate!GateNext]_(Gate!gateVars)
  BY DEF Gate!GateNext, Gate!gateVars, Gate!Lose

\* A step that takes one task from outside to inside an open gate, or away
\* from the gate of a connection that is over, is a step of the gate.
LEMMA OneMoves ==
    ASSUME NEW t \in Task, NEW to,
           UNCHANGED <<is_authenticated, controller>>,
           Place(t) = "outside", Place(t)' = to,
           \/ to = "inside" /\ is_authenticated
           \/ to = "refused" /\ controller # "open",
           \A u \in Task \ {t} : Place(u)' = Place(u)
    PROVE  Gate!GateNext
  BY ZenonT(40) DEF Gate!GateNext, Gate!Pass, Gate!Refuse, Gate!Move

\* Nobody is past the gate initially.
LEMMA InitGate == Init => Gate!GateInit
  BY ConnectionAssumption DEF Init, Gate!GateInit, Place, Waiter

\* Every step of the connection is a step of the gate or leaves it alone.
LEMMA StepGate == IInv /\ [Next]_vars => [Gate!GateNext]_(Gate!gateVars)
<1> SUFFICES ASSUME IInv, [Next]_vars
             PROVE  [Gate!GateNext]_(Gate!gateVars)
    OBVIOUS
<1> USE ConnectionAssumption
    DEF IInv, TypeOK, Progress, FlagTrusted, ClosedFirst, Waiter, TaskPC,
        HandlePC, DispatchError, Place
<1>1. ASSUME NEW t \in Task, NEW i \in Arrivals, Accept(t, i)
      PROVE  [Gate!GateNext]_(Gate!gateVars)
    BY <1>1, SamePlaces DEF Accept, Goto
<1>2. ASSUME NEW t \in Task, ReadCommand(t)
      PROVE  [Gate!GateNext]_(Gate!gateVars)
    BY <1>2, SamePlaces DEF ReadCommand, AfterRead, Return, Goto
<1>3. ASSUME NEW t \in Task, SetAuthenticated(t)
      PROVE  [Gate!GateNext]_(Gate!gateVars)
  <2>1. \A u \in Task : Place(u)' = Place(u)
    BY <1>3 DEF SetAuthenticated, Goto
  <2>2. QED
    BY <1>3, <2>1 DEF SetAuthenticated, Gate!GateNext, Gate!Authenticate
<1>4. ASSUME NEW t \in Task, Wake(t)
      PROVE  [Gate!GateNext]_(Gate!gateVars)
    BY <1>4, OneMoves DEF Wake, Woken
<1>5. ASSUME NEW t \in Task, Reject(t)
      PROVE  [Gate!GateNext]_(Gate!gateVars)
    BY <1>5, SamePlaces DEF Reject, Close, Goto
<1>6. ASSUME NEW t \in Task, RejectWake(t)
      PROVE  [Gate!GateNext]_(Gate!gateVars)
    BY <1>6, SamePlaces DEF RejectWake, Woken
<1>7. ASSUME NEW t \in Task, Dispatch(t)
      PROVE  [Gate!GateNext]_(Gate!gateVars)
    BY <1>7, SamePlaces DEF Dispatch, Return, Goto
<1>8. ASSUME NEW t \in Task, ReportError(t)
      PROVE  [Gate!GateNext]_(Gate!gateVars)
    BY <1>8, SamePlaces DEF ReportError, Close, Goto
<1>9. ASSUME NEW w \in Waiter, PollClosed(w)
      PROVE  [Gate!GateNext]_(Gate!gateVars)
  <2>1. CASE is_closed /\ w \in Task
    BY <1>9, <2>1, OneMoves DEF PollClosed, Return, Goto
  <2>2. CASE ~(is_closed /\ w \in Task)
    BY <1>9, <2>2, SamePlaces DEF PollClosed, Goto
  <2>3. QED
    BY <2>1, <2>2
<1>10. ASSUME NEW w \in Waiter, PollLoad(w)
      PROVE  [Gate!GateNext]_(Gate!gateVars)
  <2>1. CASE is_authenticated /\ w \in Task
    BY <1>10, <2>1, OneMoves DEF PollLoad, AfterLoad, Goto
  <2>2. CASE ~(is_authenticated /\ w \in Task)
    BY <1>10, <2>2, SamePlaces DEF PollLoad, AfterLoad, Goto
  <2>3. QED
    BY <2>1, <2>2
<1>11. ASSUME NEW w \in Waiter, PollPush(w)
      PROVE  [Gate!GateNext]_(Gate!gateVars)
    BY <1>11, SamePlaces DEF PollPush, Goto
<1>12. CASE Expire
    BY <1>12, SamePlaces DEF Expire, Close, Goto
<1>13. CASE ExpireWake
    BY <1>13, SamePlaces DEF ExpireWake, Woken
<1>14. CASE ListenerEnds
    BY <1>14, SamePlaces DEF ListenerEnds, Goto
<1>15. CASE SetClosed
    BY <1>15, SamePlaces DEF SetClosed, Goto
<1>16. CASE Repoll
    BY <1>16, SamePlaces DEF Repoll, Goto
<1>17. CASE TimerFires
    BY <1>17, SamePlaces DEF TimerFires, Goto
<1>18. CASE PeerCloses
    BY <1>18, SamePlaces DEF PeerCloses
<1>19. CASE UNCHANGED vars
    BY <1>19, SamePlaces DEF vars
<1> HIDE DEF IInv, Place
<1>20. QED
    BY <1>1, <1>2, <1>3, <1>4, <1>5, <1>6, <1>7, <1>8, <1>9, <1>10,
       <1>11, <1>12, <1>13, <1>14, <1>15, <1>16, <1>17, <1>18, <1>19
    DEF Next, TaskStep, HandleStep

\* The flags, wakers and polls of a connection implement the abstract gate,
\* for any number of tasks and any arrivals: whatever holds of AuthGate holds
\* of the code's IsAuthenticated.
THEOREM GateRefined == Spec => ImplementsGate
<1>1. QED
    BY Invariant, InitGate, StepGate, PTL
    DEF Spec, ImplementsGate, Gate!GateSpec

-----------------------------------------------------------------------------
(***************************************************************************)
(* The composition with the session table.                                 *)
(***************************************************************************)

\* A step of the server is a step of its connection, or leaves it alone: what
\* is proved of ServerConnection holds of Server.
LEMMA ServerStepIsStep == [ServerNext]_serverVars => [Next]_vars
<1> SUFFICES ASSUME [ServerNext]_serverVars PROVE [Next]_vars
    OBVIOUS
<1>1. CASE GateStep
    BY <1>1 DEF GateStep, Next, TaskStep, HandleStep
<1>2. CASE HandleReturns
    BY <1>2, SMTT(20) DEF HandleReturns, Next, HandleStep
<1>3. ASSUME NEW t \in Task, BeginRelay(t)
      PROVE  [Next]_vars
    BY <1>3 DEF BeginRelay, Next, TaskStep
<1>4. ASSUME NEW t \in Task, RelayStep(t)
      PROVE  [Next]_vars
    BY <1>4 DEF RelayStep
<1>5. ASSUME NEW t \in Task, EndRelay(t)
      PROVE  [Next]_vars
    BY <1>5 DEF EndRelay
<1>6. ASSUME NEW s \in Session, SessionStep(s)
      PROVE  [Next]_vars
    BY <1>6 DEF SessionStep
<1>7. CASE DropConnection
    BY <1>7 DEF DropConnection
<1>8. CASE UNCHANGED serverVars
    BY <1>8, SMTT(20) DEF serverVars
<1> QED
    BY <1>1, <1>2, <1>3, <1>4, <1>5, <1>6, <1>7, <1>8 DEF ServerNext

\* The authentication flag is never taken back.
LEMMA FlagStays == is_authenticated /\ [Next]_vars => is_authenticated'
<1> SUFFICES ASSUME is_authenticated, [Next]_vars PROVE is_authenticated'
    OBVIOUS
<1> QED
    BY ZenonT(40)
       DEF Next, TaskStep, HandleStep, vars, Accept, ReadCommand,
       PollClosed, PollLoad, PollPush, SetAuthenticated, Wake, Reject,
       RejectWake, Dispatch, ReportError, Expire, ExpireWake,
       ListenerEnds, SetClosed, Repoll, TimerFires, PeerCloses

\* The relay mode, once chosen, stays chosen.
LEMMA ModeStays ==
    udp_packet_from # "none" /\ IInv /\ [Next]_vars => udp_packet_from' # "none"
<1> SUFFICES ASSUME udp_packet_from # "none", IInv, [Next]_vars
             PROVE  udp_packet_from' # "none"
    OBVIOUS
<1>1. ASSUME NEW t \in Task, Dispatch(t)
      PROVE  udp_packet_from' # "none"
    BY <1>1 DEF Dispatch, IsPacket
<1>2. CASE \A t \in Task : ~Dispatch(t)
    BY <1>2, ZenonT(40)
       DEF Next, TaskStep, HandleStep, vars, Accept, ReadCommand,
       PollClosed, PollLoad, PollPush, SetAuthenticated, Wake, Reject,
       RejectWake, ReportError, Expire, ExpireWake,
       ListenerEnds, SetClosed, Repoll, TimerFires, PeerCloses
<1> QED BY <1>1, <1>2

\* A task whose handler returned Ok keeps its command and its result.
LEMMA OkStays ==
    ASSUME IInv, [Next]_vars, NEW t \in Task, result[t] = "ok"
    PROVE  result'[t] = "ok" /\ item'[t] = item[t]
<1>1. /\ pc[t] \in {"fail", "done"}
      /\ result \in [Task -> DispatchError \cup {"none", "ok"}]
      /\ item \in [Task -> Arrivals \cup {NoItem}]
    BY DEF IInv, TypeOK, Progress
<1>2. ASSUME NEW u \in Task, NEW i \in Arrivals, Accept(u, i)
      PROVE  UNCHANGED result /\ item'[t] = item[t]
    BY <1>1, <1>2 DEF Accept
<1>3. ASSUME NEW u \in Task,
             ReadCommand(u) \/ Wake(u) \/ RejectWake(u) \/ Dispatch(u)
      PROVE  UNCHANGED item /\ result'[t] = result[t]
    BY <1>1, <1>3 DEF ReadCommand, Wake, RejectWake, Dispatch, Return
<1>4. ASSUME NEW w \in Waiter, PollClosed(w)
      PROVE  UNCHANGED item /\ result'[t] = result[t]
    BY <1>1, <1>4, ConnectionAssumption DEF PollClosed, Return, Waiter
<1>5. ASSUME NEW u \in Task, SetAuthenticated(u) \/ Reject(u) \/ ReportError(u)
      PROVE  UNCHANGED <<item, result>>
    BY <1>5 DEF SetAuthenticated, Reject, ReportError
<1>6. ASSUME NEW w \in Waiter, PollLoad(w) \/ PollPush(w)
      PROVE  UNCHANGED <<item, result>>
    BY <1>6 DEF PollLoad, PollPush
<1>7. ASSUME \/ Expire \/ ExpireWake \/ ListenerEnds \/ SetClosed
             \/ Repoll \/ TimerFires \/ PeerCloses \/ UNCHANGED vars
      PROVE  UNCHANGED <<item, result>>
    BY <1>7 DEF Expire, ExpireWake, ListenerEnds, SetClosed, Repoll,
                TimerFires, PeerCloses, vars
<1>8. UNCHANGED <<item, result>>
        \/ (item'[t] = item[t] /\ result'[t] = result[t])
    BY <1>2, <1>3, <1>4, <1>5, <1>6, <1>7, ZenonT(40)
    DEF Next, TaskStep, HandleStep, Waiter
<1> QED BY <1>8

\* A handler runs only in a task that was let through, and a socket was only
\* ever bound with the flag set and the relay mode chosen.
Guarded ==
    /\ \A t \in relaying : t \in Task /\ result[t] = "ok"
    /\ (\E s \in Session : socket[s] # "unused")
          => is_authenticated /\ udp_packet_from # "none"

\* Guarded is kept: only a task at "dispatch" begins a relay, and only the
\* relay of a Packet binds a socket.
LEMMA StepGuarded ==
    ASSUME IInv, Guarded, [ServerNext]_serverVars
    PROVE  Guarded'
<1>0. [Next]_vars
    BY ServerStepIsStep
<1>1. ASSUME relaying' \subseteq relaying
      PROVE  \A t \in relaying' : t \in Task /\ result'[t] = "ok"
    BY <1>0, <1>1, OkStays DEF Guarded
<1>2. ASSUME (\E s \in Session : socket'[s] # "unused")
                => \E s \in Session : socket[s] # "unused"
      PROVE  (\E s \in Session : socket'[s] # "unused")
                => is_authenticated' /\ udp_packet_from' # "none"
    BY <1>0, <1>2, FlagStays, ModeStays DEF Guarded
<1> HIDE DEF IInv
<1>3. CASE GateStep \/ HandleReturns \/ UNCHANGED serverVars
    <2>1. relaying' = relaying /\ socket' = socket
        BY <1>3 DEF GateStep, HandleReturns, serverVars, sessionVars
    <2> QED BY <1>1, <1>2, <2>1 DEF Guarded
<1>4. ASSUME NEW t \in Task, BeginRelay(t)
      PROVE  Guarded'
    <2>1. socket' = socket
        BY <1>4 DEF BeginRelay, sessionVars
    <2>2. \A u \in relaying' : u \in relaying \/ (u = t /\ result'[t] = "ok")
        BY <1>4 DEF BeginRelay
    <2>3. \A u \in relaying : u \in Task /\ result'[u] = "ok"
        BY <1>0, OkStays DEF Guarded
    <2> QED BY <1>2, <2>1, <2>2, <2>3 DEF Guarded
<1>5. ASSUME NEW t \in Task, RelayStep(t)
      PROVE  Guarded'
    <2>1. t \in relaying /\ relaying' = relaying /\ UNCHANGED vars
        BY <1>5 DEF RelayStep
    <2>2. result[t] = "ok" /\ is_authenticated
        BY <2>1 DEF Guarded, IInv, FlagTrusted
    <2>3. CASE item[t].cmd = "packet"
        <3>1. udp_packet_from # "none"
            <4>1. item[t].chan = udp_packet_from /\ item[t] \in Arrivals
                BY <2>2, <2>3 DEF IInv, Progress, ModeBacked
            <4> QED BY <4>1, ConnectionAssumption DEF Item, Channel
        <3> QED BY <1>1, <2>1, <2>2, <3>1 DEF Guarded, vars
    <2>4. CASE item[t].cmd # "packet"
        <3>1. socket' = socket
            BY <1>5, <2>4 DEF RelayStep, UdpTable!Remove
        <3> QED BY <1>1, <1>2, <2>1, <3>1 DEF Guarded
    <2> QED BY <2>3, <2>4
<1>6. ASSUME NEW t \in Task, EndRelay(t)
      PROVE  Guarded'
    <2>1. relaying' \subseteq relaying /\ socket' = socket
        BY <1>6 DEF EndRelay, sessionVars
    <2> QED BY <1>1, <1>2, <2>1 DEF Guarded
<1>7. ASSUME NEW s \in Session, SessionStep(s)
      PROVE  Guarded'
    <2>1. relaying' = relaying
        BY <1>7 DEF SessionStep
    <2>2. socket[s] # "unused"
        BY <1>7 DEF SessionStep, UdpTable!Fail, UdpTable!Release
    <2> QED BY <1>1, <1>2, <2>1, <2>2 DEF Guarded
<1>8. CASE DropConnection
    <2>1. relaying' = relaying /\ socket' = socket
        BY <1>8 DEF DropConnection, UdpTable!Drop
    <2> QED BY <1>1, <1>2, <2>1 DEF Guarded
<1> QED
    BY <1>3, <1>4, <1>5, <1>6, <1>7, <1>8 DEF ServerNext

\* A UDP socket is bound only on a connection that received a valid token and
\* knows its relay mode: the gate, the dispatch and the session table
\* together, for any number of tasks and sessions.
THEOREM SocketsSafe == ServerSpec => []SocketsAreAuthenticated
<1>1. ServerInit => IInv /\ Guarded
    BY InitInv DEF ServerInit, UdpTable!TableInit, Guarded
<1>2. IInv /\ Guarded /\ [ServerNext]_serverVars => (IInv /\ Guarded)'
    BY StepInv, ServerStepIsStep, StepGuarded
<1>3. IInv /\ Guarded => SocketsAreAuthenticated
    BY DEF IInv, FlagTrusted, Guarded, SocketsAreAuthenticated
<1> HIDE DEF IInv
<1> QED BY <1>1, <1>2, <1>3, PTL DEF ServerSpec

-----------------------------------------------------------------------------
(***************************************************************************)
(* The gate and the session table, each as it is inside the composition.   *)
(***************************************************************************)

\* What nobody owns is out of reach: the listeners are gone, so no task is
\* spawned, and no task is left that could do anything.
LEMMA UnownedStep ==
    ASSUME IInv, Guarded, Owners = {}, [ServerNext]_serverVars
    PROVE  /\ Owners' = {}
           /\ \/ \E s \in Session : SessionStep(s)
              \/ DropConnection
              \/ UNCHANGED sessionVars
<1>1. /\ pc[Handle] \in {"close", "done"} /\ relaying = {}
      /\ \A t \in Task : pc[t] \in {"idle", "done"}
    BY DEF Owners, Selects
<1>2. ASSUME NEW t \in Task
      PROVE  /\ ~ReadCommand(t) /\ ~PollClosed(t) /\ ~PollLoad(t)
             /\ ~PollPush(t) /\ ~SetAuthenticated(t) /\ ~Wake(t)
             /\ ~Reject(t) /\ ~RejectWake(t) /\ ~ReportError(t)
             /\ ~BeginRelay(t) /\ ~RelayStep(t) /\ ~EndRelay(t)
             /\ \A i \in Arrivals : ~Accept(t, i)
    BY <1>1 DEF ReadCommand, PollClosed, PollLoad, PollPush,
       SetAuthenticated, Wake, Reject, RejectWake, ReportError, BeginRelay,
       Dispatch, RelayStep, EndRelay, Accept, Selecting
<1>3. /\ ~PollClosed(Handle) /\ ~PollLoad(Handle) /\ ~PollPush(Handle)
      /\ ~Expire /\ ~ExpireWake /\ ~ListenerEnds /\ ~Repoll /\ ~TimerFires
    BY <1>1 DEF PollClosed, PollLoad, PollPush, Expire, ExpireWake,
       ListenerEnds, Selecting, Repoll, TimerFires
<1>4. ASSUME UNCHANGED <<pc, relaying>> PROVE Owners' = {}
    BY <1>1, <1>4 DEF Owners, Selects
<1>5. CASE GateStep
  <2>1. PeerCloses /\ UNCHANGED <<sessionVars, relaying>>
    BY <1>2, <1>3, <1>5, ZenonT(40) DEF GateStep
  <2> QED BY <1>4, <2>1 DEF PeerCloses
<1>6. CASE HandleReturns
  <2>1. pc'[Handle] = "done" /\ \A t \in Task : pc'[t] = pc[t]
    BY <1>6, ConnectionAssumption
    DEF HandleReturns, SetClosed, Goto, IInv, TypeOK, Waiter
  <2>2. UNCHANGED <<sessionVars, relaying>>
    BY <1>6 DEF HandleReturns
  <2> QED BY <1>1, <2>1, <2>2 DEF Owners, Selects
<1>7. ASSUME NEW s \in Session, SessionStep(s)
      PROVE  Owners' = {}
    BY <1>4, <1>7 DEF SessionStep, vars
<1>8. CASE DropConnection
    BY <1>4, <1>8 DEF DropConnection, vars
<1>9. CASE UNCHANGED serverVars
    BY <1>4, <1>9 DEF serverVars, vars, sessionVars
<1>10. \/ GateStep \/ HandleReturns \/ (\E s \in Session : SessionStep(s))
       \/ DropConnection \/ UNCHANGED serverVars
    BY <1>2, Zenon DEF ServerNext
<1> QED BY <1>5, <1>6, <1>7, <1>8, <1>9, <1>10

\* A step of the server is a step of the table, or leaves it alone, with the
\* last owner's end for the end of the connection.
LEMMA ServerStepTable ==
    ASSUME IInv, Guarded, [ServerNext]_serverVars
    PROVE  [UdpTable!TableNext]_(UdpTable!tableVars)
<1> HIDE DEF IInv, Guarded
<1>1. CASE Owners = {}
  <2>1. Owners' = {}
    BY <1>1, UnownedStep
  <2>2. ASSUME NEW s \in Session, SessionStep(s)
        PROVE  UdpTable!TableNext
    BY <1>1, <2>1, <2>2
    DEF SessionStep, UdpTable!TableNext, UdpTable!SessionStep
  <2>3. CASE DropConnection
    BY <1>1, <2>1, <2>3
    DEF DropConnection, UdpTable!TableNext, UdpTable!DropTable
  <2>4. CASE UNCHANGED sessionVars
    BY <1>1, <2>1, <2>4 DEF sessionVars, UdpTable!tableVars
  <2> QED BY <1>1, <2>2, <2>3, <2>4, UnownedStep
<1>2. CASE Owners # {}
  <2>1. ASSUME UNCHANGED sessionVars
        PROVE  [UdpTable!TableNext]_(UdpTable!tableVars)
    BY <1>2, <2>1 DEF sessionVars, UdpTable!tableVars, UdpTable!TableNext,
                      UdpTable!Shut
  <2>2. ASSUME UNCHANGED <<vars, relaying>>
        PROVE  Owners' = Owners
    BY <2>2 DEF vars, Owners, Selects
  <2>3. CASE GateStep \/ HandleReturns \/ UNCHANGED serverVars
    BY <2>1, <2>3 DEF GateStep, HandleReturns, serverVars, sessionVars
  <2>4. ASSUME NEW t \in Task, BeginRelay(t) \/ EndRelay(t)
        PROVE  UNCHANGED sessionVars
    BY <2>4 DEF BeginRelay, EndRelay
  <2>5. ASSUME NEW t \in Task, RelayStep(t)
        PROVE  UdpTable!TableNext
    <3>1. Owners' = Owners
        BY <2>2, <2>5 DEF RelayStep
    <3> QED BY <1>2, <2>5, <3>1 DEF RelayStep, UdpTable!TableNext, UdpTable!Use
  <2>6. ASSUME NEW s \in Session, SessionStep(s)
        PROVE  UdpTable!TableNext
    <3>1. Owners' = Owners
        BY <2>2, <2>6 DEF SessionStep
    <3> QED BY <2>6, <3>1
            DEF SessionStep, UdpTable!TableNext, UdpTable!SessionStep
  <2>7. ~DropConnection
    BY <1>2 DEF DropConnection
  <2> QED
    BY <2>1, <2>3, <2>4, <2>5, <2>6, <2>7 DEF ServerNext
<1> QED BY <1>1, <1>2

\* Inside a server connection the table keeps the promises of SessionTable: it
\* is used only by somebody who owns the connection, nobody becomes an owner
\* of a connection that has none, and only such a connection's table is
\* dropped as a whole.
THEOREM ServerTableRefined ==
    ServerSpec => /\ UdpTable!TableInit
                  /\ [][UdpTable!TableNext]_(UdpTable!tableVars)
<1>1. ServerInit => IInv /\ Guarded /\ UdpTable!TableInit
    BY InitInv DEF ServerInit, UdpTable!TableInit, Guarded
<1>2. IInv /\ Guarded /\ [ServerNext]_serverVars
        => (IInv /\ Guarded)' /\ [UdpTable!TableNext]_(UdpTable!tableVars)
    BY StepInv, ServerStepIsStep, StepGuarded, ServerStepTable
<1> HIDE DEF IInv, Guarded
<1> QED BY <1>1, <1>2, PTL DEF ServerSpec

\* The types of the table's variables, and of relaying.
TableTypeOK ==
    /\ table \in [Assoc -> Session \cup {None}]
    /\ socket \in [Session -> {"unused", "live", "ended", "failed"}]
    /\ owner \in [Session -> Assoc \cup {None}]
    /\ relaying \in SUBSET Task

\* Every step of the composition keeps the types of the table.
LEMMA StepTableType ==
    ASSUME TableTypeOK, [ServerNext]_serverVars
    PROVE  TableTypeOK'
<1>1. CASE GateStep \/ HandleReturns \/ UNCHANGED serverVars
    BY <1>1 DEF GateStep, HandleReturns, serverVars, sessionVars, TableTypeOK
<1>2. ASSUME NEW t \in Task, BeginRelay(t)
      PROVE  TableTypeOK'
    BY <1>2 DEF BeginRelay, sessionVars, TableTypeOK
<1>3. ASSUME NEW t \in Task, RelayStep(t)
      PROVE  TableTypeOK'
    <2>1. PICK a \in Assoc :
             \/ \E s \in Session : UdpTable!Open(s, a) \/ UdpTable!Enter(a, s)
             \/ UdpTable!Remove(a)
        BY <1>3 DEF RelayStep
    <2>2. relaying' = relaying
        BY <1>3 DEF RelayStep
    <2>3. ASSUME NEW s \in Session, UdpTable!Open(s, a)
          PROVE  TableTypeOK'
        BY <2>2, <2>3 DEF UdpTable!Open, TableTypeOK
    <2>4. ASSUME NEW s \in Session, UdpTable!Enter(a, s)
          PROVE  TableTypeOK'
        BY <2>2, <2>4 DEF UdpTable!Enter, TableTypeOK
    <2>5. CASE UdpTable!Remove(a)
        BY <2>2, <2>5 DEF UdpTable!Remove, TableTypeOK
    <2> QED BY <2>1, <2>3, <2>4, <2>5
<1>4. ASSUME NEW t \in Task, EndRelay(t)
      PROVE  TableTypeOK'
    BY <1>4 DEF EndRelay, sessionVars, TableTypeOK
<1>5. ASSUME NEW s \in Session, SessionStep(s)
      PROVE  TableTypeOK'
    BY <1>5 DEF SessionStep, UdpTable!Fail, UdpTable!Release, TableTypeOK
<1>6. CASE DropConnection
    BY <1>6 DEF DropConnection, UdpTable!Drop, TableTypeOK
<1> QED
    BY <1>1, <1>2, <1>3, <1>4, <1>5, <1>6 DEF ServerNext

\* Type correctness of the composition: the table maps IDs to sessions, each
\* session has one ID, and only tasks of the connection relay.
THEOREM ServerTypeCorrect == ServerSpec => []ServerTypeOK
<1>1. ServerInit => IInv /\ TableTypeOK
    BY InitInv DEF ServerInit, UdpTable!TableInit, TableTypeOK
<1>2. IInv /\ TableTypeOK /\ [ServerNext]_serverVars => (IInv /\ TableTypeOK)'
    BY StepInv, ServerStepIsStep, StepTableType
<1>3. IInv /\ TableTypeOK => ServerTypeOK
    BY DEF IInv, TableTypeOK, ServerTypeOK
<1> HIDE DEF IInv, TableTypeOK
<1> QED BY <1>1, <1>2, <1>3, PTL DEF ServerSpec

\* The gate keeps its promises inside the composition: whatever runs behind it,
\* a server connection takes no step that the gate would not take.
THEOREM ServerGateRefined == ServerSpec => ImplementsGate
<1>1. ServerInit => IInv /\ Gate!GateInit
    BY InitInv, InitGate DEF ServerInit
<1>2. IInv /\ [ServerNext]_serverVars
        => IInv' /\ [Gate!GateNext]_(Gate!gateVars)
    BY StepInv, ServerStepIsStep, StepGate
<1> HIDE DEF IInv
<1> QED BY <1>1, <1>2, PTL DEF ServerSpec, ImplementsGate, Gate!GateSpec

-----------------------------------------------------------------------------
(***************************************************************************)
(* Who sleeps, and who is left last.                                       *)
(***************************************************************************)

\* Whoever sleeps in IsAuthenticated::poll has its waker in broadcast.
SleepersRegistered == \A w \in Waiter : pc[w] = "pending" => w \in broadcast

\* Connection::handle is over exactly when it has said so in is_closed.
HandleSaysSo == pc[Handle] = "done" <=> is_closed

\* Every step keeps what is known of the tasks that wait.
LEMMA StepWaiting ==
    ASSUME IInv, SleepersRegistered, HandleSaysSo, [Next]_vars
    PROVE  SleepersRegistered' /\ HandleSaysSo'
<1>t. /\ pc \in [Waiter -> TaskPC \cup HandlePC]
      /\ pc[Handle] \in HandlePC /\ \A t \in Task : pc[t] \in TaskPC
      /\ broadcast \subseteq Waiter /\ is_closed \in BOOLEAN
    BY DEF IInv, TypeOK
<1> USE <1>t, ConnectionAssumption
    DEF SleepersRegistered, HandleSaysSo, Waiter, TaskPC, HandlePC
<1>1. ASSUME NEW t \in Task, NEW i \in Arrivals, Accept(t, i)
      PROVE  SleepersRegistered' /\ HandleSaysSo'
    BY <1>1 DEF Accept, Goto
<1>2. ASSUME NEW t \in Task, ReadCommand(t)
      PROVE  SleepersRegistered' /\ HandleSaysSo'
    BY <1>2 DEF ReadCommand, AfterRead, Return, Goto
<1>3. ASSUME NEW t \in Task, SetAuthenticated(t) \/ Reject(t)
      PROVE  SleepersRegistered' /\ HandleSaysSo'
    BY <1>3 DEF SetAuthenticated, Reject, Goto
<1>4. ASSUME NEW t \in Task, Wake(t) \/ RejectWake(t)
      PROVE  SleepersRegistered' /\ HandleSaysSo'
    BY <1>4 DEF Wake, RejectWake, Woken
<1>5. ASSUME NEW t \in Task, Dispatch(t) \/ ReportError(t)
      PROVE  SleepersRegistered' /\ HandleSaysSo'
    BY <1>5 DEF Dispatch, ReportError, Return, Goto
<1>6. ASSUME NEW w \in Waiter, PollClosed(w)
      PROVE  SleepersRegistered' /\ HandleSaysSo'
    BY <1>6 DEF PollClosed, Return, Goto
<1>7. ASSUME NEW w \in Waiter, PollLoad(w)
      PROVE  SleepersRegistered' /\ HandleSaysSo'
    BY <1>7 DEF PollLoad, AfterLoad, Goto
<1>8. ASSUME NEW w \in Waiter, PollPush(w)
      PROVE  SleepersRegistered' /\ HandleSaysSo'
    BY <1>8 DEF PollPush, Goto
<1>9. CASE Expire \/ ListenerEnds \/ SetClosed \/ Repoll
    BY <1>9 DEF Expire, ListenerEnds, SetClosed, Repoll, Selecting, Goto
<1>10. CASE ExpireWake
    BY <1>10 DEF ExpireWake, Woken
<1>11. CASE TimerFires
    BY <1>11 DEF TimerFires, Goto
<1>12. CASE PeerCloses \/ UNCHANGED vars
    BY <1>12 DEF PeerCloses, vars
<1> HIDE DEF SleepersRegistered, HandleSaysSo
<1> QED
    BY <1>1, <1>2, <1>3, <1>4, <1>5, <1>6, <1>7, <1>8, <1>9, <1>10, <1>11,
       <1>12
    DEF Next, TaskStep, HandleStep

\* IsAuthenticated::wake() leaves nobody asleep, by whichever of its callers
\* and whenever it is called: draining broadcast reaches every task that
\* returned Pending.  Only a waker pushed later can miss it.
WakesEveryone ==
    [][(ExpireWake \/ \E t \in Task : Wake(t) \/ RejectWake(t))
          => \A w \in Waiter : pc'[w] # "pending"]_vars

\* The safety half of what a sleeping task relies on, for any number of tasks.
THEOREM WakesSafe == Spec => WakesEveryone
<1> DEFINE W == IInv /\ SleepersRegistered /\ HandleSaysSo
<1>1. Init => W
    BY ConnectionAssumption, InitInv
    DEF Init, SleepersRegistered, HandleSaysSo, Waiter
<1>2. W /\ [Next]_vars => W'
    BY StepInv, StepWaiting
<1>3. ASSUME W, ExpireWake \/ \E t \in Task : Wake(t) \/ RejectWake(t)
      PROVE  \A w \in Waiter : pc'[w] # "pending"
    BY <1>3 DEF SleepersRegistered, ExpireWake, Wake, RejectWake, Woken
<1>4. W /\ [Next]_vars
        => [(ExpireWake \/ \E t \in Task : Wake(t) \/ RejectWake(t))
               => \A w \in Waiter : pc'[w] # "pending"]_vars
    BY <1>3
<1> HIDE DEF W
<1> QED BY <1>1, <1>2, <1>4, PTL DEF Spec, WakesEveryone

\* The table that goes with the last owner is never that of a connection whose
\* peer could still use it.  (is_closed may not be set yet.)
LastOwnerIsLate == Owners = {} => controller # "open"

\* Ownership by itself keeps the table as long as the QUIC connection is open:
\* the select! of Connection::handle ends only once it is closed, and nobody
\* sets is_closed before.
THEOREM LastOwnerSafe == ServerSpec => []LastOwnerIsLate
<1> DEFINE W == IInv /\ SleepersRegistered /\ HandleSaysSo
<1>1. ServerInit => W
    BY ConnectionAssumption, InitInv
    DEF ServerInit, Init, SleepersRegistered, HandleSaysSo, Waiter
<1>2. W /\ [ServerNext]_serverVars => W'
    BY ServerStepIsStep, StepInv, StepWaiting
<1>3. W => LastOwnerIsLate
    BY DEF IInv, ClosedFirst, HandleSaysSo, Owners, Selects, LastOwnerIsLate
<1> HIDE DEF W
<1> QED BY <1>1, <1>2, <1>3, PTL DEF ServerSpec

-----------------------------------------------------------------------------
(***************************************************************************)
(* The connection that is never released.                                  *)
(***************************************************************************)

\* Connection::handle is over, nothing runs, and a task still sleeps at the
\* gate with its clone of the connection.
Abandoned ==
    /\ pc[Handle] = "done"
    /\ \A t \in Task : pc[t] \in {"idle", "pending", "done"}
    /\ \E t \in Task : pc[t] = "pending"
    /\ relaying = {}

\* There is no way out of it: no wake-up is left to come, so the table keeps
\* what it has, and a socket it leads to ends only by failing.
AbandonedForGood ==
    [][Abandoned =>
          /\ Abandoned'
          /\ UNCHANGED table
          /\ \A s \in Session :
                socket[s] = "live" /\ UdpTable!InTable(s)
                    => socket'[s] \in {"live", "failed"}]_serverVars

\* What is still possible then.
LEMMA StepAbandoned ==
    ASSUME IInv, TableTypeOK, Abandoned, [ServerNext]_serverVars
    PROVE  /\ Abandoned'
           /\ UNCHANGED table
           /\ \A s \in Session :
                 socket[s] = "live" /\ UdpTable!InTable(s)
                     => socket'[s] \in {"live", "failed"}
<1>1. /\ pc[Handle] = "done" /\ relaying = {}
      /\ \A t \in Task : pc[t] \in {"idle", "pending", "done"}
      /\ \E t \in Task : pc[t] = "pending"
    BY DEF Abandoned
<1>2. ASSUME NEW t \in Task
      PROVE  /\ ~ReadCommand(t) /\ ~PollClosed(t) /\ ~PollLoad(t)
             /\ ~PollPush(t) /\ ~SetAuthenticated(t) /\ ~Wake(t)
             /\ ~Reject(t) /\ ~RejectWake(t) /\ ~ReportError(t)
             /\ ~BeginRelay(t) /\ ~RelayStep(t) /\ ~EndRelay(t)
             /\ \A i \in Arrivals : ~Accept(t, i)
    BY <1>1 DEF ReadCommand, PollClosed, PollLoad, PollPush,
       SetAuthenticated, Wake, Reject, RejectWake, ReportError, BeginRelay,
       Dispatch, RelayStep, EndRelay, Accept, Selecting
<1>3. /\ ~PollClosed(Handle) /\ ~PollLoad(Handle) /\ ~PollPush(Handle)
      /\ ~Expire /\ ~ExpireWake /\ ~ListenerEnds /\ ~Repoll /\ ~TimerFires
      /\ ~HandleReturns
    BY <1>1 DEF PollClosed, PollLoad, PollPush, Expire, ExpireWake,
       ListenerEnds, Selecting, Repoll, TimerFires, HandleReturns, SetClosed
<1>4. ~DropConnection
    BY <1>1 DEF DropConnection, Owners, Waiter
<1>5. ASSUME UNCHANGED <<pc, relaying>> PROVE Abandoned'
    BY <1>1, <1>5 DEF Abandoned
<1>6. CASE GateStep
  <2>1. PeerCloses /\ UNCHANGED <<sessionVars, relaying>>
    BY <1>2, <1>3, <1>6, ZenonT(40) DEF GateStep
  <2> QED BY <1>5, <2>1 DEF PeerCloses, sessionVars
<1>7. ASSUME NEW s \in Session, SessionStep(s)
      PROVE  /\ UNCHANGED <<pc, relaying, table>>
             /\ \A r \in Session :
                   socket[r] = "live" /\ UdpTable!InTable(r)
                       => socket'[r] \in {"live", "failed"}
  <2>1. UNCHANGED <<pc, relaying>>
    BY <1>7 DEF SessionStep, vars
  <2>2. CASE UdpTable!Fail(s)
    BY <2>1, <2>2 DEF UdpTable!Fail, TableTypeOK
  <2>3. CASE UdpTable!Release(s)
    BY <2>1, <2>3 DEF UdpTable!Release, TableTypeOK
  <2> QED BY <1>7, <2>2, <2>3 DEF SessionStep
<1>8. CASE UNCHANGED serverVars
    BY <1>5, <1>8 DEF serverVars, vars
<1>9. GateStep \/ (\E s \in Session : SessionStep(s)) \/ UNCHANGED serverVars
    BY <1>2, <1>3, <1>4, Zenon DEF ServerNext
<1> QED BY <1>5, <1>6, <1>7, <1>8, <1>9

\* The sockets that ConnectionReleases misses stay open for as long as the
\* server runs.
THEOREM AbandonedSafe == ServerSpec => AbandonedForGood
<1> DEFINE W == IInv /\ TableTypeOK
<1>1. ServerInit => W
    BY InitInv DEF ServerInit, TableTypeOK, UdpTable!TableInit
<1>2. W /\ [ServerNext]_serverVars => W'
    BY ServerStepIsStep, StepInv, StepTableType
<1>3. W /\ [ServerNext]_serverVars
        => [Abandoned =>
               /\ Abandoned'
               /\ UNCHANGED table
               /\ \A s \in Session :
                     socket[s] = "live" /\ UdpTable!InTable(s)
                         => socket'[s] \in {"live", "failed"}]_serverVars
    BY StepAbandoned
<1> HIDE DEF W
<1> QED BY <1>1, <1>2, <1>3, PTL DEF ServerSpec, AbandonedForGood
=============================================================================
