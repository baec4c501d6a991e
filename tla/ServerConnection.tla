-------------------------- MODULE ServerConnection --------------------------
(***************************************************************************)
(* One QUIC connection of the TUIC server: Connection::handle and the      *)
(* tasks it spawns (server/src/connection/mod.rs), the authentication gate *)
(* they all wait at (authenticate.rs) and the dispatch of commands behind  *)
(* it (dispatch.rs).                                                       *)
(*                                                                         *)
(* The grain is that of the shared memory: a poll of IsAuthenticated loads *)
(* is_closed, loads is_authenticated and locks broadcast in three steps,   *)
(* set_authenticated and wake are two steps, because the runtime is        *)
(* multi-threaded and every task may be on a thread of its own.            *)
(*                                                                         *)
(* What a dispatched command does (the UDP sessions, the TCP relay) is the *)
(* subject of other modules; here it succeeds or closes the connection.    *)
(***************************************************************************)
EXTENDS Naturals, FiniteSets

CONSTANTS Task,      \* the tasks spawned for accepted streams and datagrams
          Handle,    \* the task that runs Connection::handle and its select!
          Arrivals   \* what may arrive: a subset of Item

Channel == {"uni", "bi", "datagram"}

\* What Command::read_from makes of the bytes; "malformed" is any Io error
\* (wrong version, unknown type, truncated header).  The two authenticate
\* commands carry a digest that is, or is not, in the server's token set.
Command == {"authenticate", "bad_authenticate", "connect", "packet",
            "dissociate", "heartbeat", "response", "malformed"}

Item == [chan : Channel, cmd : Command]

NoItem == [chan |-> "none", cmd |-> "none"]

ASSUME ConnectionAssumption ==
    /\ Handle \notin Task
    /\ Arrivals \subseteq Item

\* DispatchError, by the code that as_error_code gives it.
DispatchError == {"protocol", "auth_failed", "auth_timeout", "bad_command"}

VARIABLES
    controller,        \* the QUIC connection: open, or why it was closed first
    is_closed,         \* IsClosed::is_closed
    is_authenticated,  \* IsAuthenticated::is_authenticated
    broadcast,         \* the wakers in IsAuthenticated::broadcast, by task
    udp_packet_from,   \* UdpPacketFrom: the relay mode the client chose
    item,              \* what each task was spawned for
    pc,                \* where each task is
    result,            \* what process_uni_stream, ... of each task returned
    expired            \* time::sleep(auth_timeout) has elapsed

vars == <<controller, is_closed, is_authenticated, broadcast, udp_packet_from,
          item, pc, result, expired>>

Waiter == Task \cup {Handle}

TaskPC == {"idle", "read", "store", "wake", "reject", "reject_wake", "poll",
           "load", "push", "pending", "dispatch", "fail", "done"}

HandlePC == {"poll", "load", "push", "pending", "authed", "expire_wake",
             "close", "done"}

TypeOK ==
    /\ controller \in DispatchError \cup {"open", "peer"}
    /\ is_closed \in BOOLEAN
    /\ is_authenticated \in BOOLEAN
    /\ broadcast \in SUBSET Waiter
    /\ udp_packet_from \in {"none", "uni", "datagram"}
    /\ item \in [Task -> Arrivals \cup {NoItem}]
    /\ pc \in [Waiter -> TaskPC \cup HandlePC]
    /\ \A t \in Task : pc[t] \in TaskPC
    /\ pc[Handle] \in HandlePC
    /\ result \in [Task -> DispatchError \cup {"none", "ok"}]
    /\ expired \in BOOLEAN

Init ==
    /\ controller = "open"
    /\ is_closed = FALSE
    /\ is_authenticated = FALSE
    /\ broadcast = {}
    /\ udp_packet_from = "none"
    /\ item = [t \in Task |-> NoItem]
    /\ pc = [w \in Waiter |-> IF w = Handle THEN "poll" ELSE "idle"]
    /\ result = [t \in Task |-> "none"]
    /\ expired = FALSE

-----------------------------------------------------------------------------
(***************************************************************************)
(* Helpers.                                                                *)
(***************************************************************************)

\* quinn keeps the reason of the first close; later calls change nothing.
Close(code) == controller' = IF controller = "open" THEN code ELSE controller

Woken_Nobody(w, to) == [pc EXCEPT ![w] = to]

\* pc after task w goes to `to` and IsAuthenticated::wake() has drained
\* broadcast: a task that is pending is polled again.
Woken(w, to) ==
    [v \in Waiter |-> IF v = w THEN to
                      ELSE IF v \in broadcast /\ pc[v] = "pending" THEN "poll"
                      ELSE pc[v]]

Goto(w, to) == pc' = [pc EXCEPT ![w] = to]

\* The handler of task t returned: Ok, or an error it still has to report.
Return(t, res) ==
    /\ result' = [result EXCEPT ![t] = res]
    /\ Goto(t, IF res = "ok" THEN "done" ELSE "fail")

-----------------------------------------------------------------------------
(***************************************************************************)
(* The select! of Connection::handle.                                      *)
(***************************************************************************)

\* The handle task is between polls, or inside one whose other branches
\* are still to be polled.
Selecting == pc[Handle] \in {"poll", "pending", "authed"}

\* listen_uni_streams, listen_bi_streams and listen_datagrams: a stream or
\* datagram is accepted and a task is spawned for it.
Accept(t, i) ==
    /\ pc[t] = "idle"
    /\ Selecting
    /\ item' = [item EXCEPT ![t] = i]
    /\ Goto(t, "read")
    /\ UNCHANGED <<controller, is_closed, is_authenticated, broadcast,
                   udp_packet_from, result, expired>>

\* Something a listener waits for wakes the handle task, and select! polls
\* the timeout branch again along with it.
Repoll ==
    /\ pc[Handle] = "pending"
    /\ Goto(Handle, "poll")
    /\ UNCHANGED <<controller, is_closed, is_authenticated, broadcast,
                   udp_packet_from, item, result, expired>>

\* time::sleep(auth_timeout) elapses and wakes the handle task.
TimerFires ==
    /\ ~expired
    /\ pc[Handle] \in {"poll", "load", "push", "pending"}
    /\ expired' = TRUE
    /\ Goto(Handle, IF pc[Handle] = "pending" THEN "poll" ELSE pc[Handle])
    /\ UNCHANGED <<controller, is_closed, is_authenticated, broadcast,
                   udp_packet_from, item, result>>

\* handle_authentication_timeout: select! polls its branches in a random
\* order, so sleep may win before is_authenticated is looked at ("poll") or
\* after it was found pending.
Expire_NoClose ==
    /\ expired
    /\ pc[Handle] \in {"poll", "pending"}
    /\ Goto(Handle, "expire_wake")
    /\ UNCHANGED <<controller, is_closed, is_authenticated, broadcast,
                   udp_packet_from, item, result, expired>>

Expire ==
    /\ expired
    /\ pc[Handle] \in {"poll", "pending"}
    /\ Close("auth_timeout")
    /\ Goto(Handle, "expire_wake")
    /\ UNCHANGED <<is_closed, is_authenticated, broadcast, udp_packet_from,
                   item, result, expired>>

ExpireWake ==
    /\ pc[Handle] = "expire_wake"
    /\ broadcast' = {}
    /\ pc' = Woken(Handle, "close")
    /\ UNCHANGED <<controller, is_closed, is_authenticated, udp_packet_from,
                   item, result, expired>>

\* A listener sees that the QUIC connection is gone and select! returns.
ListenerEnds ==
    /\ Selecting
    /\ controller # "open"
    /\ Goto(Handle, "close")
    /\ UNCHANGED <<controller, is_closed, is_authenticated, broadcast,
                   udp_packet_from, item, result, expired>>

\* is_closed.set_closed(): no task ever polls IsClosed, so its own waker is
\* never set and nothing is woken here.
SetClosed ==
    /\ pc[Handle] = "close"
    /\ is_closed' = TRUE
    /\ Goto(Handle, "done")
    /\ UNCHANGED <<controller, is_authenticated, broadcast, udp_packet_from,
                   item, result, expired>>

-----------------------------------------------------------------------------
(***************************************************************************)
(* IsAuthenticated::poll, by a spawned task or by the handle task.         *)
(***************************************************************************)

\* is_connection_closed.check(): Ready(false), which a spawned task turns
\* into DispatchError::AuthenticationTimeout.
PollClosed(w) ==
    /\ pc[w] = "poll"
    /\ IF is_closed /\ w \in Task
         THEN Return(w, "auth_timeout")
         ELSE Goto(w, "load") /\ UNCHANGED result
    /\ UNCHANGED <<controller, is_closed, is_authenticated, broadcast,
                   udp_packet_from, item, expired>>

\* is_authenticated.load(): Ready(true), or on to registering a waker.
AfterLoad_Unchecked(w) == IF w = Handle THEN "authed" ELSE "dispatch"

AfterLoad_NoHandle(w) == IF is_authenticated THEN "dispatch" ELSE "push"

AfterLoad(w) ==
    IF ~is_authenticated THEN "push"
    ELSE IF w = Handle THEN "authed" ELSE "dispatch"

PollLoad(w) ==
    /\ pc[w] = "load"
    /\ Goto(w, AfterLoad(w))
    /\ UNCHANGED <<controller, is_closed, is_authenticated, broadcast,
                   udp_packet_from, item, result, expired>>

\* broadcast.lock().push(waker): Pending.
PollPush(w) ==
    /\ pc[w] = "push"
    /\ broadcast' = broadcast \cup {w}
    /\ Goto(w, "pending")
    /\ UNCHANGED <<controller, is_closed, is_authenticated, udp_packet_from,
                   item, result, expired>>

-----------------------------------------------------------------------------
(***************************************************************************)
(* A spawned task: process_uni_stream, process_bi_stream,                  *)
(* process_datagram.                                                       *)
(***************************************************************************)

\* Where a task goes once Command::read_from returned its command.
AfterRead(i) ==
    IF i = [chan |-> "uni", cmd |-> "authenticate"] THEN "store"
    ELSE IF i = [chan |-> "uni", cmd |-> "bad_authenticate"] THEN "reject"
    ELSE "poll"

\* Command::read_from(...).await: the command is read, or reading fails
\* because the header is malformed or, on a stream, because the connection is
\* already gone.
ReadCommand(t) ==
    /\ pc[t] = "read"
    /\ \/ /\ \/ item[t].cmd = "malformed"
             \/ controller # "open" /\ item[t].chan # "datagram"
          /\ Return(t, "protocol")
       \/ /\ item[t].cmd # "malformed"
          /\ Goto(t, AfterRead(item[t]))
          /\ UNCHANGED result
    /\ UNCHANGED <<controller, is_closed, is_authenticated, broadcast,
                   udp_packet_from, item, expired>>

\* The token is known: set_authenticated() ...
SetAuthenticated(t) ==
    /\ pc[t] = "store"
    /\ is_authenticated' = TRUE
    /\ Goto(t, "wake")
    /\ UNCHANGED <<controller, is_closed, broadcast, udp_packet_from, item,
                   result, expired>>

\* ... and wake().
Wake(t) ==
    /\ pc[t] = "wake"
    /\ broadcast' = {}
    /\ result' = [result EXCEPT ![t] = "ok"]
    /\ pc' = Woken(t, "done")
    /\ UNCHANGED <<controller, is_closed, is_authenticated, udp_packet_from,
                   item, expired>>

\* The token is not known: close the connection ...
Reject(t) ==
    /\ pc[t] = "reject"
    /\ Close("auth_failed")
    /\ Goto(t, "reject_wake")
    /\ UNCHANGED <<is_closed, is_authenticated, broadcast, udp_packet_from,
                   item, result, expired>>

\* ... and wake the waiters, then return the error.
RejectWake(t) ==
    /\ pc[t] = "reject_wake"
    /\ broadcast' = {}
    /\ result' = [result EXCEPT ![t] = "auth_failed"]
    /\ pc' = Woken(t, "fail")
    /\ UNCHANGED <<controller, is_closed, is_authenticated, udp_packet_from,
                   item, expired>>

\* The commands each channel accepts (besides Packet, see Dispatch).
Accepted(i) ==
    \/ i.chan = "uni" /\ i.cmd \in {"dissociate", "heartbeat"}
    \/ i.chan = "bi" /\ i.cmd = "connect"

IsPacket(i) == i.chan \in {"uni", "datagram"} /\ i.cmd = "packet"

\* UdpPacketFrom::uni_stream() and ::datagram(): the compare_exchange that
\* lets the first Packet choose the mode; TRUE if the mode is i's channel.
ModeAgrees_NotFirst(i) == udp_packet_from = i.chan

ModeAgrees(i) == udp_packet_from \in {"none", i.chan}

\* The gate is open: the match on the command.
Dispatch(t) ==
    /\ pc[t] = "dispatch"
    /\ \/ /\ IsPacket(item[t])
          /\ ModeAgrees(item[t])
          /\ udp_packet_from' = item[t].chan
          /\ Return(t, "ok")
       \/ /\ Accepted(item[t])
          /\ Return(t, "ok")
          /\ UNCHANGED udp_packet_from
       \/ /\ ~Accepted(item[t])
          /\ ~(IsPacket(item[t]) /\ ModeAgrees(item[t]))
          /\ Return(t, "bad_command")
          /\ UNCHANGED udp_packet_from
    /\ UNCHANGED <<controller, is_closed, is_authenticated, broadcast, item,
                   expired>>

\* The spawned block's Err arm: close with the error's code.
ReportError(t) ==
    /\ pc[t] = "fail"
    /\ Close(result[t])
    /\ Goto(t, "done")
    /\ UNCHANGED <<is_closed, is_authenticated, broadcast, udp_packet_from,
                   item, result, expired>>

-----------------------------------------------------------------------------
\* The peer closes, resets or goes silent past the idle timeout.
PeerCloses ==
    /\ controller = "open"
    /\ controller' = "peer"
    /\ UNCHANGED <<is_closed, is_authenticated, broadcast, udp_packet_from,
                   item, pc, result, expired>>

\* The steps a task takes without waiting for the peer.
TaskStep(t) ==
    \/ PollClosed(t) \/ PollLoad(t) \/ PollPush(t)
    \/ SetAuthenticated(t) \/ Wake(t) \/ Reject(t) \/ RejectWake(t)
    \/ Dispatch(t) \/ ReportError(t)

HandleStep ==
    \/ PollClosed(Handle) \/ PollLoad(Handle) \/ PollPush(Handle)
    \/ Expire \/ ExpireWake \/ ListenerEnds \/ SetClosed

Next ==
    \/ \E t \in Task, i \in Arrivals : Accept(t, i)
    \/ \E t \in Task : ReadCommand(t) \/ TaskStep(t)
    \/ HandleStep
    \/ Repoll
    \/ TimerFires
    \/ PeerCloses

\* The runtime keeps polling a task that was woken, and the timer fires.
\* Every poll of select! polls all its branches, so one that stays ready is
\* taken however often the others are polled in between.  Nothing is assumed
\* of the peer: streams may never come or never be completed.
Fairness ==
    /\ \A t \in Task : WF_vars(TaskStep(t))
    /\ WF_vars(HandleStep)
    /\ SF_vars(Expire \/ ListenerEnds)
    /\ WF_vars(TimerFires)

Spec == Init /\ [][Next]_vars /\ Fairness

-----------------------------------------------------------------------------
(***************************************************************************)
(* Properties.                                                             *)
(***************************************************************************)

\* A token of the server's set has been received on a unidirectional stream.
TokenReceived ==
    \E u \in Task : /\ item[u] = [chan |-> "uni", cmd |-> "authenticate"]
                    /\ pc[u] = "wake" \/ result[u] = "ok"

\* Commands no channel, or another channel, takes; packets sent both ways.
Misplaced(i) ==
    /\ i.cmd \notin {"none", "malformed"}
    /\ AfterRead(i) = "poll" /\ ~Accepted(i) /\ ~IsPacket(i)

WrongMode(i) == IsPacket(i) /\ udp_packet_from \notin {"none", i.chan}

\* Nothing is relayed, and no command is even matched, before a task has
\* received a valid token: the gate of process_uni_stream, process_bi_stream
\* and process_datagram, whoever runs first.
NothingBeforeAuthentication ==
    \A t \in Task :
        pc[t] = "dispatch" \/ result[t] \in {"ok", "bad_command"}
            => TokenReceived

\* Where the abstract gate sees each task.
Place(t) ==
    IF pc[t] = "dispatch" \/ result[t] \in {"ok", "bad_command"} THEN "inside"
    ELSE IF result[t] = "auth_timeout" THEN "refused" ELSE "outside"

\* The flags, wakers and polls implement the gate of AuthGate: it opens once,
\* is passed only when open, and turns a task away (AuthenticationTimeout)
\* only when the QUIC connection is over.
Gate == INSTANCE AuthGate WITH open <- is_authenticated,
                               lost <- controller # "open",
                               place <- [t \in Task |-> Place(t)]

ImplementsGate == Gate!GateSpec

\* The close that takes effect, which is the first one, is made by whoever
\* has the cause: by a task whose own command was at fault, or by the timer
\* of a handle task that has not seen the token.  Tasks whose stream dies with
\* the connection or that find is_closed set call close() too, and never
\* first.  (A token that is there in time may still lose to the timer: when
\* select! takes the sleep before it looks, or when the wake-up of the handle
\* task was lost.)
CloseCodeExplained ==
    [][(controller = "open" /\ controller' \in DispatchError) =>
          \/ controller' = "auth_timeout" /\ expired /\ pc[Handle] # "authed"
          \/ \E t \in Task :
                \/ /\ controller' = "auth_failed" /\ pc[t] = "reject"
                   /\ item[t] = [chan |-> "uni", cmd |-> "bad_authenticate"]
                \/ /\ controller' = "protocol" /\ pc[t] = "fail"
                   /\ item[t].cmd = "malformed"
                \/ /\ controller' = "bad_command" /\ pc[t] = "fail"
                   /\ Misplaced(item[t]) \/ WrongMode(item[t])]_vars

\* A task that had registered its waker when authentication was stored does
\* get to its command: wake() drains every waker, and the woken poll reads
\* the flag that was stored before.
RegisteredWaitersProceed ==
    \A t \in Task :
        (\E u \in Task : pc[u] = "wake" /\ pc[t] = "pending")
            ~> (pc[t] = "done")

\* A connection that never authenticates does not stay: the timeout branch
\* closes it even if the wake-up it waits for was lost.
UnauthenticatedIsClosed == <>(is_authenticated \/ controller # "open")
=============================================================================
