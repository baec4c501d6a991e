------------------------------ MODULE Heartbeat ------------------------------
(***************************************************************************)
(* What keeps a QUIC connection of the client alive, and what lets it go:  *)
(* the register that counts its streams (client/src/relay/stream.rs), the  *)
(* UDP session map, the heartbeat task and IsClosed                        *)
(* (client/src/relay/connection.rs), and the idle timeout that the server  *)
(* configures and QUIC applies on both ends.                               *)
(*                                                                         *)
(* Time is discrete.  It does not pass while the heartbeat task has a step *)
(* to take: scheduling is fast against heartbeat_interval and the idle     *)
(* timeout.  A packet sent is a packet received, so there is one idle time *)
(* for both ends.                                                          *)
(***************************************************************************)
EXTENDS Naturals

CONSTANTS Interval,   \* heartbeat_interval
          MaxIdle,    \* the server's max_idle_time
          Stream,     \* handles of streams: SendStream, RecvStream
          Assoc       \* associate IDs

\* The help text of --heartbeat-interval asks for the order.
ASSUME HeartbeatAssumption ==
    /\ Interval \in Nat \ {0}
    /\ MaxIdle \in Nat
    /\ Interval < MaxIdle

VARIABLES
    lost,       \* the QUIC connection: "no", or why it is over
    idle,       \* time since the last packet
    streams,    \* the handles that hold a clone of the stream register
    polling,    \* IncomingUniStreams::poll_next holds one
    beating,    \* the SendStream of a heartbeat holds one
    sessions,   \* the IDs in UdpSessionMap
    is_closed,  \* IsClosed::is_closed
    waker,      \* the heartbeat task's waker is in IsClosed::waker
    set,        \* listen_incoming is inside IsClosed::set, before the drain
    hpc,        \* where heartbeat() is
    timer,      \* time until the next tick of its interval
    age         \* history: for how long there has been a relay task, as far
                \* as one unit past Interval

vars == <<lost, idle, streams, polling, beating, sessions, is_closed, waker,
          set, hpc, timer, age>>

relayVars == <<streams, polling, beating, sessions>>

closeVars == <<is_closed, waker, set>>

TypeOK ==
    /\ lost \in {"no", "idle", "peer"}
    /\ idle \in 0..MaxIdle
    /\ streams \in SUBSET Stream
    /\ polling \in BOOLEAN
    /\ beating \in BOOLEAN
    /\ sessions \in SUBSET Assoc
    /\ is_closed \in BOOLEAN
    /\ waker \in BOOLEAN
    /\ set \in BOOLEAN
    /\ hpc \in {"select", "push", "wait", "check", "send", "finish", "done"}
    /\ timer \in 0..Interval
    /\ age \in 0..(Interval + 1)

\* time::interval: the first tick is due at once.
Init ==
    /\ lost = "no"
    /\ idle = 0
    /\ streams = {}
    /\ polling = FALSE
    /\ beating = FALSE
    /\ sessions = {}
    /\ is_closed = FALSE
    /\ waker = FALSE
    /\ set = FALSE
    /\ hpc = "select"
    /\ timer = 0
    /\ age = 0

-----------------------------------------------------------------------------
(***************************************************************************)
(* Relay tasks, as the heartbeat sees them.                                *)
(***************************************************************************)

\* Register::count() == 1: the connection's own clone is the only one.
no_active_stream == streams = {} /\ ~polling /\ ~beating

\* UdpSessionMap::is_empty()
no_active_udp_session == sessions = {}

Active(ss, us) == ss # {} \/ us # {}

\* There is a relay task, or no longer one: age starts over when there is none.
Relay(ss, us) ==
    /\ streams' = ss
    /\ sessions' = us
    /\ age' = IF Active(ss, us) THEN age ELSE 0

\* get_send_stream, get_bi_stream: a stream is opened and a command written
\* to it, by a TCP relay, a packet of relay mode quic or a Dissociate.
OpenStream(s) ==
    /\ lost = "no" /\ s \notin streams
    /\ Relay(streams \cup {s}, sessions)
    /\ idle' = 0
    /\ UNCHANGED <<lost, polling, beating, closeVars, hpc, timer>>

\* IncomingUniStreams::poll_next: a clone is taken before the poll; it goes
\* with the stream if there is one, the next poll takes another ...
AcceptStream(s) ==
    /\ lost = "no" /\ s \notin streams
    /\ Relay(streams \cup {s}, sessions)
    /\ polling' = TRUE
    /\ idle' = 0
    /\ UNCHANGED <<lost, beating, closeVars, hpc, timer>>

\* ... and drops it when it is Pending.
PollPending ==
    /\ polling
    /\ polling' = FALSE
    /\ UNCHANGED <<lost, idle, streams, beating, sessions, closeVars, hpc,
                   timer, age>>

\* Data on a stream, or a datagram of a UDP session.
Transfer ==
    /\ lost = "no" /\ Active(streams, sessions)
    /\ idle' = 0
    /\ UNCHANGED <<lost, relayVars, closeVars, hpc, timer, age>>

\* A handle is dropped, on a connection that is over too.
DropStream(s) ==
    /\ s \in streams
    /\ Relay(streams \ {s}, sessions)
    /\ UNCHANGED <<lost, idle, polling, beating, closeVars, hpc, timer>>

\* process_request inserts an association before it has sent anything ...
InsertSession(a) ==
    /\ a \notin sessions
    /\ Relay(streams, sessions \cup {a})
    /\ UNCHANGED <<lost, idle, polling, beating, closeVars, hpc, timer>>

\* ... and removes it before it sends Dissociate.
RemoveSession(a) ==
    /\ a \in sessions
    /\ Relay(streams, sessions \ {a})
    /\ UNCHANGED <<lost, idle, polling, beating, closeVars, hpc, timer>>

-----------------------------------------------------------------------------
(***************************************************************************)
(* heartbeat().                                                            *)
(***************************************************************************)

\* select! polls a fresh IsClosed: is_closed.load() ...
PollClosed_Once ==
    /\ hpc = "select"
    /\ hpc' = IF waker THEN "wait" ELSE IF is_closed THEN "done" ELSE "push"
    /\ UNCHANGED <<lost, idle, relayVars, closeVars, timer, age>>

PollClosed ==
    /\ hpc = "select"
    /\ hpc' = IF is_closed THEN "done" ELSE "push"
    /\ UNCHANGED <<lost, idle, relayVars, closeVars, timer, age>>

\* ... and, if it is not set, pushes the waker.
PushWaker ==
    /\ hpc = "push"
    /\ waker' = TRUE
    /\ hpc' = "wait"
    /\ UNCHANGED <<lost, idle, relayVars, is_closed, set, timer, age>>

\* interval.tick() is ready; select! may poll it before or after IsClosed.
Tick ==
    /\ hpc \in {"select", "wait"} /\ timer = 0
    /\ hpc' = "check"
    /\ timer' = Interval
    /\ UNCHANGED <<lost, idle, relayVars, closeVars, age>>

NeedsHeartbeat_Streams == ~no_active_stream

NeedsHeartbeat == ~no_active_stream \/ ~no_active_udp_session

Check ==
    /\ hpc = "check"
    /\ hpc' = IF NeedsHeartbeat THEN "send" ELSE "select"
    /\ UNCHANGED <<lost, idle, relayVars, closeVars, timer, age>>

\* send_heartbeat: get_send_stream takes a clone of the register for a stream
\* of its own, the command is written, ...
SendHeartbeat ==
    /\ hpc = "send"
    /\ IF lost = "no"
         THEN hpc' = "finish" /\ idle' = 0 /\ beating' = TRUE
         ELSE hpc' = "select" /\ UNCHANGED <<idle, beating>>
    /\ UNCHANGED <<lost, streams, polling, sessions, closeVars, timer, age>>

\* ... the stream is finished, and dropped with its clone; an error is only
\* logged.
FinishHeartbeat_KeepsStream ==
    /\ hpc = "finish"
    /\ hpc' = "select"
    /\ UNCHANGED <<lost, idle, relayVars, closeVars, timer, age>>

FinishHeartbeat ==
    /\ hpc = "finish"
    /\ hpc' = "select"
    /\ beating' = FALSE
    /\ UNCHANGED <<lost, idle, streams, polling, sessions, closeVars, timer,
                   age>>

-----------------------------------------------------------------------------
(***************************************************************************)
(* The end of the connection.                                              *)
(***************************************************************************)

\* QUIC's idle timeout.
IdleTimeout ==
    /\ lost = "no" /\ idle = MaxIdle
    /\ lost' = "idle"
    /\ UNCHANGED <<idle, relayVars, closeVars, hpc, timer, age>>

\* The server closes it, or the network does.
PeerCloses ==
    /\ lost = "no"
    /\ lost' = "peer"
    /\ UNCHANGED <<idle, relayVars, closeVars, hpc, timer, age>>

\* listen_incoming sees the end and calls set_closed(): store ...
StoreClosed ==
    /\ lost # "no" /\ ~is_closed
    /\ is_closed' = TRUE
    /\ set' = TRUE
    /\ UNCHANGED <<lost, idle, relayVars, waker, hpc, timer, age>>

\* ... drain and wake.
DrainWakers ==
    /\ set
    /\ set' = FALSE
    /\ waker' = FALSE
    /\ hpc' = IF waker /\ hpc = "wait" THEN "select" ELSE hpc
    /\ UNCHANGED <<lost, idle, relayVars, is_closed, timer, age>>

\* Time passes when the heartbeat task waits and neither its tick nor the
\* idle timeout is due.
Elapse ==
    /\ hpc = "wait" /\ timer > 0
    /\ lost = "no" => idle < MaxIdle
    /\ idle' = IF lost = "no" THEN idle + 1 ELSE idle
    /\ timer' = timer - 1
    /\ age' = IF Active(streams, sessions) /\ age <= Interval THEN age + 1
                                                          ELSE age
    /\ UNCHANGED <<lost, relayVars, closeVars, hpc>>

HeartbeatStep ==
    \/ PollClosed \/ PushWaker \/ Tick \/ Check
    \/ SendHeartbeat \/ FinishHeartbeat

Next ==
    \/ \E s \in Stream : OpenStream(s) \/ AcceptStream(s) \/ DropStream(s)
    \/ \E a \in Assoc : InsertSession(a) \/ RemoveSession(a)
    \/ PollPending
    \/ Transfer
    \/ HeartbeatStep
    \/ IdleTimeout \/ PeerCloses
    \/ StoreClosed \/ DrainWakers
    \/ Elapse

\* The tasks run, time passes and a timeout that is due happens.  Relay tasks
\* may last for ever, and never send anything.
Fairness ==
    /\ WF_vars(HeartbeatStep)
    /\ WF_vars(PollPending)
    /\ WF_vars(IdleTimeout)
    /\ WF_vars(StoreClosed)
    /\ WF_vars(DrainWakers)
    /\ WF_vars(Elapse)

Spec == Init /\ [][Next]_vars /\ Fairness

-----------------------------------------------------------------------------
(***************************************************************************)
(* Properties.                                                             *)
(***************************************************************************)

\* A relay task that has lasted for more than heartbeat_interval does not see
\* its connection time out, whether or not anything is sent: heartbeat() has
\* looked at least once while it was there, and kept the connection since.
KeptAlive == (lost = "no" /\ idle = MaxIdle) => age <= Interval

\* A connection that no relay task uses any more is let go: heartbeats do not
\* keep themselves alive, although the streams they are sent on and the polls
\* for incoming ones are counted by the register they look at.
UnusedIsLetGo == (<>[](~Active(streams, sessions))) => <>(lost # "no")

\* heartbeat() ends with its connection, and drops its clone of it, even when
\* the wake-up of its IsClosed was lost: the next tick polls a fresh one.
HeartbeatEnds == (lost # "no") ~> (hpc = "done")

\* What protocol/README.md says: while there is an active relay task, a TCP
\* relay or a UDP session, heartbeats keep the connection alive.
NotIdledOut ==
    [][Active(streams, sessions) => ~(lost = "no" /\ lost' = "idle")]_vars
=============================================================================
