# TLA+ specifications of TUIC

TUIC relays TCP and UDP over QUIC.  Its three crates are `protocol` (the wire
format), `server` (one task per QUIC connection, and one per stream, datagram
and UDP session) and `client` (a SOCKS5 server in front of a relay that keeps
one QUIC connection).  The code runs on tokio's multi-threaded runtime, has
several hand-written futures, and ends most things by dropping a `Sender`, a
stream or an `Arc`, so most of what can go wrong is a matter of interleaving
and ownership.  These modules model that, from the SOCKS5 request to the
target, together with the codec and the configuration.

`tlc -config X.cfg M` checks an instance, `tlapm M.tla` a module of proofs.

## 1. Inventory

| Component | State | Operations | Modules |
|---|---|---|---|
| Server connection (`connection/mod.rs`, `authenticate.rs`, `dispatch.rs`) | QUIC controller, `is_closed`, `is_authenticated`, `broadcast` wakers, relay mode | accept, read a command, authenticate, wait at the gate, dispatch, time out, close | `ServerConnection`, `AuthGate` |
| Server UDP relay (`connection/udp.rs`, `task.rs`) | session table, session tasks with a socket and a channel each, the shared receive channel | look up, bind, insert, send, dissociate, receive, reply, drop | `ServerUdp`, `SessionTable` |
| The two together | clones of `Connection` | own, release | `Server` |
| TCP relay (`server/.../task.rs`, `client/.../task.rs`, `socks5/connect.rs`, `stream.rs`) | oneshot, response, both directions of the stream and of two TCP connections | request, negotiate, look up, dial, respond, copy, half-close, abort | `TcpRelay` |
| UDP association (`socks5/associate.rs`, `request.rs`, `client/.../task.rs`, `incoming.rs`) | two channels, the client's session map, IDs | bind, request, packet to and from, remove, dissociate | `Association` |
| Client relay (`relay/mod.rs`, `connection.rs`, `request.rs`, `incoming.rs`) | `Mutex<Option<Connection>>`, `Register`/`Wait`, `IsClosed`, the chain of oneshot channels, `MAX_UDP_RELAY_PACKET_SIZE` | wait for a request, connect, hand over, wait for the close, lock again; lock, use, time out; listen | `ClientRelay` |
| Heartbeat (`connection.rs`, `stream.rs`) | stream register, interval, `IsClosed` | tick, check, send; idle timeout | `Heartbeat` |
| Codec (`protocol/src/lib.rs`) | none; `read_from` suspends at each read | write, length, read | `Codec` |
| Configuration (`config.rs` of both) | none after start | parse, read, merge, build | `Config` |
| Start-up (`main.rs`, `server.rs`, `certificate.rs`, `socks5/mod.rs`) | none | accept, spawn | none |

What is hard in each, and what correctness means there:

* **Server connection.**  A poll of `IsAuthenticated` is three accesses to
  shared memory, authentication is two; streams overtake one another; the
  timeout races the authentication; every error closes the connection with a
  code, also those that are only consequences of a close.  Nothing may be
  relayed before a valid token, the close that takes effect must be that of
  whoever has the cause, waiters get through, and a connection that does not
  authenticate ends.
* **Server UDP relay.**  The table is unlocked while a socket is bound, and a
  session lives as long as any clone of its `Sender`.  Packets may be lost only
  when a socket fails, sockets must be released after `Dissociate` and after
  the connection, one relay mode is chosen however streams and datagrams race,
  and the reply path must know it.
* **A server connection as a whole.**  A task that waits at the gate owns a
  clone of the connection, and the table with it.
* **TCP relay.**  Two nodes copy independently and each direction ends by
  itself.  The reply must be true, nothing may be cut off in an orderly end,
  and every end must reach the other side.
* **UDP association.**  Two tasks that end when the other's half of a channel
  is dropped; three places may hold the `Sender`; IDs are random.  An
  association may not end under its application for no reason, nor outlive it.
* **Client relay.**  Two check-then-register futures, a FIFO mutex that the
  manager gives up and takes back.  Neither `unwrap` may panic, connections
  must not overlap, the manager must come back after a close.
* **Heartbeat.**  It looks once an interval, at counters that its own streams
  change.  Connections in use must live, unused ones must not.
* **Codec.**  Lengths are computed apart from the bytes, streams come in
  pieces and end anywhere.  Reading must undo writing and consume exactly the
  command.
* **Configuration.**  Three sources, two branches, options with and without
  defaults.  Each value must come from where the usage text says.

The hazards of the code, each at its line and with the properties that would
catch it, are in `PROJECT.json`.

## 2. How the modules fit together

```
 SOCKS5 connect ---- TcpRelay ------------------------------ target
 SOCKS5 associate -- Association --- (table of IDs) -------- UDP sockets
                       |                |
                   ClientRelay       SessionTable <== ServerUdp
                   Heartbeat            |
                                     Server = ServerConnection + SessionTable
                                        |
                                     AuthGate <== ServerConnection
```

`<==` is a refinement that TLC checks as a `PROPERTY` and TLAPS proves step by
step.  `Server` is a composition: it extends `ServerConnection`, takes the
table's actions from an `INSTANCE` of `SessionTable`, and adds who owns what.
Because `ServerUdp` implements `SessionTable`, the composition needs none of
its tasks and channels.  `TcpRelay` and `Association` cut across client and
server; they take from the other modules that a request gets a connection or
times out (`ClientRelay`), that a command waits at the gate
(`ServerConnection`) and that the server's table is a set of IDs
(`SessionTable`).

## 3. Modules and the code

### ServerConnection and AuthGate

One connection.  `Task` are the spawned tasks, `Handle` the task of
`Connection::handle`.  `pc` is the place of each in the code:

| `pc` | code |
|---|---|
| `read` | `Command::read_from(..).await` |
| `store`, `wake` | `set_authenticated()`, `wake()` |
| `reject`, `reject_wake` | close with the failure code, `wake()` |
| `poll`, `load`, `push`, `pending` | `IsAuthenticated::poll`: `is_closed`, `is_authenticated`, `broadcast`, asleep |
| `dispatch` | the match after the gate |
| `fail` | the `Err` arm of the spawned block, which closes |
| `authed`, `expire_wake`, `close` | the handle task: branch disabled, timeout's `wake()`, `set_closed()` |

`Accept` stands for the three listeners; `Arrivals` says what the peer sends.
A command is its kind, whether its digest is known, and the channel it came
on.  `select!` polls its branches in random order: `Expire` is possible before
and after the gate is looked at.  `Close` is quinn's rule that the first
close's reason stays.  `CloseCodeExplained` is about the step that sets it:
tasks whose stream dies with the connection, or that find `is_closed` set, call
`close()` as well and are never the first to do so.

`AuthGate` has no flags, wakers or polls: it opens once, commands pass only
then, and a waiter is refused only when the connection is lost.  `Place` maps
each task to outside, inside or refused.

### ServerUdp and SessionTable

The session table (`map`), session tasks, and the tasks that use them.
Ownership is explicit: `HasSender` says whether a `Sender` of a session's
channel is in the table or in a task, and `SessionEnds` is the `recv()` that
returns `None`.  `Get`, `Bind` and `Insert` are the two critical sections of
`UdpSessionMap::send` and the unlocked part between them.  Stopping a session
drops its socket, its channel and both loops, whichever ended.  A task is
spawned for a command (`AcceptCommand`, while `Connection::handle` runs), waits
at the gate, and is let through with the compare-exchange of the mode
(`PassGate`) or turned away (`LeaveGate`), be the connection closed by then or
not; when that happens is left to `ServerConnection`.  From its first step to
its last it owns a clone of the connection (`Owned`), and the map is dropped
when there is none left.  Payloads and targets are left out.

`SessionTable` has the table, the sockets and whether anybody owns the
connection (`gone`).  It promises that the table is used by an owner only, that
a socket is released only when the table does not lead to it, and that a
session is entered for the ID it was opened for; under fairness, also that a
socket the table no longer leads to is released, and that the table of a
connection that nobody owns is dropped.

### Server

`BeginRelay` is `Dispatch` of the gate, after which the task is inside its
handler (`relaying`); `RelayStep` is a step of the table that a `Packet`'s or a
`Dissociate`'s handler takes.  `Owners` are the tasks that still have a clone of
the connection, and the handle task while its `select!` lasts, whose futures
have the others; when there is none, the table is dropped (`DropConnection`).
That may be before `is_closed` is set: the futures are dropped first.

### ClientRelay

`manage_connection` (`mpc`), one `process_request` per request (`pc`) and
`listen_incoming` (`listening`, `set`).  Connections are numbered.  The tokio
Mutex is a holder and a FIFO queue; releasing hands it to the first waiter.
`Wait::poll` is `WaitCount`, `WaitStore`; `Register::clone` is `CloneRegister`,
`WakeManager`; `IsClosed::poll` is `CloseLoad`, `ClosePush`; `IsClosed::set` is
`StoreClosed`, `WakeClosed`.  `max_size` is the connection that
`MAX_UDP_RELAY_PACKET_SIZE` was last taken from.

### Heartbeat

`streams` are the handles that hold a clone of the stream register, `polling`
the clone that `IncomingUniStreams::poll_next` takes before it knows whether
there is a stream, `beating` the one that a heartbeat's own stream has until it
is finished, `sessions` the keys of the client's map.  `heartbeat()` is a
poll of a fresh `IsClosed` (`PollClosed`, `PushWaker`), a `Tick`, a `Check` and
a send.  Time is discrete and passes (`Elapse`) only while the heartbeat task
waits, which says that scheduling takes no time against the interval.  The
client sets no idle timeout of its own, so the server's counts for both ends.
`age` remembers for how long there has been a relay task.

### Association

One SOCKS5 associate request is its handler (`spc`) and its `process_request`
(`rpc`), with the channels `pkt_send` and `pkt_recv` of capacity one between
them.  `HasSender` says who has a `Sender` of the second: the request that
waits, the map, or a `handle_packet_from`.  IDs are drawn freely, so two
associations may draw the same one.  `packet_to` and `dissociate` are what is
on its way in tasks and streams of its own, in any order; packets may be lost.
The first packet of the application is handed on before the socket is connected
to its sender (`FromApplication`, `Connect`), so a reply may be in the channel
in between; it is not taken, because both loops are branches of one `select!`.
When the connection is lost the server's sockets stay until it drops its table
(`ServerReleases`), which nothing makes sure of, as `MCServerRelease` shows.

### TcpRelay

One SOCKS5 connect request: the handler (`cpc`), `handle_connect` (`npc`), the
oneshot (`tx`), and `task::connect` (`spc`).  `CopyStep` is
`copy_bidirectional`, at either node: a piece of data, the end of one
direction, which shuts down only that direction, an error, which ends both, or
the end of both.  Dropping a stream finishes what it sends (`fin`) and stops
what it receives (`stop`).  The server's task may miss its wake-up at the
gate and sleep (`asleep`) on an open connection.  Data are counted per direction as written, carried
and got; a sink that never reads, behind which a copy would wait for room, is
not modelled.

### Codec

`WriteToBuf`, `AddressLen`, `SerializedLen`, `MaxSerializedLen` are the
functions of the crate.  `read_from` is one action for each read it awaits; a
read takes its bytes when all have arrived (`Take`) and fails when the stream
ends before (`UnexpectedEof`).  The bytes on the stream are the encoding of
some command and a payload, one byte of which may be replaced.  Commands are
those the program can build: a domain name has at most 255 bytes, because it
comes from SOCKS5 or from this decoder, and is UTF-8 (`Utf8` is a constant
predicate).  The scope and flow of an IPv6 socket address are not sent, which
`Unscoped` says.  `FromStream`, `FromDatagram` and `ClientFromDatagram` are the
three ways a payload is found; `BufSize` is the buffer that an association
gives its socket.  For a packet size below 5, which the configuration accepts,
the subtraction wraps (`Usize`; a debug build panics there), and the buffer is
too large for a `Vec`: the client, built with `panic = "abort"`, ends
(`CanAllocate`).

### Config

A value is known by where it comes from.  `ParseArgs` is getopts and the early
returns, `FromFile` is serde, `Merge` takes one option in the code's order,
`Build` is what `Config::parse` can still refuse.  `Required` and `Optional`
are the options of the two programs.  `MandatoryField` is the server's `token`,
the one field serde does not let a file leave out, even if `--token` is given;
`sections` are those of the client's file, which serde wants too.

## 4. Runs

| Configuration | Checks | Bounds |
|---|---|---|
| `MCServer` | `NothingBeforeAuthentication`, `ServerTypeOK`, `SocketsAreAuthenticated`, `CloseCodeExplained`, `ImplementsGate`, `RegisteredWaitersProceed`, `UnauthenticatedIsClosed`, `ReleasedUnlessStuck` | 2 tasks, 9 arrivals (each error path, both modes, a command on the wrong channel), 1 ID, 1 session: the authenticator and a waiter that relays, or two that race |
| `MCServerUdp` | `ModeKnown`, `DropsOnlyOnFailure`, `OneRelayMode`, `ImplementsTable` | 1 ID, 2 sessions, 3 tasks: two first packets of the same or of different modes and a `Dissociate`, or a packet, a reply and a `Dissociate` |
| `MCClientRelay` | `GuardInside`, `UnwrapSafe`, `OneConnection`, `ManagerRegainsLock`, `RegisteredCloseIsNoticed`, `RegisteredWaitIsWoken` | 2 requests, 2 connections: a reconnection with a request on the old connection and one in the queue |
| `MCHeartbeat` | `KeptAlive`, `UnusedIsLetGo`, `HeartbeatEnds` | interval 2, idle timeout 4, 2 stream handles (the two halves of a `BiStream`), 1 session |
| `MCAssociation` | `DroppedForAReason`, `RepliesFollowPackets`, `EndedIsForgotten`, `TimeoutIsTold`, `DissociatedUnlessOvertaken` | 2 associations that may or may not draw the same of 2 IDs, 1 packet each |
| `MCTcpRelay` | `SucceededMeansConnected`, `OrderlyIsComplete`, `CutForAReason`, `RequestIsAnswered`, `EndIsPassedOn` | one relay, 2 pieces of data each way: one under way, one not yet written |
| `MCCodec` | `RoundTrip`, `DecodesEncodings`, `HeaderLength`, `PayloadFound`, `FitsDatagram` | each command, each address type, domain names of 0, 1, 2 and 255 bytes, 8 replacements at each of the first 12 bytes, bytes one at a time, packet sizes around 5, around the longest header and at the end of a `usize` of 16 bits |
| `MCConfig` | `Precedence`, `UnwrapSafe`, `MissingIsMissing`, `NothingOverlooked` | both programs, all inputs that differ in at most two places from a complete one, files with each set of sections |

Server associations share nothing but the receive channel.  The safety
properties are proved for any number of tasks, sessions, requests, packets and
inputs (section 5), so the instances are kept small enough for liveness; two
tasks are what a race at the gate takes.  `TypeOK` of each module is a conjunct
of its proved inductive invariant and is not checked again here; `Server` has no
inductive invariant of its own for it, and `MCServer` checks `ServerTypeOK`.

Deadlock is not checked: the bounded sets of tasks and requests run out, and a
connection, a relay, a read or a parse really ends.

Where a document or a comment says more than the code does, a configuration
checks the statement and TLC finds the behaviour that breaks it:

| Configuration | Statement | What happens |
|---|---|---|
| `MCServerRelease` | "the server will release all UDP sockets" of a disconnected connection (`protocol/README.md`) | a task loads `is_authenticated` before the store and pushes its waker after the drain; it sleeps at the gate for ever, and its clone keeps the session table |
| `MCClientRelayLostClose` | "wait for the connection to be closed" (`relay/connection.rs`) | the close came between load and push; the manager sleeps and requests get the dead connection |
| `MCHeartbeatIdle` | the heartbeat "ensures that the QUIC connection is not closed when there are relay tasks" if its interval is below the idle timeout (help text of the client) | a session begins on a connection that is idle, after a look that found nothing, and has sent nothing yet; the idle timeout comes before the next look.  `KeptAlive` is what holds for every interval below the timeout |
| `MCConfigRepeat` | "This option can be used multiple times" (help texts of `--token` and `--alpn` of the server, `--certificate` and `--alpn` of the client) | the options are declared with `optopt`, and getopts refuses a second one |

More that the modules show, as the exceptions their properties name:

* The same check-then-register window is in `Wait::poll` of the client: a
  request that comes between count and store does not wake the manager, and
  waits for the next request or for its timeout.
  `RegisteredWaitersProceed`, `RegisteredWaitIsWoken` and
  `RegisteredCloseIsNoticed` say what holds: who registered in time is woken.
  The heartbeat task has it too, and is saved by its next tick
  (`HeartbeatEnds`).
* A token that was received in time may lose to the timer: if `select!` takes
  the sleep before it looks at the gate, or if the handle task's own wake-up is
  lost (`CloseCodeExplained`).
* Two first packets of an ID bind a socket each, of which the table keeps the
  later one; the other is released (`Release` of `SessionTable`).
* A `Dissociate` that is handled while an earlier `Packet` of its ID is on its
  way, or between lookup and insert, leaves the ID in the table until the
  connection ends (`DissociatedUnlessOvertaken`).
* A socket error ends a session and leaves its entry; later packets of the ID
  are dropped (`DropsOnlyOnFailure`).
* `strong_count() > 1` counts requests that still run on the lost connection,
  so the client may reconnect with no request waiting for it.
* The request timeout covers the wait for the connection only.  The client's
  read of the `Response` has none, though the option is described as the timeout
  "for negotiating tasks between client and the server": if the server's task
  sleeps at its gate, the SOCKS5 request is answered only when the connection
  ends (`RequestIsAnswered`).
* A lookup that fails at the server ends the stream without a `Response`; the
  client treats both alike (`RequestIsAnswered`).
* A server's file without `token`, and a client's without `relay` or `local`,
  is refused by serde as malformed even if the command line has every required
  option; `MissingIsMissing` is about the refusals that say `MissingOption`.
* The client accepts a `max_udp_relay_packet_size` below 5, and ends at the
  first association (`FitsDatagram`).

### Fairness

A task that was woken is polled (weak fairness of `TaskStep`, `HandleStep`,
`ManagerStep`, `ListenerStep`, `RequestStep`, `SessionStep`, `SocksStep`,
`NegotiateStep`, `ServerStep`, `CopyStep`, `HeartbeatStep`): tokio's promise.
Timers fire and time passes.  `select!` polls every branch at each poll, so a
branch that is ready again and again is taken (strong fairness of
`Expire \/ ListenerEnds`).  Binding a socket, a lookup, `send_to` and an
attempt to connect return.  What was sent arrives or is lost.  A read on a
stream of a closed connection fails.  Nothing is assumed of the peer, the
SOCKS5 client, the target or the network beyond that: streams and answers may
never come, applications may be silent, connections may last.  In
`ManagerStep` nothing says that an attempt to connect ever succeeds.  In
`Server` a TCP relay need end only once the connection is closed.  `Codec` and
`Config` have no fairness: only what they return matters.

## 5. Proofs

Every theorem holds for every value of the constants, under the named
assumptions of the modules (model values are distinct, arrivals are items,
bounds are natural numbers, commands are commands, packet sizes fit in a
`usize`, the heartbeat interval is below the idle timeout).  Each module has an inductive invariant `IInv`; none
of the properties is inductive by itself.  Every invariant that a passing run
checks is proved, and so are the steps of the two refinements.  Of the liveness
properties the safety core is proved where it has one: the condition that must
hold at every moment for the promise to be kept at all.  For two of the
statements that TLC refutes it is proved that the damage is for good.

* **ServerConnectionProofs**: `TypeCorrect`, `GateSafe`, `CloseCodeSafe`,
  `GateRefined`, and `SocketsSafe` for the composed server.
  The invariant adds how a task's result, place and command agree
  (`Progress`), that whoever is past the gate, or the flag itself, is backed by
  a received token (`FlagTrusted`), that `is_closed` is set only after the
  controller was closed (`ClosedFirst`), that an error about to be reported is
  the fault of the task's own command or comes too late to set the code
  (`ErrorsExplained`, `FailedIsClosed`), and that packets relayed came the way
  the mode says (`ModeBacked`).  With it each action is shown to be one that
  leaves the close alone, comes too late, or has the cause (`CloseCodeSafe`).  `GateRefined` maps each action to a step of `AuthGate` or a
  stutter.  `SocketsSafe` first shows that a step of `Server` is a step of
  `ServerConnection` or leaves it alone, and then that tasks inside a handler,
  and sockets, are backed by a token (`Guarded`).  `ServerTypeCorrect`,
  `ServerGateRefined` and `ServerTableRefined` carry types, gate and table over
  to the composition: what runs behind the gate takes no step that the gate
  would not take, and a server connection uses its table only through an owner,
  gets no new owner once it has none, and only then drops the table.
  `LastOwnerSafe` (`LastOwnerIsLate`): the last owner does not go while the QUIC
  connection is open, because the `select!` of `handle` ends only on a closed
  one; so the peer of an open connection never loses the table.

  `WakesSafe` says that `wake()` leaves nobody asleep, because a sleeping task
  has its waker in the list and `handle` is asleep only with its own
  (`SleepersRegistered`, `HandleSaysSo`); what remains is the waker that is
  pushed after the drain.  `AbandonedSafe` says that this is final: once
  `handle` is over, nothing runs and a task sleeps at the gate, the table does
  not change any more and the sockets in it stay open until they fail.  So what
  `MCServerRelease` finds is a leak for as long as the server runs, not a delay.
* **ServerUdpProofs**: `TypeCorrect`, `UnwrapModeSafe`, `DropsSafe`,
  `RelayModeSafe`, `TableRefined`.  The invariant says which tasks hold a Sender (`Holding`),
  that a session about to be inserted was created for the task's ID
  (`OwnSession`), that a session which ended is out of everybody's reach for
  good (`OutOfReach`), that only running sessions have packets under way
  (`Running`), that sessions, packets and replies exist only once the mode
  is chosen (`ModeFirst`), and that what is relayed goes that way (`OneWay`).  `TableRefined` is the safety part of the
  refinement: initial states and steps.
* **ClientRelayProofs**: `TypeCorrect`, `GuardSafe`, `RequestUnwrapSafe`,
  `OneConnectionSafe`.  The invariant says the newest connection is the one in
  the Mutex (`Newest`), that the manager goes for the lock only after the
  close is stored (`ClosedBeforeRelock`), in which order connections are
  closed and listened to (`InOrder`), and where the newest is in the chain
  (`Chain`).

  `MutexSafe` (`NobodyForgotten`): those who hold the Mutex or wait for it are
  exactly those who are at that point of their code, nobody twice, and it is
  never free while somebody waits.  `FifoSafe` (`NoOvertaking`): a waiter only
  moves forward, so `manage_connection` regains the Mutex however many requests
  keep coming; with fairness, which TLC adds, this is `ManagerRegainsLock`.
  Both rest on lemmas about queues with one more, one fewer, or one removed from
  the middle (a request timeout).  `LostCloseCause` (`PushedTooLate`): a close
  is lost only by pushing the waker after the list was drained.
  `LostCloseFinal` (`LostForGood`): the manager never wakes again and the Mutex
  keeps the dead connection, whatever happens later, which makes what
  `MCClientRelayLostClose` finds permanent.
* **HeartbeatProofs**: `KeptAliveSafe`.  The invariant (`Kept`) bounds the
  idle time by the timer: once a relay task is so old that a tick fell into
  its life, the time since the last packet and the time to the next tick add up
  to at most one interval.  `LastsSafe`: `heartbeat()` does not stop before its
  connection is over, and it sleeps without a registered waker only when
  `is_closed` is set, which its next tick sees.
* **AssociationProofs**: `DroppedSafe`, `RepliesSafe`.  The invariant says
  when an ID is drawn (`Drawn`), that packets under way are among those sent
  (`Counted`), that whom the map has for an ID drew it, and that a request
  that is receiving is in the map unless its ID is shared (`Mapped`), that
  a socket at the server, and so a packet that comes back, goes back to a packet
  that an association with this ID sent (`Sent`, `Asked`), and that a handler
  which has sent one connects its socket before it takes anything (`Joined`).  `ServedSafe` (`OnlyServed`):
  the map, whose entries ask for heartbeats, holds only associations whose
  `process_request` still receives; `OverSafe`: one that is over stays over,
  also when another one has its ID.  `FollowsSafe` (`DissociateFollows`): the
  server's socket of an association that is done has a `Dissociate` coming,
  unless that was overtaken, the ID is shared or the connection is lost.  `WritersStep` says once
  which actions may change which variable, so that each step lemma treats only
  the actions that can disturb its conjunct.  These are the safety cores of
  `EndedIsForgotten` and `DissociatedUnlessOvertaken`.
* **TcpRelayProofs**: `SucceededSafe`, `CutSafe`, `CompleteSafe`.  The
  invariant says how far handler, negotiation, oneshot, server and response
  can be apart (`Phases`), that whatever ended early has its reason (`Reasons`),
  and that a direction which is finished has carried everything, or the relay
  is cut (`Complete`).  `AnswerSafe` (`AnswerIsDue`): while the SOCKS5 handler
  waits, the oneshot is decided or someone is still to decide it, be it a server's
  task that sleeps at its gate; `EndSafe`
  (`EndIsTold`): a node that is through has shut its TCP connection and finished
  its direction of the stream.  They are the safety cores of
  `RequestIsAnswered` and `EndIsPassedOn`.
* **CodecProofs**: `SerializedLength` (for every command, the bytes written
  are `serialized_len` many and at most `max_serialized_len`),
  `HeaderLengthSafe`, `FitsDatagramSafe` (for every size a `usize` can hold,
  those for which the subtraction wraps included), `TypeCorrect`.  The invariant
  (`Position`) says how many bytes have been consumed at each read.

  `RoundTripSafe`, `DecodesSafe` and `PayloadSafe` compare byte strings, for
  every command, every payload and every way the bytes arrive.  They go through
  a description of the encoding byte by byte: `Spells(w, k, s)` says that `s`
  stands in `w` after `k` bytes, and `CommandAt(w, c)` which byte of the stream
  is which field of `c`.  `write_to_buf` writes what `CommandAt` says; the bytes
  determine the command (`Unambiguous`: no stream begins with the encodings of
  two commands, but for the scope of an IPv6 address, which is not on the wire);
  and at each read of `read_from` the fields it has are those in the stream
  (`Seen`).  So what it accepts is an encoding, the only one the stream begins
  with, and an error on a stream that begins with a command means that the
  stream ended inside it (`ErrorExplained`).
* **ConfigProofs**: `PrecedenceSafe`, `UnwrapSafeAlways`, `MissingSafe`,
  `NothingOverlookedSafe`, for every input, where TLC has those that differ in
  two places.  The invariant says that up to the option `parse` looks
  at every option has its final value and was checked (`Settled`), and that
  from there on each has its value of the file or the defaults (`Base`).

Only model-checked: the liveness properties and the fairness part of
`ImplementsTable` (sockets are released in the end), since TLAPS has no support
for fairness and `ENABLED` here.  The four statements of section 4 that do not
hold are refuted by TLC.

## 6. Not modelled

* Start-up, certificates, logging, the endpoint's accept loop and the SOCKS5
  handshake: I/O or library code without state of this program.  SOCKS5 `bind`
  is refused with one reply.
* `send_authentication` of the client, one command on a stream of its own,
  which arrives, or does not, in `ServerConnection`; and the choice of 0-RTT.
* QUIC itself, tokio's channels, Mutex and `copy_bidirectional`, getopts,
  serde and the sockets are external and are modelled as the code uses them.
  Packet loss on the QUIC connection itself is QUIC's business; datagrams and
  UDP packets may be lost.
* Units of time other than in `Heartbeat`: that `server/src/config.rs:87` reads
  the documented milliseconds of `authentication_timeout` as seconds is outside
  these modules.
* A TCP peer that does not read: the copies always get room to write, so that
  an end stuck behind unread data is not seen.
* The number of wakers in a list, and memory in general, is not counted.
* What becomes of an association's packets after
  `MAX_UDP_RELAY_PACKET_SIZE` was taken from an older connection: a packet that
  is too large is lost, as any packet may be.
