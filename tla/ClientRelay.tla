----------------------------- MODULE ClientRelay -----------------------------
(***************************************************************************)
(* The relay of the TUIC client: manage_connection, which keeps the QUIC   *)
(* connection to the server (client/src/relay/connection.rs),              *)
(* process_request, which serves SOCKS5 requests on it (request.rs), and   *)
(* listen_incoming, which reads from it and notices its end (incoming.rs). *)
(*                                                                         *)
(* They share the current connection behind a tokio Mutex, whose waiters   *)
(* get it in FIFO order, and two hand-written futures: Wait, ready when a  *)
(* Register has been cloned, and IsClosed, ready when a connection ended.  *)
(* A poll of either reads and then registers a waker, in two steps.        *)
(*                                                                         *)
(* Connections are numbered in the order they are made.  What a request    *)
(* does on its connection is left to other modules, as are heartbeats.     *)
(***************************************************************************)
EXTENDS Naturals, Sequences

CONSTANTS Req,        \* requests, as many as ever come
          Manager,    \* manage_connection, as a holder of the Mutex
          Free,       \* nobody holds the Mutex
          MaxConn     \* bound: connections ever established

Conn == 1..MaxConn

NoConn == 0

ASSUME RelayAssumption ==
    /\ Manager \notin Req
    /\ Free \notin Req \cup {Manager}
    /\ MaxConn \in Nat

VARIABLES
    lock,         \* who holds the Mutex, or was handed it
    queue,        \* who waits for it
    conn,         \* the Option<Connection> inside
    made,         \* how many connections were established
    lost,         \* connections QUIC has lost or closed
    is_closed,    \* connections whose IsClosed::is_closed is set
    parked,       \* connections in whose IsClosed the manager's waker is
    incoming,     \* the oneshot chain to listen_incoming
    listening,    \* the connection listen_incoming reads from
    set,          \* listen_incoming is inside IsClosed::set: store | drain
    waker,        \* the waker in Register is set
    max_size,     \* the connection MAX_UDP_RELAY_PACKET_SIZE was taken from
    mpc,          \* where manage_connection is
    pc,           \* where each process_request is
    using,        \* the connection each request was given
    kind,         \* connect or associate
    result        \* what became of each request

vars == <<lock, queue, conn, made, lost, is_closed, parked, incoming,
          listening, set, waker, max_size, mpc, pc, using, kind, result>>

mutexVars == <<lock, queue, conn>>

quicVars == <<made, lost, max_size>>

closeVars == <<is_closed, parked, incoming, listening, set>>

reqVars == <<pc, using, kind, result>>

\* The steps of manage_connection that come with the lock guard.
Guarded == {"wait_count", "wait_store", "wait_parked", "connect", "sleep"}

TypeOK ==
    /\ lock \in Req \cup {Manager, Free}
    /\ queue \in Seq(Req \cup {Manager})
    /\ conn \in Conn \cup {NoConn}
    /\ made \in Conn \cup {NoConn}
    /\ lost \in SUBSET Conn
    /\ is_closed \in SUBSET Conn
    /\ parked \in SUBSET Conn
    /\ incoming \in Seq(Conn)
    /\ listening \in Conn \cup {NoConn}
    /\ set \in {"no", "store", "drain"}
    /\ waker \in BOOLEAN
    /\ max_size \in Conn \cup {NoConn}
    /\ mpc \in Guarded \cup {"close_load", "close_push", "close_parked",
                             "relock", "relocking"}
    /\ pc \in [Req -> {"idle", "cloned", "spawned", "locking", "run", "done"}]
    /\ using \in [Req -> Conn \cup {NoConn}]
    /\ kind \in [Req -> {"none", "connect", "associate"}]
    /\ result \in [Req -> {"none", "served", "failed", "timeout"}]

\* relay::init takes the Mutex before anyone can, and gives the guard to
\* manage_connection.
InitLock_Free == Free

InitLock == Manager

Init ==
    /\ lock = InitLock
    /\ queue = <<>>
    /\ conn = NoConn
    /\ made = 0
    /\ lost = {}
    /\ is_closed = {}
    /\ parked = {}
    /\ incoming = <<>>
    /\ listening = NoConn
    /\ set = "no"
    /\ waker = FALSE
    /\ max_size = NoConn
    /\ mpc = "wait_count"
    /\ pc = [r \in Req |-> "idle"]
    /\ using = [r \in Req |-> NoConn]
    /\ kind = [r \in Req |-> "none"]
    /\ result = [r \in Req |-> "none"]

-----------------------------------------------------------------------------
(***************************************************************************)
(* The Mutex.                                                              *)
(***************************************************************************)

\* w asks for the Mutex: it has it at once, or queues.
Acquire(w) ==
    IF lock = Free
      THEN lock' = w /\ UNCHANGED queue
      ELSE queue' = Append(queue, w) /\ UNCHANGED lock

\* Dropping the guard hands the Mutex to the first in the queue.
Release ==
    IF queue = <<>>
      THEN lock' = Free /\ UNCHANGED queue
      ELSE lock' = Head(queue) /\ queue' = Tail(queue)

-----------------------------------------------------------------------------
(***************************************************************************)
(* listen_requests and process_request.                                    *)
(***************************************************************************)

\* A request exists: its task holds a clone of Register.
Registered(r) == pc[r] \in {"cloned", "spawned", "locking", "run"}

\* Register::clone by listen_requests, one request at a time: the Arc is
\* cloned ...
CloneRegister(r, k) ==
    /\ pc[r] = "idle"
    /\ \A q \in Req : pc[q] # "cloned"
    /\ pc' = [pc EXCEPT ![r] = "cloned"]
    /\ kind' = [kind EXCEPT ![r] = k]
    /\ UNCHANGED <<mutexVars, quicVars, closeVars, waker, mpc, using, result>>

\* ... then the waker is taken and woken, and process_request is spawned.
WokenByRequest_Not == mpc

WokenByRequest == IF waker /\ mpc = "wait_parked" THEN "wait_count" ELSE mpc

WakeManager(r) ==
    /\ pc[r] = "cloned"
    /\ waker' = FALSE
    /\ mpc' = WokenByRequest
    /\ pc' = [pc EXCEPT ![r] = "spawned"]
    /\ UNCHANGED <<mutexVars, quicVars, closeVars, using, kind, result>>

\* conn.lock() under the request timeout ...
LockConn(r) ==
    /\ pc[r] = "spawned"
    /\ Acquire(r)
    /\ pc' = [pc EXCEPT ![r] = "locking"]
    /\ UNCHANGED <<conn, quicVars, closeVars, waker, mpc, using, kind, result>>

\* ... which is granted: clone the connection, drop the guard, ...
UseConn_KeepsLock(r) ==
    /\ pc[r] = "locking" /\ lock = r
    /\ using' = [using EXCEPT ![r] = conn]
    /\ pc' = [pc EXCEPT ![r] = "run"]
    /\ UNCHANGED <<mutexVars, quicVars, closeVars, waker, mpc, kind, result>>

UseConn(r) ==
    /\ pc[r] = "locking" /\ lock = r
    /\ using' = [using EXCEPT ![r] = conn]
    /\ Release
    /\ pc' = [pc EXCEPT ![r] = "run"]
    /\ UNCHANGED <<conn, quicVars, closeVars, waker, mpc, kind, result>>

\* ... or not in time: the request is given up.
TimeoutRequest(r) ==
    /\ pc[r] = "locking" /\ lock # r
    /\ \E i \in 1..Len(queue) :
          /\ queue[i] = r
          /\ queue' = SubSeq(queue, 1, i - 1)
                         \o SubSeq(queue, i + 1, Len(queue))
    /\ pc' = [pc EXCEPT ![r] = "done"]
    /\ result' = [result EXCEPT ![r] = "timeout"]
    /\ UNCHANGED <<lock, conn, quicVars, closeVars, waker, mpc, using, kind>>

Done(r, res) ==
    /\ pc' = [pc EXCEPT ![r] = "done"]
    /\ result' = [result EXCEPT ![r] = res]
    /\ UNCHANGED <<mutexVars, quicVars, closeVars, waker, mpc, using, kind>>

\* handle_packet_to, in a task of its own for each packet of an association,
\* sets the packet size from the connection the association uses, be it the
\* newest one or not, ...
PacketTo(r) ==
    /\ pc[r] \in {"run", "done"} /\ kind[r] = "associate"
    /\ using[r] # NoConn
    /\ max_size' = using[r]
    /\ UNCHANGED <<mutexVars, made, lost, closeVars, waker, mpc, reqVars>>

\* ... and handle_packet_from, in a task that listen_incoming spawned, from
\* the connection the packet came on.
PacketFrom(c) ==
    /\ c <= made
    /\ \A i \in 1..Len(incoming) : incoming[i] # c
    /\ max_size' = c
    /\ UNCHANGED <<mutexVars, made, lost, closeVars, waker, mpc, reqVars>>

\* handle_connect has the server's response or an error on its stream, or an
\* association's packet channel is closed by the SOCKS5 side and
\* handle_dissociate was sent.
RequestServed(r) == pc[r] = "run" /\ using[r] \notin lost /\ Done(r, "served")

\* handle_connect fails with the connection.  An association does not look
\* at the connection: its packets fail, and it lives on.
ConnectFails(r) ==
    /\ pc[r] = "run" /\ kind[r] = "connect" /\ using[r] \in lost
    /\ Done(r, "failed")

\* The SOCKS5 side ends an association whose connection is gone.
AssociateFails(r) ==
    /\ pc[r] = "run" /\ kind[r] = "associate" /\ using[r] \in lost
    /\ Done(r, "failed")

-----------------------------------------------------------------------------
(***************************************************************************)
(* manage_connection.                                                      *)
(***************************************************************************)

\* Wait::poll: strong_count() > 1 means ready ...
WaitCount ==
    /\ mpc = "wait_count"
    /\ mpc' = IF \E r \in Req : Registered(r) THEN "connect" ELSE "wait_store"
    /\ UNCHANGED <<mutexVars, quicVars, closeVars, waker, reqVars>>

\* ... else the waker is stored.
WaitStore ==
    /\ mpc = "wait_store"
    /\ waker' = TRUE
    /\ mpc' = "wait_parked"
    /\ UNCHANGED <<mutexVars, quicVars, closeVars, reqVars>>

\* Connection::connect fails: sleep a second and try again.
ConnectionFails ==
    /\ mpc = "connect"
    /\ mpc' = "sleep"
    /\ UNCHANGED <<mutexVars, quicVars, closeVars, waker, reqVars>>

Retry ==
    /\ mpc = "sleep"
    /\ mpc' = "wait_count"
    /\ UNCHANGED <<mutexVars, quicVars, closeVars, waker, reqVars>>

\* Connection::connect succeeds: put it into the Mutex, hand its streams to
\* listen_incoming with the next channel, take over its packet size, drop
\* the guard.
HandOver(c) == Append(incoming, c)

Establish ==
    /\ mpc = "connect"
    /\ made < MaxConn
    /\ made' = made + 1
    /\ conn' = made + 1
    /\ incoming' = HandOver(made + 1)
    /\ Release
    /\ max_size' = made + 1
    /\ mpc' = "close_load"
    /\ UNCHANGED <<lost, is_closed, parked, listening, set, waker, reqVars>>

\* new_conn.wait_close(), IsClosed::poll: is_closed.load() ...
CloseLoad_Anyway ==
    /\ mpc = "close_load"
    /\ mpc' = "relock"
    /\ UNCHANGED <<mutexVars, quicVars, closeVars, waker, reqVars>>

CloseLoad_NoLock ==
    /\ mpc = "close_load"
    /\ mpc' = IF made \in is_closed THEN "wait_count" ELSE "close_push"
    /\ UNCHANGED <<mutexVars, quicVars, closeVars, waker, reqVars>>

CloseLoad ==
    /\ mpc = "close_load"
    /\ mpc' = IF made \in is_closed THEN "relock" ELSE "close_push"
    /\ UNCHANGED <<mutexVars, quicVars, closeVars, waker, reqVars>>

\* ... else the waker is pushed.
ClosePush ==
    /\ mpc = "close_push"
    /\ parked' = parked \cup {made}
    /\ mpc' = "close_parked"
    /\ UNCHANGED <<mutexVars, made, lost, is_closed, incoming, listening, set,
                   waker, max_size, reqVars>>

\* conn.lock_owned().await, behind whoever queued before.
Relock ==
    /\ mpc = "relock"
    /\ Acquire(Manager)
    /\ mpc' = "relocking"
    /\ UNCHANGED <<conn, quicVars, closeVars, waker, reqVars>>

Relocked ==
    /\ mpc = "relocking" /\ lock = Manager
    /\ mpc' = "wait_count"
    /\ UNCHANGED <<mutexVars, quicVars, closeVars, waker, reqVars>>

-----------------------------------------------------------------------------
(***************************************************************************)
(* listen_incoming.                                                        *)
(***************************************************************************)

\* The next connection comes through the chain.
NextIncoming ==
    /\ listening = NoConn /\ incoming # <<>>
    /\ listening' = Head(incoming)
    /\ incoming' = Tail(incoming)
    /\ UNCHANGED <<mutexVars, made, lost, is_closed, parked, set, waker,
                   max_size, mpc, reqVars>>

\* Its datagrams or streams end with an error or None.
IncomingEnds ==
    /\ listening \in lost /\ set = "no"
    /\ set' = "store"
    /\ UNCHANGED <<mutexVars, made, lost, is_closed, parked, incoming,
                   listening, waker, max_size, mpc, reqVars>>

\* conn.set_closed(): store the flag, ...
StoreClosed ==
    /\ set = "store"
    /\ is_closed' = is_closed \cup {listening}
    /\ set' = "drain"
    /\ UNCHANGED <<mutexVars, made, lost, parked, incoming, listening, waker,
                   max_size, mpc, reqVars>>

\* ... drain and wake the wakers, and go for the next connection.
WokenByClose_Not == mpc

WokenByClose ==
    IF listening \in parked /\ mpc = "close_parked" THEN "close_load" ELSE mpc

WakeClosed ==
    /\ set = "drain"
    /\ mpc' = WokenByClose
    /\ parked' = parked \ {listening}
    /\ listening' = NoConn
    /\ set' = "no"
    /\ UNCHANGED <<mutexVars, made, lost, is_closed, incoming, waker, max_size,
                   reqVars>>

-----------------------------------------------------------------------------
\* QUIC loses the connection: closed by the server, timed out, reset.
ConnectionLost(c) ==
    /\ c <= made /\ c \notin lost
    /\ lost' = lost \cup {c}
    /\ UNCHANGED <<mutexVars, made, closeVars, max_size, waker, mpc, reqVars>>

ManagerStep ==
    \/ WaitCount \/ WaitStore \/ ConnectionFails \/ Retry \/ Establish
    \/ CloseLoad \/ ClosePush \/ Relock \/ Relocked

ListenerStep == NextIncoming \/ IncomingEnds \/ StoreClosed \/ WakeClosed

RequestStep(r) ==
    \/ WakeManager(r) \/ LockConn(r) \/ UseConn(r) \/ TimeoutRequest(r)
    \/ ConnectFails(r)

Next ==
    \/ \E r \in Req :
          \/ \E k \in {"connect", "associate"} : CloneRegister(r, k)
          \/ RequestStep(r) \/ RequestServed(r) \/ AssociateFails(r)
          \/ PacketTo(r)
    \/ ManagerStep
    \/ ListenerStep
    \/ \E c \in Conn : ConnectionLost(c) \/ PacketFrom(c)

\* Tasks that can go on do; an attempt to connect and the request timeout
\* end.  Nothing is assumed of the server's answers, of the SOCKS5 side, or
\* of how long a connection lasts.
Fairness ==
    /\ WF_vars(ManagerStep)
    /\ WF_vars(ListenerStep)
    /\ \A r \in Req : WF_vars(RequestStep(r))

Spec == Init /\ [][Next]_vars /\ Fairness

-----------------------------------------------------------------------------
(***************************************************************************)
(* Properties.                                                             *)
(***************************************************************************)

\* lock.take().unwrap() in manage_connection cannot panic, nor can two tasks
\* have the Option<Connection> at once: wherever it tries to connect, it has
\* the guard.
GuardInside == mpc \in Guarded => lock = Manager

\* lock.as_ref().unwrap() in process_request cannot panic: whoever is given
\* the Mutex finds a connection in it, the first request included.
UnwrapSafe == \A r \in Req : lock = r => conn # NoConn

\* Only the newest connection can be unknown to be closed: a new one is made
\* only after listen_incoming has given up the old one, so the chain of
\* oneshot channels never holds more than one connection.
OneConnection ==
    /\ \A c \in Conn : c < made => c \in is_closed
    /\ Len(incoming) <= 1

\* manage_connection gets the Mutex back after a connection ended, however
\* many requests queued before it and however long they go on: none holds
\* the guard while it uses the connection.
ManagerRegainsLock == (mpc = "relocking") ~> (mpc = "wait_count")

\* A connection that ends once manage_connection's waker is registered is
\* noticed, through listen_incoming and IsClosed::set.
RegisteredCloseIsNoticed ==
    (/\ mpc = "close_parked" /\ made \in parked
     /\ made \in lost /\ made \notin is_closed) ~> (mpc = "relocking")

\* A request that comes once the waker of Wait is stored wakes
\* manage_connection.
RegisteredWaitIsWoken ==
    (mpc = "wait_parked" /\ waker /\ \E r \in Req : pc[r] = "cloned")
        ~> (mpc = "wait_count")

\* What manage_connection says: "wait for the connection to be closed, lock
\* the mutex".
CloseIsNoticed ==
    (mpc = "close_parked" /\ made \in is_closed) ~> (mpc = "relocking")
=============================================================================
