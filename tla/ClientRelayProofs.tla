-------------------------- MODULE ClientRelayProofs --------------------------
(***************************************************************************)
(* Proofs about ClientRelay, for any number of requests and of             *)
(* connections.                                                            *)
(***************************************************************************)
EXTENDS ClientRelay, SequenceTheorems, TLAPS

\* The Mutex holds the newest connection, and none only before the first was
\* made, when manage_connection still has the guard.
Newest == conn = made /\ (made = 0 => mpc \in Guarded)

\* manage_connection goes for the Mutex only after its connection is closed.
ClosedBeforeRelock ==
    mpc \in Guarded \cup {"relock", "relocking"}
        => made = 0 \/ made \in is_closed

\* Connections are closed in the order they were made, by listen_incoming.
InOrder ==
    /\ \A c \in is_closed : c <= made
    /\ \A c \in Conn : c < made => c \in is_closed
    /\ listening <= made
    /\ set # "no" => listening # NoConn

\* The chain to listen_incoming is empty, or holds the newest connection,
\* which then is neither listened to nor closed.
Chain ==
    \/ incoming = <<>>
    \/ incoming = <<made>> /\ listening # made /\ made \notin is_closed

IInv ==
    /\ TypeOK
    /\ GuardInside
    /\ Newest
    /\ ClosedBeforeRelock
    /\ InOrder
    /\ Chain

-----------------------------------------------------------------------------
\* Before the first connection manage_connection has the guard and the chain
\* is empty.
LEMMA InitInv == Init => IInv
<1> SUFFICES ASSUME Init PROVE IInv
    OBVIOUS
<1> USE RelayAssumption DEF Init, InitLock, Conn, NoConn, Guarded
<1>1. TypeOK
  <2>1. queue \in Seq(Req \cup {Manager}) /\ incoming \in Seq(Conn)
    OBVIOUS
  <2>2. /\ pc \in [Req -> {"idle", "cloned", "spawned", "locking", "run",
                          "done"}]
        /\ using \in [Req -> Conn \cup {NoConn}]
        /\ kind \in [Req -> {"none", "connect", "associate"}]
        /\ result \in [Req -> {"none", "served", "failed", "timeout"}]
    OBVIOUS
  <2>3. QED
    BY <2>1, <2>2, ZenonT(40) DEF TypeOK
<1>2. GuardInside /\ Newest /\ ClosedBeforeRelock /\ InOrder /\ Chain
    BY DEF GuardInside, Newest, ClosedBeforeRelock, InOrder, Chain
<1>3. QED
    BY <1>1, <1>2 DEF IInv

\* Taking a waiter out of the queue leaves a queue.
LEMMA RemoveType ==
    ASSUME NEW S, NEW q \in Seq(S), NEW i \in 1..Len(q)
    PROVE  SubSeq(q, 1, i - 1) \o SubSeq(q, i + 1, Len(q)) \in Seq(S)
  OBVIOUS

\* Acquiring the Mutex never takes it from its holder, and keeps its types.
LEMMA AcquireFacts ==
    ASSUME TypeOK, NEW w \in Req \cup {Manager}, Acquire(w)
    PROVE  /\ lock' \in Req \cup {Manager, Free}
           /\ queue' \in Seq(Req \cup {Manager})
           /\ lock # Free => lock' = lock
<1>1. lock \in Req \cup {Manager, Free} /\ queue \in Seq(Req \cup {Manager})
    BY DEF TypeOK
<1>2. Append(queue, w) \in Seq(Req \cup {Manager})
    BY <1>1
<1>3. QED
    BY <1>1, <1>2 DEF Acquire

\* Releasing the Mutex keeps its types.
LEMMA ReleaseFacts ==
    ASSUME TypeOK, Release
    PROVE  /\ lock' \in Req \cup {Manager, Free}
           /\ queue' \in Seq(Req \cup {Manager})
<1>1. queue \in Seq(Req \cup {Manager})
    BY DEF TypeOK
<1>2. queue # <<>> => /\ Head(queue) \in Req \cup {Manager}
                      /\ Tail(queue) \in Seq(Req \cup {Manager})
    BY <1>1
<1>3. QED
    BY <1>1, <1>2 DEF Release

\* Every step of a request, of manage_connection, of listen_incoming and of
\* the network preserves the inductive invariant.
LEMMA StepInv == IInv /\ [Next]_vars => IInv'
<1> SUFFICES ASSUME IInv, [Next]_vars PROVE IInv'
    OBVIOUS
<1> USE RelayAssumption
    DEF IInv, TypeOK, GuardInside, Newest, ClosedBeforeRelock, InOrder, Chain,
        Guarded, Conn, NoConn, mutexVars, quicVars, closeVars, reqVars
<1>1. ASSUME NEW r \in Req, NEW k \in {"connect", "associate"},
             CloneRegister(r, k)
      PROVE  IInv'
    BY <1>1 DEF CloneRegister
<1>2. ASSUME NEW r \in Req, WakeManager(r)
      PROVE  IInv'
    BY <1>2, ZenonT(40) DEF WakeManager, WokenByRequest
<1>3. ASSUME NEW r \in Req, LockConn(r)
      PROVE  IInv'
    BY <1>3, AcquireFacts DEF LockConn
<1>4. ASSUME NEW r \in Req, UseConn(r)
      PROVE  IInv'
    BY <1>4, ReleaseFacts DEF UseConn
<1>5. ASSUME NEW r \in Req, TimeoutRequest(r)
      PROVE  IInv'
    BY <1>5, RemoveType DEF TimeoutRequest
<1>6. ASSUME NEW r \in Req, RequestServed(r)
      PROVE  IInv'
    BY <1>6 DEF RequestServed, Done
<1>7. ASSUME NEW r \in Req, ConnectFails(r)
      PROVE  IInv'
    BY <1>7 DEF ConnectFails, Done
<1>8. ASSUME NEW r \in Req, AssociateFails(r)
      PROVE  IInv'
    BY <1>8 DEF AssociateFails, Done
<1>9. ASSUME NEW r \in Req, PacketTo(r)
      PROVE  IInv'
    BY <1>9 DEF PacketTo
<1>10. CASE WaitCount
    BY <1>10 DEF WaitCount
<1>11. CASE WaitStore
    BY <1>11 DEF WaitStore
<1>12. CASE ConnectionFails
    BY <1>12 DEF ConnectionFails
<1>13. CASE Retry
    BY <1>13 DEF Retry
<1>14. CASE Establish
  <2> USE <1>14 DEF Establish, HandOver
  <2>1. made \in Nat /\ made + 1 \in Conn /\ made' = made + 1
    OBVIOUS
  <2>2. incoming = <<>>
    OBVIOUS
  <2>3. incoming' = <<made'>>
    BY <2>2
  <2>4. TypeOK'
    BY <2>1, <2>3, ReleaseFacts
  <2>5. (GuardInside /\ Newest /\ ClosedBeforeRelock)'
    BY <2>1
  <2>6. InOrder' /\ Chain'
    <3>1. \A c \in is_closed : c \in Nat /\ c <= made
      OBVIOUS
    <3>2. listening \in Nat /\ listening <= made
      OBVIOUS
    <3>3. Chain'
      <4>1. listening' # made' /\ made' \notin is_closed'
        BY <2>1, <3>1, <3>2
      <4>2. QED
        BY <2>3, <4>1, Zenon
    <3>4. \A c \in Conn : c < made' => c \in is_closed'
      <4> TAKE c \in Conn
      <4>1. c < made + 1 => c < made \/ c = made
        BY <2>1
      <4>2. QED
        BY <2>1, <4>1
    <3>5. QED
      BY <2>1, <3>1, <3>2, <3>3, <3>4
  <2>7. QED
    BY <2>4, <2>5, <2>6
<1>15. CASE CloseLoad
    BY <1>15 DEF CloseLoad
<1>16. CASE ClosePush
    BY <1>16 DEF ClosePush
<1>17. CASE Relock
    BY <1>17, AcquireFacts, SMTT(20) DEF Relock
<1>18. CASE Relocked
    BY <1>18 DEF Relocked
<1>19. CASE NextIncoming
  <2> USE <1>19 DEF NextIncoming
  <2>1. incoming = <<made>> /\ made \in Conn
    OBVIOUS
  <2>2. incoming' = <<>> /\ listening' = made
    BY <2>1
  <2>3. TypeOK'
    BY <2>1, <2>2
  <2>4. (GuardInside /\ Newest /\ ClosedBeforeRelock)'
    OBVIOUS
  <2>5. InOrder' /\ Chain'
    BY <2>1, <2>2
  <2>6. QED
    BY <2>3, <2>4, <2>5
<1>20. CASE IncomingEnds
    BY <1>20 DEF IncomingEnds
<1>21. CASE StoreClosed
    BY <1>21 DEF StoreClosed
<1>22. CASE WakeClosed
    BY <1>22 DEF WakeClosed, WokenByClose
<1>23. ASSUME NEW c \in Conn, ConnectionLost(c)
      PROVE  IInv'
    BY <1>23, SMTT(20) DEF ConnectionLost
<1>24. ASSUME NEW c \in Conn, PacketFrom(c)
      PROVE  IInv'
    BY <1>24 DEF PacketFrom
<1>25. CASE UNCHANGED vars
    BY <1>25 DEF vars
<1> HIDE DEF IInv
<1>26. QED
    BY <1>1, <1>2, <1>3, <1>4, <1>5, <1>6, <1>7, <1>8, <1>9, <1>10,
       <1>11, <1>12, <1>13, <1>14, <1>15, <1>16, <1>17, <1>18, <1>19,
       <1>20, <1>21, <1>22, <1>23, <1>24, <1>25
    DEF Next, RequestStep, ManagerStep, ListenerStep

\* The inductive invariant holds in every reachable state.
THEOREM Invariant == Spec => []IInv
<1>1. QED
    BY InitInv, StepInv, PTL DEF Spec

\* The client's relay keeps its types.
THEOREM TypeCorrect == Spec => []TypeOK
<1>1. IInv => TypeOK
    BY DEF IInv
<1>2. QED
    BY Invariant, <1>1, PTL

\* lock.take().unwrap() in manage_connection never meets None.
THEOREM GuardSafe == Spec => []GuardInside
<1>1. IInv => GuardInside
    BY DEF IInv
<1>2. QED
    BY Invariant, <1>1, PTL

\* lock.as_ref().unwrap() in process_request never meets None.
THEOREM RequestUnwrapSafe == Spec => []UnwrapSafe
<1>1. IInv => UnwrapSafe
    BY RelayAssumption DEF IInv, GuardInside, Newest, UnwrapSafe, NoConn
<1>2. QED
    BY Invariant, <1>1, PTL

\* Old connections are known to be closed, and the chain of oneshot channels
\* holds at most one connection.
THEOREM OneConnectionSafe == Spec => []OneConnection
<1>1. IInv => OneConnection
  <2> SUFFICES ASSUME IInv PROVE OneConnection
    OBVIOUS
  <2>1. \A c \in Conn : c < made => c \in is_closed
    BY DEF IInv, InOrder
  <2>2. Len(incoming) <= 1
    <3>1. Len(<<>>) = 0 /\ Len(<<made>>) = 1
      OBVIOUS
    <3>2. incoming = <<>> \/ incoming = <<made>>
      BY DEF IInv, Chain
    <3>3. CASE incoming = <<>>
      BY <3>1, <3>3
    <3>4. CASE incoming = <<made>>
      BY <3>1, <3>4
    <3>5. QED
      BY <3>2, <3>3, <3>4
  <2>3. QED
    BY <2>1, <2>2 DEF OneConnection
<1>2. QED
    BY Invariant, <1>1, PTL

-----------------------------------------------------------------------------
(***************************************************************************)
(* The Mutex: who holds it, who waits, and in which order.                 *)
(***************************************************************************)

Waits(w) == \E i \in 1..Len(queue) : queue[i] = w

\* w has the Mutex, or will be handed it.
Has(w) == lock = w \/ Waits(w)

\* A Mutex nobody holds is one nobody waits for, nobody waits for it twice and
\* its holder not at all.
Orderly ==
    /\ lock = Free => queue = <<>>
    /\ \A i, j \in 1..Len(queue) : queue[i] = queue[j] => i = j
    /\ ~Waits(lock)

\* The tasks that are inside lock() or have the guard.
Wants(w) ==
    IF w = Manager THEN mpc \in Guarded \cup {"relocking"}
                   ELSE pc[w] = "locking"

\* Nobody who is inside lock() is forgotten, and nobody who has given up or
\* let go of the guard is still in the way: with requests that time out while
\* they wait, the Mutex is held or waited for exactly by those who want it.
NobodyForgotten == Orderly /\ \A w \in Req \cup {Manager} : Wants(w) <=> Has(w)

\* What a queue looks like with one more at its end, ...
LEMMA AppendQueue ==
    ASSUME NEW S, NEW q \in Seq(S), NEW w \in S
    PROVE  /\ Append(q, w) \in Seq(S)
           /\ Len(q) \in Nat
           /\ Len(Append(q, w)) = Len(q) + 1
           /\ \A i \in 1..Len(q) : Append(q, w)[i] = q[i]
           /\ Append(q, w)[Len(q) + 1] = w
  OBVIOUS

\* ... without its first, ...
LEMMA TailQueue ==
    ASSUME NEW S, NEW q \in Seq(S), q # <<>>
    PROVE  /\ Len(q) \in Nat /\ Len(q) > 0
           /\ Head(q) = q[1]
           /\ Len(Tail(q)) = Len(q) - 1
           /\ \A i \in 1..(Len(q) - 1) : Tail(q)[i] = q[i + 1]
  OBVIOUS

\* (Two queues in a row, the second counted from the end of the first.)
LEMMA JoinQueues ==
    ASSUME NEW S, NEW a \in Seq(S), NEW b \in Seq(S)
    PROVE  /\ Len(a \o b) = Len(a) + Len(b)
           /\ \A j \in 1..Len(a) : (a \o b)[j] = a[j]
           /\ \A j \in 1..Len(b) : (a \o b)[Len(a) + j] = b[j]
<1> DEFINE p == a \o b
           m == Len(a)
           n == Len(b)
<1>0. m \in Nat /\ n \in Nat
    OBVIOUS
<1>1. /\ Len(p) = m + n
      /\ \A j \in 1..(m + n) : p[j] = IF j <= m THEN a[j] ELSE b[j - m]
    BY ConcatProperties, Zenon
<1> HIDE DEF p, m, n
<1>2. \A j \in 1..m : j \in 1..(m + n) /\ j <= m
    BY <1>0
<1>3. \A j \in 1..n : m + j \in 1..(m + n) /\ ~(m + j <= m) /\ (m + j) - m = j
    BY <1>0
<1>4. \A j \in 1..m : p[j] = a[j]
    BY <1>1, <1>2, Zenon
<1>5. \A j \in 1..n : p[m + j] = b[j]
  <2> TAKE j \in 1..n
  <2>1. p[m + j] = b[(m + j) - m]
    BY <1>1, <1>3, Zenon
  <2> QED BY <1>3, <2>1, Zenon
<1> QED BY <1>1, <1>4, <1>5, Zenon DEF p, m, n

\* ... and without one from its middle.
LEMMA RemoveQueue ==
    ASSUME NEW S, NEW q \in Seq(S), NEW n \in Nat, n = Len(q), NEW i \in 1..n
    PROVE  LET p == SubSeq(q, 1, i - 1) \o SubSeq(q, i + 1, Len(q)) IN
           /\ Len(p) = n - 1
           /\ \A j \in 1..(i - 1) : p[j] = q[j]
           /\ \A j \in i..(n - 1) : p[j] = q[j + 1]
<1> DEFINE a == SubSeq(q, 1, i - 1)
           b == SubSeq(q, i + 1, Len(q))
           p == a \o b
<1>1. /\ a \in Seq(S) /\ Len(a) = i - 1
      /\ \A j \in 1..(i - 1) : a[j] = q[j]
    OBVIOUS
<1>2. /\ b \in Seq(S) /\ Len(b) = n - i
      /\ \A j \in 1..(n - i) : b[j] = q[i + j]
    OBVIOUS
<1>3. i - 1 \in Nat /\ n - i \in Nat /\ (i - 1) + (n - i) = n - 1
    OBVIOUS
<1> HIDE DEF a, b
<1>4. /\ Len(p) = (i - 1) + (n - i)
      /\ \A j \in 1..(i - 1) : p[j] = a[j]
      /\ \A j \in 1..(n - i) : p[(i - 1) + j] = b[j]
  <2> DEFINE m == i - 1
             l == n - i
  <2>1. m \in Nat /\ l \in Nat /\ m = Len(a) /\ l = Len(b)
    BY <1>1, <1>2, <1>3
  <2>2. p = a \o b
    BY DEF p
  <2> HIDE DEF m, l, p
  <2>0. a \in Seq(S) /\ b \in Seq(S)
    BY <1>1, <1>2
  <2>3. /\ Len(a \o b) = Len(a) + Len(b)
        /\ \A j \in 1..Len(a) : (a \o b)[j] = a[j]
        /\ \A j \in 1..Len(b) : (a \o b)[Len(a) + j] = b[j]
    BY <2>0, JoinQueues
  <2>4. /\ Len(p) = m + l
        /\ \A j \in 1..m : p[j] = a[j]
        /\ \A j \in 1..l : p[m + j] = b[j]
    BY <2>1, <2>2, <2>3, Zenon
  <2> QED BY <2>4, Zenon DEF m, l
<1> HIDE DEF p
<1>5. \A j \in i..(n - 1) : /\ j - (i - 1) \in 1..(n - i)
                            /\ i + (j - (i - 1)) = j + 1
                            /\ (i - 1) + (j - (i - 1)) = j
    OBVIOUS
<1>6. \A j \in i..(n - 1) : p[j] = q[j + 1]
  <2> TAKE j \in i..(n - 1)
  <2> DEFINE k == j - (i - 1)
  <2>1. k \in 1..(n - i) /\ i + k = j + 1 /\ (i - 1) + k = j
    BY <1>5, Zenon
  <2> HIDE DEF k
  <2>2. p[(i - 1) + k] = q[i + k]
    BY <1>2, <1>4, <2>1, Zenon
  <2> QED BY <2>1, <2>2, Zenon
<1>7. \A j \in 1..(i - 1) : p[j] = q[j]
    BY <1>1, <1>4, Zenon
<1>8. Len(p) = n - 1
    BY <1>3, <1>4, Zenon
<1> QED BY <1>6, <1>7, <1>8, Zenon DEF p, a, b

\* Asking for the Mutex adds the one who asks, at the end.
LEMMA AcquireOrderly ==
    ASSUME TypeOK, Orderly, NEW w \in Req \cup {Manager}, ~Has(w), Acquire(w)
    PROVE  /\ Orderly'
           /\ \A v \in Req \cup {Manager} : Has(v)' <=> Has(v) \/ v = w
<1> USE DEF Has, Waits
<1>1. queue \in Seq(Req \cup {Manager}) /\ w # Free
    BY RelayAssumption DEF TypeOK
<1>2. CASE lock = Free
  <2>1. queue = <<>> /\ queue' = <<>> /\ lock' = w /\ Len(queue) = 0
    BY <1>2 DEF Acquire, Orderly
  <2> QED BY <1>1, <1>2, <2>1, RelayAssumption DEF Orderly
<1>3. CASE lock # Free
  <2>1. queue' = Append(queue, w) /\ lock' = lock
    BY <1>3 DEF Acquire
  <2> DEFINE n == Len(queue)
  <2>2. /\ n \in Nat /\ Len(queue') = n + 1
        /\ \A i \in 1..n : queue'[i] = queue[i]
        /\ queue'[n + 1] = w
    BY <1>1, <2>1, AppendQueue
  <2> HIDE DEF n
  <2>3. /\ \A i, j \in 1..n : queue[i] = queue[j] => i = j
        /\ \A i \in 1..n : queue[i] # lock /\ queue[i] # w
        /\ lock # w
    BY DEF Orderly, n
  <2>4. \A i \in 1..(n + 1) : i \in 1..n \/ i = n + 1
    BY <2>2
  <2>5. \A i, j \in 1..(n + 1) : queue'[i] = queue'[j] => i = j
    BY <2>2, <2>3, <2>4, Zenon
  <2>6. \A i \in 1..(n + 1) : queue'[i] # lock'
    BY <2>1, <2>2, <2>3, <2>4, Zenon
  <2>7. Orderly'
    BY <1>3, <2>1, <2>2, <2>5, <2>6 DEF Orderly
  <2>8. \A v : Waits(v)' <=> Waits(v) \/ v = w
    <3>1. n + 1 \in 1..(n + 1) /\ \A i \in 1..n : i \in 1..(n + 1)
      BY <2>2
    <3> QED BY <2>2, <2>4, <3>1, Zenon DEF n
  <2> QED BY <2>1, <2>7, <2>8
<1> QED BY <1>2, <1>3

\* Letting go of the Mutex takes its holder away, and no one else.
LEMMA ReleaseOrderly ==
    ASSUME TypeOK, Orderly, lock # Free, Release
    PROVE  /\ Orderly'
           /\ \A v \in Req \cup {Manager} : Has(v)' <=> Has(v) /\ v # lock
<1> USE DEF Has, Waits
<1>1. queue \in Seq(Req \cup {Manager})
    BY DEF TypeOK
<1>2. CASE queue = <<>>
  <2>1. queue' = <<>> /\ lock' = Free /\ Len(queue) = 0
    BY <1>2 DEF Release
  <2> QED BY <1>1, <1>2, <2>1, RelayAssumption DEF Orderly
<1>3. CASE queue # <<>>
  <2>1. lock' = Head(queue) /\ queue' = Tail(queue)
    BY <1>3 DEF Release
  <2> DEFINE n == Len(queue)
  <2>2. /\ n \in Nat /\ n > 0 /\ Len(queue') = n - 1
        /\ lock' = queue[1]
        /\ \A i \in 1..(n - 1) : queue'[i] = queue[i + 1]
    BY <1>1, <1>3, <2>1, TailQueue
  <2> HIDE DEF n
  <2>3. /\ \A i, j \in 1..n : queue[i] = queue[j] => i = j
        /\ \A i \in 1..n : queue[i] # lock
    BY DEF Orderly, n
  <2>4. /\ \A i \in 1..(n - 1) : i + 1 \in 1..n /\ i + 1 # 1
        /\ \A i, j \in 1..(n - 1) : i + 1 = j + 1 => i = j
        /\ \A i \in 1..n : i = 1 \/ \E j \in 1..(n - 1) : i = j + 1
        /\ 1 \in 1..n
    <3>1. \A i \in 1..n : i # 1 => i - 1 \in 1..(n - 1) /\ i = (i - 1) + 1
      BY <2>2
    <3>2. \A i \in 1..n : i = 1 \/ \E j \in 1..(n - 1) : i = j + 1
      BY <3>1, Zenon
    <3>3. /\ \A i \in 1..(n - 1) : i + 1 \in 1..n /\ i + 1 # 1
          /\ \A i, j \in 1..(n - 1) : i + 1 = j + 1 => i = j
          /\ 1 \in 1..n
      BY <2>2
    <3> QED BY <3>2, <3>3
  <2>5. \A i, j \in 1..(n - 1) : queue'[i] = queue'[j] => i = j
    <3> TAKE i, j \in 1..(n - 1)
    <3>1. queue'[i] = queue[i + 1] /\ queue'[j] = queue[j + 1]
      BY <2>2
    <3>2. queue[i + 1] = queue[j + 1] => i + 1 = j + 1
      BY <2>3, <2>4
    <3> QED BY <2>4, <3>1, <3>2
  <2>6. \A i \in 1..(n - 1) : queue'[i] # lock'
    BY <2>2, <2>3, <2>4, ZenonT(40)
  <2>7. lock' # Free
    BY <1>1, <1>3, <2>1, RelayAssumption
  <2>8. Orderly'
    BY <2>2, <2>5, <2>6, <2>7, ZenonT(40) DEF Orderly
  <2>9. \A v : Waits(v) <=> Waits(v)' \/ v = lock'
    <3> TAKE v
    <3>1. ASSUME NEW i \in 1..n, queue[i] = v PROVE Waits(v)' \/ v = lock'
      <4>1. CASE i = 1
        BY <2>2, <3>1, <4>1
      <4>2. ASSUME NEW j \in 1..(n - 1), i = j + 1 PROVE Waits(v)'
        BY <2>2, <3>1, <4>2, ZenonT(40)
      <4> QED BY <2>4, <4>1, <4>2
    <3>2. ASSUME NEW i \in 1..(n - 1), queue'[i] = v PROVE Waits(v)
      BY <2>2, <2>4, <3>2 DEF n
    <3>3. v = lock' => Waits(v)
      BY <2>2, <2>4 DEF n
    <3> QED BY <2>2, <3>1, <3>2, <3>3 DEF n
  <2>10. ~Waits(lock)
    BY DEF Orderly
  <2> QED BY <2>8, <2>9, <2>10, Zenon
<1> QED BY <1>2, <1>3

\* Giving up takes the one who gives up out of the queue, and no one else.
LEMMA GiveUpOrderly ==
    ASSUME TypeOK, Orderly, NEW i \in 1..Len(queue), UNCHANGED lock,
           queue' = SubSeq(queue, 1, i - 1) \o SubSeq(queue, i + 1, Len(queue))
    PROVE  /\ Orderly'
           /\ \A v \in Req \cup {Manager} : Has(v)' <=> Has(v) /\ v # queue[i]
<1> USE DEF Has, Waits
<1> DEFINE n == Len(queue)
<1>1. queue \in Seq(Req \cup {Manager}) /\ n \in Nat
    BY DEF TypeOK
<1>2. /\ Len(queue') = n - 1
      /\ \A j \in 1..(i - 1) : queue'[j] = queue[j]
      /\ \A j \in i..(n - 1) : queue'[j] = queue[j + 1]
    BY <1>1, RemoveQueue, ZenonT(40)
<1>3. i \in 1..n
    OBVIOUS
<1>4. /\ \A j, k \in 1..n : queue[j] = queue[k] => j = k
      /\ \A j \in 1..n : queue[j] # lock
    BY DEF Orderly
<1> HIDE DEF n
\* Where each of those that stay was before.
<1> DEFINE was(j) == IF j < i THEN j ELSE j + 1
<1>5. \A j \in 1..(n - 1) : /\ was(j) \in 1..n /\ was(j) # i
                            /\ queue'[j] = queue[was(j)]
  <2> TAKE j \in 1..(n - 1)
  <2>1. CASE j < i
    <3>1. j \in 1..(i - 1) /\ j \in 1..n /\ j # i
      BY <1>1, <1>3, <2>1
    <3> QED BY <1>2, <2>1, <3>1, ZenonT(40)
  <2>2. CASE ~(j < i)
    <3>1. j \in i..(n - 1) /\ j + 1 \in 1..n /\ j + 1 # i
      BY <1>1, <1>3, <2>2
    <3> QED BY <1>2, <2>2, <3>1, ZenonT(40)
  <2> QED BY <2>1, <2>2, ZenonT(40)
<1>6. \A j, k \in 1..(n - 1) : was(j) = was(k) => j = k
    BY <1>1, <1>3
<1>7. \A k \in 1..n : k = i \/ \E j \in 1..(n - 1) : was(j) = k
  <2> TAKE k \in 1..n
  <2>1. CASE k < i
    <3>1. k \in 1..(n - 1) /\ was(k) = k
      BY <1>1, <1>3, <2>1
    <3> QED BY <3>1
  <2>2. CASE k > i
    <3>1. k - 1 \in 1..(n - 1) /\ was(k - 1) = k
      BY <1>1, <1>3, <2>2
    <3> QED BY <3>1
  <2> QED BY <1>1, <1>3, <2>1, <2>2
<1> HIDE DEF was
<1>8. \A j, k \in 1..(n - 1) : queue'[j] = queue'[k] => j = k
  <2> TAKE j, k \in 1..(n - 1)
  <2>1. queue'[j] = queue'[k] => was(j) = was(k)
    BY <1>4, <1>5, ZenonT(40)
  <2> QED BY <1>6, <2>1, ZenonT(40)
<1>9. \A j \in 1..(n - 1) : queue'[j] # lock /\ queue'[j] # queue[i]
  <2> TAKE j \in 1..(n - 1)
  <2>1. was(j) \in 1..n /\ was(j) # i /\ queue'[j] = queue[was(j)]
    BY <1>5, ZenonT(40)
  <2>2. queue[was(j)] # lock /\ (queue[was(j)] = queue[i] => was(j) = i)
    BY <1>3, <1>4, <2>1, Zenon
  <2> QED BY <2>1, <2>2, ZenonT(40)
<1>10. lock # Free
  <2>1. queue # <<>>
    BY <1>1, <1>3 DEF n
  <2> QED BY <2>1 DEF Orderly
<1>11. Orderly'
  <2>1. lock' # Free /\ lock' = lock
    BY <1>10, Zenon
  <2>2. \A j, k \in 1..Len(queue') : queue'[j] = queue'[k] => j = k
    BY <1>2, <1>8, Zenon
  <2>3. ~Waits(lock)'
    BY <1>2, <1>9, <2>1, Zenon
  <2> QED BY <2>1, <2>2, <2>3, ZenonT(40) DEF Orderly
<1>12. \A v : Waits(v)' <=> Waits(v) /\ v # queue[i]
  <2> TAKE v
  <2>1. ASSUME NEW j \in 1..(n - 1), queue'[j] = v
        PROVE  Waits(v) /\ v # queue[i]
    <3>1. was(j) \in 1..n /\ queue[was(j)] = v
      BY <1>5, <2>1, ZenonT(40)
    <3>2. v # queue[i]
      BY <1>9, <2>1, ZenonT(40)
    <3> QED BY <3>1, <3>2 DEF n
  <2>2. ASSUME NEW k \in 1..n, queue[k] = v, v # queue[i]
        PROVE  Waits(v)'
    <3>1. PICK j \in 1..(n - 1) : was(j) = k
      BY <1>7, <2>2
    <3> QED BY <1>2, <1>5, <2>2, <3>1, ZenonT(40)
  <2> QED BY <1>2, <2>1, <2>2, ZenonT(40) DEF n
<1> QED BY <1>3, <1>4, <1>11, <1>12, Zenon

-----------------------------------------------------------------------------
\* The Mutex and the tasks before the first connection.
LEMMA InitForgotten == Init => NobodyForgotten
<1> SUFFICES ASSUME Init PROVE NobodyForgotten
    OBVIOUS
<1>1. queue = <<>> /\ Len(queue) = 0 /\ lock = Manager
    BY DEF Init, InitLock
<1>2. \A w : ~Waits(w)
    BY <1>1 DEF Waits
<1>3. Orderly
    BY <1>1, <1>2, RelayAssumption DEF Orderly
<1>4. \A w \in Req \cup {Manager} : Wants(w) <=> lock = w
    BY <1>1, RelayAssumption DEF Init, Wants, Guarded
<1> QED BY <1>2, <1>3, <1>4 DEF NobodyForgotten, Has

\* A step that leaves the Mutex, and who wants it, alone.
LEMMA SameMutex ==
    ASSUME NobodyForgotten, UNCHANGED <<lock, queue>>,
           \A w \in Req \cup {Manager} : Wants(w)' <=> Wants(w)
    PROVE  NobodyForgotten'
  BY DEF NobodyForgotten, Orderly, Has, Waits

\* Every step keeps the books of the Mutex.
LEMMA StepForgotten ==
    ASSUME IInv, NobodyForgotten, [Next]_vars
    PROVE  NobodyForgotten'
<1> USE RelayAssumption DEF mutexVars, quicVars, closeVars, reqVars, Guarded
<1>0. TypeOK /\ GuardInside
    BY DEF IInv
<1>1. ASSUME NEW r \in Req, NEW k \in {"connect", "associate"},
             CloneRegister(r, k)
      PROVE  NobodyForgotten'
    BY <1>0, <1>1, SameMutex DEF CloneRegister, TypeOK, Wants
<1>2. ASSUME NEW r \in Req, WakeManager(r)
      PROVE  NobodyForgotten'
    BY <1>0, <1>2, SameMutex DEF WakeManager, WokenByRequest, TypeOK, Wants
<1>3. ASSUME NEW r \in Req, LockConn(r)
      PROVE  NobodyForgotten'
  <2>1. ~Wants(r) /\ ~Has(r) /\ Acquire(r)
    BY <1>3 DEF LockConn, Wants, NobodyForgotten
  <2>2. \A w \in Req \cup {Manager} : Wants(w)' <=> Wants(w) \/ w = r
    BY <1>0, <1>3 DEF LockConn, TypeOK, Wants
  <2> QED BY <1>0, <2>1, <2>2, AcquireOrderly DEF NobodyForgotten
<1>4. ASSUME NEW r \in Req, UseConn(r)
      PROVE  NobodyForgotten'
  <2>1. lock = r /\ lock # Free /\ Release
    BY <1>4 DEF UseConn
  <2>2. \A w \in Req \cup {Manager} : Wants(w)' <=> Wants(w) /\ w # r
    BY <1>0, <1>4 DEF UseConn, TypeOK, Wants
  <2> QED BY <1>0, <2>1, <2>2, ReleaseOrderly DEF NobodyForgotten
<1>5. ASSUME NEW r \in Req, TimeoutRequest(r)
      PROVE  NobodyForgotten'
  <2>1. PICK i \in 1..Len(queue) :
           /\ queue[i] = r
           /\ queue' = SubSeq(queue, 1, i - 1)
                          \o SubSeq(queue, i + 1, Len(queue))
    BY <1>5, ZenonT(40) DEF TimeoutRequest
  <2>2. \A w \in Req \cup {Manager} : Wants(w)' <=> Wants(w) /\ w # r
    BY <1>0, <1>5, Zenon DEF TimeoutRequest, TypeOK, Wants
  <2>3. UNCHANGED lock
    BY <1>5 DEF TimeoutRequest
  <2>4. /\ Orderly'
        /\ \A v \in Req \cup {Manager} : Has(v)' <=> Has(v) /\ v # r
    BY <1>0, <2>1, <2>3, GiveUpOrderly, ZenonT(40) DEF NobodyForgotten
  <2> QED BY <2>2, <2>4, Zenon DEF NobodyForgotten
<1>6. ASSUME NEW r \in Req,
             RequestServed(r) \/ ConnectFails(r) \/ AssociateFails(r)
      PROVE  NobodyForgotten'
    BY <1>0, <1>6, SameMutex
    DEF RequestServed, ConnectFails, AssociateFails, Done, TypeOK, Wants
<1>7. ASSUME NEW r \in Req, PacketTo(r)
      PROVE  NobodyForgotten'
    BY <1>7, SameMutex DEF PacketTo, Wants
<1>8. CASE WaitCount \/ WaitStore \/ ConnectionFails \/ Retry
    BY <1>8, SameMutex DEF WaitCount, WaitStore, ConnectionFails, Retry, Wants
<1>9. CASE Establish
  <2>1. lock = Manager /\ lock # Free /\ Release
    BY <1>0, <1>9 DEF Establish, GuardInside
  <2>2. \A w \in Req \cup {Manager} : Wants(w)' <=> Wants(w) /\ w # Manager
    BY <1>9 DEF Establish, Wants
  <2> QED BY <1>0, <2>1, <2>2, ReleaseOrderly DEF NobodyForgotten
<1>10. CASE CloseLoad \/ ClosePush
    BY <1>10, SameMutex DEF CloseLoad, ClosePush, Wants
<1>11. CASE Relock
  <2>1. ~Wants(Manager) /\ ~Has(Manager) /\ Acquire(Manager)
    BY <1>11 DEF Relock, Wants, NobodyForgotten
  <2>2. \A w \in Req \cup {Manager} : Wants(w)' <=> Wants(w) \/ w = Manager
    BY <1>11 DEF Relock, Wants
  <2> QED BY <1>0, <2>1, <2>2, AcquireOrderly DEF NobodyForgotten
<1>12. CASE Relocked
    BY <1>12, SameMutex DEF Relocked, Wants
<1>13. CASE NextIncoming \/ IncomingEnds \/ StoreClosed
    BY <1>13, SameMutex DEF NextIncoming, IncomingEnds, StoreClosed, Wants
<1>14. CASE WakeClosed
    BY <1>14, SameMutex DEF WakeClosed, WokenByClose, Wants
<1>15. ASSUME NEW c \in Conn, ConnectionLost(c) \/ PacketFrom(c)
      PROVE  NobodyForgotten'
    BY <1>15, SameMutex DEF ConnectionLost, PacketFrom, Wants
<1>16. CASE UNCHANGED vars
    BY <1>16, SameMutex DEF vars, Wants
<1> QED
    BY <1>1, <1>2, <1>3, <1>4, <1>5, <1>6, <1>7, <1>8, <1>9, <1>10, <1>11,
       <1>12, <1>13, <1>14, <1>15, <1>16
    DEF Next, RequestStep, ManagerStep, ListenerStep

\* The Mutex is never left held, or queued for, by a task that is not there
\* for it, and never free with someone waiting.
THEOREM MutexSafe == Spec => []NobodyForgotten
<1>1. Init => IInv /\ NobodyForgotten
    BY InitInv, InitForgotten
<1>2. IInv /\ NobodyForgotten /\ [Next]_vars => (IInv /\ NobodyForgotten)'
    BY StepInv, StepForgotten
<1> QED BY <1>1, <1>2, PTL DEF Spec

\* Nobody is overtaken in the queue: whoever waits at a place is handed the
\* Mutex, has given up, or waits at the same place or further ahead.
KeepsPlace(i) ==
    \/ lock' = queue[i]
    \/ \E j \in 1..i : j <= Len(queue') /\ queue'[j] = queue[i]
    \/ queue[i] \in Req /\ pc'[queue[i]] = "done"

NoOvertaking == [][\A i \in 1..Len(queue) : KeepsPlace(i)]_vars

\* The places are kept by what the Mutex does.
LEMMA StepPlace ==
    ASSUME IInv, [Next]_vars, NEW i \in 1..Len(queue)
    PROVE  KeepsPlace(i)
<1> USE DEF KeepsPlace
<1>0. /\ queue \in Seq(Req \cup {Manager}) /\ Len(queue) \in Nat
      /\ i \in 1..i /\ i <= Len(queue)
      /\ pc \in [Req -> {"idle", "cloned", "spawned", "locking", "run",
                         "done"}]
    BY DEF IInv, TypeOK
<1>1. CASE UNCHANGED queue
    BY <1>0, <1>1
<1>2. ASSUME NEW w \in Req \cup {Manager}, Acquire(w)
      PROVE  KeepsPlace(i)
  <2>1. CASE UNCHANGED queue
    BY <1>1, <2>1
  <2>2. CASE queue' = Append(queue, w)
    <3>1. Len(queue') = Len(queue) + 1 /\ queue'[i] = queue[i]
      BY <1>0, <2>2, AppendQueue
    <3>2. i <= Len(queue) + 1
      BY <1>0
    <3> QED BY <1>0, <3>1, <3>2
  <2> QED BY <1>2, <2>1, <2>2 DEF Acquire
<1>3. CASE Release
  <2>1. CASE queue = <<>>
    BY <2>1
  <2>2. CASE queue # <<>>
    <3> DEFINE n == Len(queue)
    <3>1. lock' = Head(queue) /\ queue' = Tail(queue)
      BY <1>3, <2>2 DEF Release
    <3>2. /\ lock' = queue[1] /\ Len(queue') = n - 1
          /\ \A j \in 1..(n - 1) : queue'[j] = queue[j + 1]
      BY <1>0, <2>2, <3>1, TailQueue
    <3> HIDE DEF n
    <3>3. n \in Nat /\ i \in 1..n
      BY <1>0 DEF n
    <3>4. CASE i # 1
      <4>1. i - 1 \in 1..(n - 1) /\ i - 1 \in 1..i /\ i - 1 <= n - 1
            /\ (i - 1) + 1 = i
        BY <3>3, <3>4
      <4> QED BY <3>2, <4>1
    <3> QED BY <3>2, <3>4
  <2> QED BY <2>1, <2>2
<1>4. ASSUME NEW r \in Req, TimeoutRequest(r)
      PROVE  KeepsPlace(i)
  <2> DEFINE n == Len(queue)
  <2>1. PICK k \in 1..n :
           /\ queue[k] = r
           /\ queue' = SubSeq(queue, 1, k - 1) \o SubSeq(queue, k + 1, n)
    BY <1>4, ZenonT(40) DEF TimeoutRequest
  <2>2. /\ Len(queue') = n - 1
        /\ \A j \in 1..(k - 1) : queue'[j] = queue[j]
        /\ \A j \in k..(n - 1) : queue'[j] = queue[j + 1]
    BY <1>0, <2>1, RemoveQueue, ZenonT(40)
  <2>3. pc'[r] = "done"
    BY <1>0, <1>4 DEF TimeoutRequest
  <2> HIDE DEF n
  <2>4. n \in Nat /\ i \in 1..n
    BY <1>0 DEF n
  <2>5. CASE i = k
    BY <2>1, <2>3, <2>5, Zenon
  <2>6. CASE i < k
    <3>1. i \in 1..(k - 1) /\ i \in 1..i /\ i <= n - 1
      BY <2>4, <2>6
    <3> QED BY <2>2, <3>1, Zenon
  <2>7. CASE i > k
    <3>1. i - 1 \in k..(n - 1) /\ i - 1 \in 1..i /\ i - 1 <= n - 1
          /\ (i - 1) + 1 = i
      BY <2>4, <2>7
    <3>2. queue'[i - 1] = queue[i]
      BY <2>2, <3>1, Zenon
    <3> QED BY <2>2, <3>1, <3>2, Zenon
  <2> QED BY <2>4, <2>5, <2>6, <2>7
<1> HIDE DEF KeepsPlace
<1>5. \/ UNCHANGED queue
      \/ \E w \in Req \cup {Manager} : Acquire(w)
      \/ Release
      \/ \E r \in Req : TimeoutRequest(r)
  <2>1. ASSUME NEW r \in Req, NEW k \in {"connect", "associate"},
               \/ CloneRegister(r, k) \/ WakeManager(r) \/ RequestServed(r)
               \/ ConnectFails(r) \/ AssociateFails(r) \/ PacketTo(r)
        PROVE  UNCHANGED queue
    BY <2>1 DEF CloneRegister, WakeManager, RequestServed, ConnectFails,
       AssociateFails, PacketTo, Done, mutexVars
  <2>2. ASSUME \/ WaitCount \/ WaitStore \/ ConnectionFails \/ Retry
               \/ CloseLoad \/ ClosePush \/ Relocked
        PROVE  UNCHANGED queue
    BY <2>2 DEF WaitCount, WaitStore, ConnectionFails, Retry, CloseLoad,
       ClosePush, Relocked, mutexVars
  <2>3. ASSUME ListenerStep PROVE UNCHANGED queue
    BY <2>3 DEF ListenerStep, NextIncoming, IncomingEnds, StoreClosed,
       WakeClosed, mutexVars
  <2>4. ASSUME NEW c \in Conn, ConnectionLost(c) \/ PacketFrom(c)
        PROVE  UNCHANGED queue
    BY <2>4 DEF ConnectionLost, PacketFrom, mutexVars
  <2>5. /\ \A r \in Req : /\ LockConn(r) => Acquire(r)
                          /\ UseConn(r) => Release
        /\ Relock => Acquire(Manager)
        /\ Establish => Release
    BY DEF LockConn, UseConn, Relock, Establish
  <2>6. UNCHANGED vars => UNCHANGED queue
    BY DEF vars
  <2> QED BY <2>1, <2>2, <2>3, <2>4, <2>5, <2>6
          DEF Next, RequestStep, ManagerStep
<1> QED BY <1>1, <1>2, <1>3, <1>4, <1>5, Zenon

\* Why manage_connection gets the Mutex back however many requests keep
\* coming: those behind it stay behind it.
THEOREM FifoSafe == Spec => NoOvertaking
<1>1. IInv /\ [Next]_vars => [\A i \in 1..Len(queue) : KeepsPlace(i)]_vars
    BY StepPlace
<1> QED BY <1>1, Invariant, PTL DEF Spec, NoOvertaking

-----------------------------------------------------------------------------
(***************************************************************************)
(* The lost close.                                                         *)
(***************************************************************************)

\* manage_connection sleeps in wait_close() although its connection is closed,
\* and no IsClosed::set is about to wake it.
LostClose ==
    /\ mpc = "close_parked"
    /\ made \in is_closed
    /\ ~(set = "drain" /\ listening = made)

\* listen_incoming is inside set() exactly while the connection it reads from
\* is both over and kept; what is closed was lost before; and the waker of
\* manage_connection is there exactly while it sleeps in wait_close().
Closing ==
    /\ listening \in is_closed <=> set = "drain"
    /\ set # "no" => listening \in lost
    /\ is_closed \subseteq lost
    /\ parked = IF mpc = "close_parked" THEN {made} ELSE {}

\* These are kept by every step.
LEMMA StepClosing ==
    ASSUME IInv, Closing, [Next]_vars
    PROVE  Closing'
<1> USE RelayAssumption
    DEF Closing, mutexVars, quicVars, closeVars, reqVars
<1>0. /\ listening \in Conn \cup {NoConn} /\ is_closed \subseteq Conn
      /\ made \in Conn \cup {NoConn}
      /\ set \in {"no", "store", "drain"}
      /\ NoConn \notin Conn
    BY DEF IInv, TypeOK, Conn, NoConn
<1>1. ASSUME NEW r \in Req, NEW k \in {"connect", "associate"},
             \/ CloneRegister(r, k) \/ LockConn(r) \/ UseConn(r)
             \/ TimeoutRequest(r) \/ RequestServed(r) \/ ConnectFails(r)
             \/ AssociateFails(r) \/ PacketTo(r)
      PROVE  Closing'
  <2>1. UNCHANGED <<closeVars, lost, made, mpc>>
    BY <1>1, ZenonT(40) DEF CloneRegister, LockConn, UseConn, TimeoutRequest,
       RequestServed, ConnectFails, AssociateFails, PacketTo, Done
  <2> QED BY <2>1, SMTT(30)
<1>2. ASSUME NEW r \in Req, WakeManager(r)
      PROVE  Closing'
    BY <1>2 DEF WakeManager, WokenByRequest
<1>3. CASE \/ WaitCount \/ WaitStore \/ ConnectionFails \/ Retry
           \/ CloseLoad \/ Relock \/ Relocked
  <2>1. /\ UNCHANGED <<closeVars, lost, made>>
        /\ mpc # "close_parked" /\ mpc' # "close_parked"
    BY <1>3 DEF WaitCount, WaitStore, ConnectionFails, Retry, CloseLoad,
       Relock, Relocked
  <2> QED BY <2>1
<1>4. CASE Establish
    BY <1>4 DEF Establish
<1>5. CASE ClosePush
    BY <1>5 DEF ClosePush
<1>6. CASE NextIncoming
  <2>1. /\ listening = NoConn /\ set = "no"
        /\ UNCHANGED <<lost, made, mpc, is_closed, parked, set>>
    BY <1>0, <1>6 DEF NextIncoming, IInv, InOrder
  <2>2. listening' = made /\ made \notin is_closed
    <3>1. incoming = <<made>> /\ made \notin is_closed
      BY <1>6 DEF NextIncoming, IInv, Chain
    <3>2. Head(<<made>>) = made
      OBVIOUS
    <3> QED BY <1>6, <3>1, <3>2 DEF NextIncoming
  <2> QED BY <2>1, <2>2
<1>7. CASE IncomingEnds
    BY <1>0, <1>7 DEF IncomingEnds
<1>8. CASE StoreClosed
    BY <1>0, <1>8 DEF StoreClosed
<1>9. CASE WakeClosed
    BY <1>0, <1>9 DEF WakeClosed, WokenByClose
<1>10. ASSUME NEW c \in Conn, ConnectionLost(c) \/ PacketFrom(c)
      PROVE  Closing'
    BY <1>10 DEF ConnectionLost, PacketFrom
<1>11. CASE UNCHANGED vars
    BY <1>11 DEF vars
<1> HIDE DEF Closing
<1> QED
    BY <1>1, <1>2, <1>3, <1>4, <1>5, <1>6, <1>7, <1>8, <1>9, <1>10, <1>11
    DEF Next, RequestStep, ManagerStep, ListenerStep

\* There is one way into it, a waker pushed after the drain, and none out of
\* it: the Mutex is left with a connection that is over, for good.
PushedTooLate == [][LostClose' => LostClose \/ ClosePush]_vars

LostForGood == [][LostClose => LostClose' /\ conn' \in lost']_vars

\* What a step does to it.
LEMMA StepLost ==
    ASSUME IInv, Closing, [Next]_vars
    PROVE  /\ LostClose' => LostClose \/ ClosePush
           /\ LostClose => LostClose' /\ conn' \in lost'
<1> USE RelayAssumption
    DEF LostClose, mutexVars, quicVars, closeVars, reqVars
<1>0. /\ made \in Conn \cup {NoConn} /\ NoConn \notin Conn
      /\ is_closed \subseteq Conn /\ is_closed \subseteq lost
      /\ conn = made
      /\ parked = IF mpc = "close_parked" THEN {made} ELSE {}
      /\ listening \in is_closed <=> set = "drain"
    BY DEF IInv, TypeOK, Conn, NoConn, Newest, Closing
<1>1. ASSUME UNCHANGED <<made, is_closed, set, listening, mpc, conn>>,
             lost \subseteq lost'
      PROVE  (LostClose' <=> LostClose) /\ (LostClose => conn' \in lost')
    BY <1>0, <1>1, SMTT(30)
<1>2. ASSUME NEW r \in Req, NEW k \in {"connect", "associate"},
             \/ CloneRegister(r, k) \/ LockConn(r) \/ UseConn(r)
             \/ TimeoutRequest(r) \/ RequestServed(r) \/ ConnectFails(r)
             \/ AssociateFails(r) \/ PacketTo(r)
      PROVE  /\ UNCHANGED <<made, is_closed, set, listening, mpc, conn>>
             /\ lost \subseteq lost'
    BY <1>2, ZenonT(40) DEF CloneRegister, LockConn, UseConn, TimeoutRequest,
       RequestServed, ConnectFails, AssociateFails, PacketTo, Done
<1>3. ASSUME NEW r \in Req, WakeManager(r)
      PROVE  (LostClose' <=> LostClose) /\ (LostClose => conn' \in lost')
    BY <1>0, <1>3 DEF WakeManager, WokenByRequest
<1>4. ASSUME \/ WaitCount \/ WaitStore \/ ConnectionFails \/ Retry
             \/ Establish \/ CloseLoad \/ Relock \/ Relocked
      PROVE  ~LostClose /\ ~LostClose'
    BY <1>4 DEF WaitCount, WaitStore, ConnectionFails, Retry, Establish,
       CloseLoad, Relock, Relocked
<1>5. ASSUME ClosePush PROVE ~LostClose
    BY <1>5 DEF ClosePush
<1>6. ASSUME NextIncoming
      PROVE  (LostClose' <=> LostClose) /\ (LostClose => conn' \in lost')
  <2>1. made \notin is_closed
    BY <1>6 DEF NextIncoming, IInv, Chain
  <2> QED BY <1>6, <2>1 DEF NextIncoming
<1>7. ASSUME IncomingEnds \/ StoreClosed
      PROVE  (LostClose' <=> LostClose) /\ (LostClose => conn' \in lost')
    BY <1>0, <1>7 DEF IncomingEnds, StoreClosed
<1>8. ASSUME WakeClosed
      PROVE  (LostClose' <=> LostClose) /\ (LostClose => conn' \in lost')
    BY <1>0, <1>8 DEF WakeClosed, WokenByClose
<1>9. ASSUME NEW c \in Conn, ConnectionLost(c) \/ PacketFrom(c)
      PROVE  /\ UNCHANGED <<made, is_closed, set, listening, mpc, conn>>
             /\ lost \subseteq lost'
    BY <1>9 DEF ConnectionLost, PacketFrom
<1>10. ASSUME UNCHANGED vars
       PROVE  /\ UNCHANGED <<made, is_closed, set, listening, mpc, conn>>
              /\ lost \subseteq lost'
    BY <1>10 DEF vars
<1> HIDE DEF LostClose
<1> DEFINE Same == (LostClose' <=> LostClose) /\ (LostClose => conn' \in lost')
<1>11. ASSUME NEW r \in Req, NEW k \in {"connect", "associate"},
              \/ CloneRegister(r, k) \/ RequestStep(r) \/ RequestServed(r)
              \/ AssociateFails(r) \/ PacketTo(r)
       PROVE  Same
    BY <1>1, <1>2, <1>3, <1>11, Zenon DEF RequestStep
<1>12. ASSUME ManagerStep
       PROVE  ClosePush \/ (~LostClose /\ ~LostClose')
    BY <1>4, <1>12, Zenon DEF ManagerStep
<1>13. ASSUME ListenerStep PROVE Same
    BY <1>6, <1>7, <1>8, <1>13, Zenon DEF ListenerStep
<1>14. ASSUME NEW c \in Conn, ConnectionLost(c) \/ PacketFrom(c)
       PROVE  Same
    BY <1>1, <1>9, <1>14, Zenon
<1>15. UNCHANGED vars => Same
    BY <1>1, <1>10, Zenon
<1> HIDE DEF Same
<1>16. Same \/ ClosePush \/ (~LostClose /\ ~LostClose')
    BY <1>11, <1>12, <1>13, <1>14, <1>15 DEF Next
<1> QED BY <1>5, <1>16 DEF Same

\* The lost close has this one cause, ...
THEOREM LostCloseCause == Spec => PushedTooLate
<1>1. Init => Closing
    BY DEF Init, Closing
<1>2. IInv /\ Closing /\ [Next]_vars => Closing'
    BY StepClosing
<1>3. IInv /\ Closing /\ [Next]_vars
        => [LostClose' => LostClose \/ ClosePush]_vars
    BY StepLost
<1> QED BY <1>1, <1>2, <1>3, Invariant, PTL DEF Spec, PushedTooLate

\* ... and is never made good: every later request is given a connection that
\* is over, whatever else happens.
THEOREM LostCloseFinal == Spec => LostForGood
<1>1. Init => Closing
    BY DEF Init, Closing
<1>2. IInv /\ Closing /\ [Next]_vars => Closing'
    BY StepClosing
<1>3. IInv /\ Closing /\ [Next]_vars
        => [LostClose => LostClose' /\ conn' \in lost']_vars
    BY StepLost
<1> QED BY <1>1, <1>2, <1>3, Invariant, PTL DEF Spec, LostForGood
=============================================================================
