--------------------------- MODULE HeartbeatProofs ---------------------------
(***************************************************************************)
(* Heartbeats keep the connection of a relay task, for every interval that *)
(* is shorter than the idle timeout and any number of tasks.               *)
(***************************************************************************)
EXTENDS Heartbeat, TLAPS

(***************************************************************************)
(* The last tick was Interval - timer ago.  A relay task older than that   *)
(* was seen by the check that followed it, and the heartbeat that was sent *)
(* then is the oldest the last packet can be.  Between a tick and its      *)
(* heartbeat the previous one still counts.                                *)
(***************************************************************************)
Kept ==
    lost = "no" =>
        IF hpc \in {"check", "send"}
        THEN age > Interval => idle <= Interval
        ELSE age + timer > Interval => idle + timer <= Interval

IInv ==
    /\ TypeOK
    /\ ~Active(streams, sessions) => age = 0
    /\ hpc \in {"check", "send", "finish"} => timer = Interval
    /\ Kept

\* The invariant holds of a new connection.
LEMMA InitInv == Init => IInv
  <1> SUFFICES ASSUME Init PROVE IInv
    OBVIOUS
  <1>1. /\ polling \in BOOLEAN /\ beating \in BOOLEAN /\ is_closed \in BOOLEAN
        /\ waker \in BOOLEAN /\ set \in BOOLEAN
    BY ZenonT(40) DEF Init
  <1>2. /\ idle \in 0..MaxIdle /\ timer \in 0..Interval
        /\ age \in 0..(Interval + 1)
    BY HeartbeatAssumption DEF Init
  <1>3. TypeOK
    BY <1>1, <1>2 DEF Init, TypeOK
  <1> QED BY <1>3, HeartbeatAssumption DEF Init, IInv, Kept

\* Less of either summand is no more of the sum.
LEMMA SumBound ==
  ASSUME NEW m \in Nat, NEW n \in Nat, m <= n, NEW t \in Nat, NEW b \in Nat
  PROVE  (m + t > b => n + t > b) /\ (n + t <= b => m + t <= b)
  OBVIOUS

\* A relay task that begins or ends leaves the books of time in order: age
\* starts over with the last one's end.
LEMMA RelayInv ==
  ASSUME IInv, NEW ss \in SUBSET Stream, NEW us \in SUBSET Assoc,
         Relay(ss, us), idle' \in {0, idle}, polling' \in BOOLEAN,
         UNCHANGED <<lost, beating, closeVars, hpc, timer>>
  PROVE  IInv'
  <1>1. age' \in {0, age} /\ (~Active(ss, us) => age' = 0)
    BY DEF Relay
  <1>2. TypeOK'
    <2>1. UNCHANGED <<lost, beating, is_closed, waker, set, hpc, timer>>
      BY DEF closeVars
    <2>2. idle' \in 0..MaxIdle /\ age' \in 0..(Interval + 1)
      BY <1>1, HeartbeatAssumption DEF IInv, TypeOK
    <2>3. streams' \in SUBSET Stream /\ sessions' \in SUBSET Assoc
      BY DEF Relay
    <2> QED BY <2>1, <2>2, <2>3 DEF IInv, TypeOK
  <1>3. Kept'
    <2>1. UNCHANGED <<lost, hpc, timer>>
      OBVIOUS
    <2>2. /\ age \in Nat /\ idle \in Nat /\ timer \in Nat
          /\ age' \in Nat /\ idle' \in Nat
          /\ age' <= age /\ idle' <= idle
      BY <1>1, HeartbeatAssumption DEF IInv, TypeOK
    <2>3. timer <= Interval /\ Interval \in Nat
      BY HeartbeatAssumption DEF IInv, TypeOK
    <2>4. Kept
      BY DEF IInv
    <2>5. CASE hpc \in {"check", "send"}
      BY <2>1, <2>2, <2>3, <2>4, <2>5 DEF Kept
    <2>6. CASE hpc \notin {"check", "send"}
      <3>1. age' + timer > Interval => age + timer > Interval
        BY <2>2, <2>3, SumBound, Zenon
      <3>2. idle + timer <= Interval => idle' + timer <= Interval
        BY <2>2, <2>3, SumBound, Zenon
      <3> QED BY <2>1, <2>4, <2>6, <3>1, <3>2 DEF Kept
    <2> QED BY <2>5, <2>6
  <1>4. ~Active(streams, sessions)' => age' = 0
    BY <1>1 DEF Relay, Active
  <1> QED BY <1>2, <1>3, <1>4 DEF IInv

\* Every step preserves it.
LEMMA StepInv == IInv /\ [Next]_vars => IInv'
  <1> SUFFICES ASSUME IInv, [Next]_vars PROVE IInv'
    OBVIOUS
  <1> USE HeartbeatAssumption DEF IInv, TypeOK, relayVars, closeVars
  <1>1. ASSUME NEW s \in Stream, OpenStream(s) PROVE IInv'
    BY <1>1, RelayInv DEF OpenStream
  <1>2. ASSUME NEW s \in Stream, AcceptStream(s) PROVE IInv'
    BY <1>2, RelayInv DEF AcceptStream
  <1>3. ASSUME NEW s \in Stream, DropStream(s) PROVE IInv'
    BY <1>3, RelayInv DEF DropStream
  <1>4. ASSUME NEW a \in Assoc, InsertSession(a) PROVE IInv'
    BY <1>4, RelayInv DEF InsertSession
  <1>5. ASSUME NEW a \in Assoc, RemoveSession(a) PROVE IInv'
    BY <1>5, RelayInv DEF RemoveSession
  <1>6. CASE PollPending
    BY <1>6, ZenonT(40) DEF PollPending, Kept
  <1>7. CASE Transfer
    BY <1>7 DEF Transfer, Kept
  <1>8. CASE PollClosed
    BY <1>8 DEF PollClosed, Kept
  <1>9. CASE PushWaker
    BY <1>9 DEF PushWaker, Kept
  <1>10. CASE Tick
    BY <1>10 DEF Tick, Kept
  <1>11. CASE Check
    BY <1>11 DEF Check, NeedsHeartbeat, no_active_stream,
       no_active_udp_session, Active, Kept
  <1>12. CASE SendHeartbeat
    <2>1. beating' \in BOOLEAN
      BY <1>12, Zenon DEF SendHeartbeat
    <2>2. UNCHANGED <<lost, streams, polling, sessions, is_closed, waker, set,
                      timer, age>>
      BY <1>12 DEF SendHeartbeat
    <2>3. hpc' \in {"finish", "select"} /\ idle' \in {0, idle}
      BY <1>12 DEF SendHeartbeat
    <2>4. TypeOK'
      BY <2>1, <2>2, <2>3
    <2>5. Kept'
      BY <1>12 DEF SendHeartbeat, Kept
    <2> QED BY <1>12, <2>2, <2>3, <2>4, <2>5 DEF SendHeartbeat, Active
  <1>13. CASE FinishHeartbeat
    <2>1. TypeOK'
      BY <1>13, ZenonT(40) DEF FinishHeartbeat
    <2>2. Kept'
      BY <1>13 DEF FinishHeartbeat, Kept
    <2> QED BY <1>13, <2>1, <2>2 DEF FinishHeartbeat, Active
  <1>14. CASE IdleTimeout
    BY <1>14 DEF IdleTimeout, Kept
  <1>15. CASE PeerCloses
    BY <1>15 DEF PeerCloses, Kept
  <1>16. CASE StoreClosed
    BY <1>16 DEF StoreClosed, Kept
  <1>17. CASE DrainWakers
    BY <1>17, ZenonT(40) DEF DrainWakers, Kept
  <1>18. CASE Elapse
    BY <1>18 DEF Elapse, Kept
  <1>19. CASE UNCHANGED vars
    BY <1>19 DEF vars, Kept
  <1> QED
    BY <1>1, <1>2, <1>3, <1>4, <1>5, <1>6, <1>7, <1>8, <1>9, <1>10, <1>11,
       <1>12, <1>13, <1>14, <1>15, <1>16, <1>17, <1>18, <1>19
    DEF Next, HeartbeatStep

\* A connection whose idle timeout is due has no relay task older than
\* heartbeat_interval: for every heartbeat_interval below max_idle_time, the
\* checks of heartbeat() come often enough.
THEOREM KeptAliveSafe == Spec => []KeptAlive
  <1>1. IInv => KeptAlive
    BY HeartbeatAssumption DEF IInv, TypeOK, Kept, KeptAlive
  <1> HIDE DEF IInv
  <1> QED BY <1>1, InitInv, StepInv, PTL DEF Spec

-----------------------------------------------------------------------------
\* heartbeat() does not stop before its connection is over, and while it
\* sleeps its waker is in IsClosed, or is_closed is set already: only then is
\* it left to the next tick to end it.
HeartbeatLasts ==
    /\ hpc = "done" => lost # "no"
    /\ hpc = "wait" => waker \/ is_closed

\* is_closed is only ever said of a connection that is over.
Said == (is_closed => lost # "no") /\ (set => is_closed)
                                   /\ (hpc = "done" => is_closed)

\* Every step keeps both.
LEMMA LastsStep ==
  ASSUME TypeOK, HeartbeatLasts, Said, [Next]_vars
  PROVE  HeartbeatLasts' /\ Said'
  <1> USE DEF TypeOK, HeartbeatLasts, Said, relayVars, closeVars
  <1>1. ASSUME NEW s \in Stream,
               OpenStream(s) \/ AcceptStream(s) \/ DropStream(s)
        PROVE  HeartbeatLasts' /\ Said'
    BY <1>1 DEF OpenStream, AcceptStream, DropStream
  <1>2. ASSUME NEW a \in Assoc, InsertSession(a) \/ RemoveSession(a)
        PROVE  HeartbeatLasts' /\ Said'
    BY <1>2 DEF InsertSession, RemoveSession
  <1>3. CASE PollPending \/ Transfer
    BY <1>3 DEF PollPending, Transfer
  <1>4. CASE HeartbeatStep
    BY <1>4 DEF HeartbeatStep, PollClosed, PushWaker, Tick, Check,
       SendHeartbeat, FinishHeartbeat
  <1>5. CASE IdleTimeout \/ PeerCloses
    BY <1>5 DEF IdleTimeout, PeerCloses
  <1>6. CASE StoreClosed \/ DrainWakers
    BY <1>6 DEF StoreClosed, DrainWakers
  <1>7. CASE Elapse \/ UNCHANGED vars
    BY <1>7 DEF Elapse, vars
  <1> HIDE DEF HeartbeatLasts, Said
  <1> QED
    BY <1>1, <1>2, <1>3, <1>4, <1>5, <1>6, <1>7 DEF Next

\* The safety half of HeartbeatEnds and of KeptAlive's premise: there is a
\* heartbeat() for as long as there is a connection.
THEOREM LastsSafe == Spec => []HeartbeatLasts
  <1>1. Init => IInv /\ HeartbeatLasts /\ Said
    BY InitInv DEF Init, HeartbeatLasts, Said
  <1>2. IInv /\ HeartbeatLasts /\ Said /\ [Next]_vars
          => (IInv /\ HeartbeatLasts /\ Said)'
    BY StepInv, LastsStep DEF IInv
  <1> HIDE DEF IInv
  <1> QED BY <1>1, <1>2, PTL DEF Spec
=============================================================================
