--------------------------- MODULE TcpRelayProofs ---------------------------
(***************************************************************************)
(* The safety properties of TcpRelay, for any amount of data.              *)
(***************************************************************************)
EXTENDS TcpRelay, TLAPS

(***************************************************************************)
(* How far the two negotiations have come, and what each step on the way   *)
(* from the target's socket to the application's reply implies.            *)
(***************************************************************************)
Phases ==
    /\ cpc = "request" => npc = "none"
    /\ npc \in {"none", "queued", "open"} => spc = "none"
    /\ npc # "done" => tx = "open"
    /\ spc \notin {"copy", "done"} => response = "none"
    /\ spc = "copy" => response = "true"
    /\ spc = "accept" \/ response = "true" => dialed
    /\ tx = "stream" => response = "true"
    /\ cpc = "copy" \/ reply = "succeeded" => tx = "stream"

\* The server's task is over and did not accept: no relay comes of it.
Refused == spc = "done" /\ response # "true"

(***************************************************************************)
(* Why a stream was dropped under the other side.                          *)
(***************************************************************************)
Reasons ==
    /\ npc = "finish" => lost \/ Refused
    /\ "down" \in fin => response = "true" \/ spc = "done"
    /\ "up" \in stop => Refused \/ aborted # {}
    /\ "down" \in stop => lost \/ Refused \/ aborted # {}
    /\ CutForAReason

\* A relay that was cut, or that never began.  Once true this stays true.
Void == aborted # {} \/ tx = "dropped" \/ Refused

(***************************************************************************)
(* What a finished stream has carried and what a sink that is shut has got. *)
(***************************************************************************)
Complete ==
    /\ \A d \in fin : Void \/ (source[d] # "open" /\ carried[d] = written[d])
    /\ \A d \in shut : Void \/ (d \in fin /\ got[d] = carried[d])

IInv == TypeOK /\ Phases /\ Reasons /\ Complete

-----------------------------------------------------------------------------

\* Counting one more of a direction's data, up to a bound.
LEMMA CountOne ==
  ASSUME NEW f \in [Direction -> 0..MaxData], NEW d \in Direction,
         f[d] < MaxData
  PROVE  [f EXCEPT ![d] = @ + 1] \in [Direction -> 0..MaxData]
  BY TcpAssumption

\* Every variable of TcpRelay keeps its type: no direction carries or
\* delivers more than its source may write.
LEMMA TypeStep == TypeOK /\ [Next]_vars => TypeOK'
  <1> SUFFICES ASSUME TypeOK, [Next]_vars PROVE TypeOK'
    OBVIOUS
  <1> USE DEF TypeOK, dataVars, streamVars, clientVars, serverVars
  <1>1. CASE SendRequest
    BY <1>1 DEF SendRequest
  <1>2. CASE ReplySucceeded
    BY <1>2 DEF ReplySucceeded
  <1>3. CASE ReplyFails
    BY <1>3 DEF ReplyFails, Direction, Node
  <1>4. CASE ReplyUnreachable
    BY <1>4 DEF ReplyUnreachable, Direction
  <1>5. CASE GetConnection
    BY <1>5 DEF GetConnection, GiveUp
  <1>6. CASE SendConnect
    BY <1>6 DEF SendConnect, GiveUp
  <1>7. CASE ReadAccepted
    BY <1>7 DEF ReadAccepted
  <1>8. CASE ReadRefused
    BY <1>8 DEF ReadRefused
  <1>9. CASE FinishStream
    BY <1>9 DEF FinishStream, GiveUp, Direction
  <1>10. CASE PassGate
    <2>1. UNCHANGED <<clientVars, dialed, response, dataVars, aborted, lost>>
      BY <1>10 DEF PassGate
    <2>2. /\ spc' \in {"lookup", "asleep", "done"}
          /\ fin' \in SUBSET Direction
          /\ stop' \in SUBSET Direction
          /\ shut' \in SUBSET Direction
      BY <1>10, ZenonT(40) DEF PassGate, ServerReturns, Direction
    <2> QED BY <2>1, <2>2
  <1>11. CASE Lookup
    <2>1. UNCHANGED <<clientVars, dialed, response, dataVars, aborted, lost>>
      BY <1>11 DEF Lookup
    <2>2. /\ spc' \in {"dial", "done"}
          /\ fin' \in SUBSET Direction
          /\ stop' \in SUBSET Direction
          /\ shut' \in SUBSET Direction
      BY <1>11, ZenonT(40) DEF Lookup, ServerReturns, Direction
    <2> QED BY <2>1, <2>2
  <1>12. CASE Dial
    <2>1. UNCHANGED <<clientVars, response, dataVars, streamVars, lost>>
      BY <1>12 DEF Dial
    <2>2. spc' \in {"accept", "refuse"} /\ dialed' \in BOOLEAN
      BY <1>12, ZenonT(40) DEF Dial
    <2> QED BY <2>1, <2>2
  <1>13. CASE Respond
    <2>1. UNCHANGED <<clientVars, dialed, dataVars, lost>>
      BY <1>13 DEF Respond
    <2>2. /\ spc' \in {"copy", "done"} /\ response' \in {"true", response}
          /\ fin' \in SUBSET Direction
          /\ stop' \in SUBSET Direction
          /\ shut' \in SUBSET Direction
          /\ aborted' \in SUBSET Node
      BY <1>13, ZenonT(40) DEF Respond, ServerReturns, Direction, Node
    <2> QED BY <2>1, <2>2
  <1>14. CASE Refuse
    BY <1>14 DEF Refuse, ServerReturns, Direction
  <1>15. ASSUME NEW n \in Node, Abort(n) PROVE TypeOK'
    BY <1>15 DEF Abort, StopCopying, FromTcp, ToTcp, Direction
  <1>16. ASSUME NEW n \in Node, CopyStep(n) PROVE TypeOK'
    <2>0. FromTcp(n) \in Direction /\ ToTcp(n) \in Direction
      BY DEF FromTcp, ToTcp, Direction
    <2>1. CASE Forward(n)
      <3> DEFINE d == FromTcp(n)
      <3>1. CASE Abort(n)
        BY <1>15, <3>1
      <3>2. CASE ~Abort(n)
        <4>1. /\ carried[d] < written[d]
              /\ carried' = [carried EXCEPT ![d] = @ + 1]
              /\ UNCHANGED <<clientVars, serverVars, source, written, got,
                             streamVars, lost>>
          BY <2>1, <3>2 DEF Forward
        <4>2. carried[d] < MaxData
          BY <2>0, <4>1, TcpAssumption
        <4>3. carried' \in [Direction -> 0..MaxData]
          BY <2>0, <4>1, <4>2, CountOne
        <4> QED BY <4>1, <4>3
      <3> QED BY <3>1, <3>2
    <2>2. CASE ForwardEnd(n)
      <3>1. CASE Abort(n)
        BY <1>15, <3>1
      <3>2. CASE ~Abort(n)
        BY <2>0, <2>2, <3>2 DEF ForwardEnd
      <3> QED BY <3>1, <3>2
    <2>3. CASE Deliver(n)
      <3> DEFINE d == ToTcp(n)
      <3>1. CASE Abort(n)
        BY <1>15, <3>1
      <3>2. CASE ~Abort(n)
        <4>1. /\ got[d] < carried[d]
              /\ got' = [got EXCEPT ![d] = @ + 1]
              /\ UNCHANGED <<clientVars, serverVars, source, written, carried,
                             streamVars, lost>>
          BY <2>3, <3>2 DEF Deliver
        <4>2. got[d] < MaxData
          BY <2>0, <4>1, TcpAssumption
        <4>3. got' \in [Direction -> 0..MaxData]
          BY <2>0, <4>1, <4>2, CountOne
        <4> QED BY <4>1, <4>3
      <3> QED BY <3>1, <3>2
    <2>4. CASE DeliverEnd(n)
      BY <2>0, <2>4 DEF DeliverEnd
    <2>5. CASE CopyFails(n)
      BY <1>15, <2>5 DEF CopyFails
    <2>6. CASE CopyEnds(n)
      BY <2>6 DEF CopyEnds, StopCopying
    <2> QED BY <1>16, <2>1, <2>2, <2>3, <2>4, <2>5, <2>6 DEF CopyStep
  <1>17. ASSUME NEW d \in Direction, Write(d) PROVE TypeOK'
    <2>1. written' \in [Direction -> 0..MaxData]
      BY <1>17, CountOne DEF Write
    <2> QED BY <1>17, <2>1 DEF Write
  <1>18. ASSUME NEW d \in Direction, EndSource(d) PROVE TypeOK'
    <2>1. source' \in [Direction -> {"open", "eof", "reset"}]
      BY <1>18 DEF EndSource
    <2> QED BY <1>18, <2>1 DEF EndSource
  <1>19. CASE ConnectionLost
    BY <1>19 DEF ConnectionLost
  <1>20. CASE UNCHANGED vars
    BY <1>20, SMTT(20) DEF vars
  <1> QED
    BY <1>1, <1>2, <1>3, <1>4, <1>5, <1>6, <1>7, <1>8, <1>9, <1>10, <1>11,
       <1>12, <1>13, <1>14, <1>16, <1>17, <1>18, <1>19, <1>20, ZenonT(40)
    DEF Next, NegotiateStep, ServerStep

\* The negotiation keeps to its phases: neither node goes back, and each step
\* towards the reply has the one before it.
LEMMA PhasesStep ==
  ASSUME TypeOK, Phases, [Next]_vars
  PROVE  Phases'
  <1> USE DEF TypeOK, Phases, dataVars, streamVars, clientVars, serverVars
  <1>1. CASE SendRequest
    BY <1>1 DEF SendRequest
  <1>2. CASE ReplySucceeded
    BY <1>2 DEF ReplySucceeded
  <1>3. CASE ReplyFails
    BY <1>3 DEF ReplyFails
  <1>4. CASE ReplyUnreachable
    BY <1>4 DEF ReplyUnreachable
  <1>5. CASE GetConnection
    BY <1>5 DEF GetConnection, GiveUp
  <1>6. CASE SendConnect
    BY <1>6 DEF SendConnect, GiveUp
  <1>7. CASE ReadAccepted
    BY <1>7 DEF ReadAccepted
  <1>8. CASE ReadRefused
    BY <1>8 DEF ReadRefused
  <1>9. CASE FinishStream
    BY <1>9 DEF FinishStream, GiveUp
  <1>10. CASE PassGate
    BY <1>10 DEF PassGate, ServerReturns
  <1>11. CASE Lookup
    BY <1>11 DEF Lookup, ServerReturns
  <1>12. CASE Dial
    BY <1>12 DEF Dial
  <1>13. CASE Respond
    BY <1>13 DEF Respond, ServerReturns
  <1>14. CASE Refuse
    BY <1>14 DEF Refuse, ServerReturns
  <1>15. ASSUME NEW n \in Node, Copying(n), Abort(n) PROVE Phases'
    BY <1>15 DEF Copying, Abort, StopCopying, Node
  <1>16. ASSUME NEW n \in Node, CopyStep(n) PROVE Phases'
    <2>1. CASE Forward(n)
      BY <1>15, <2>1 DEF Forward
    <2>2. CASE ForwardEnd(n)
      BY <1>15, <2>2 DEF ForwardEnd
    <2>3. CASE Deliver(n)
      BY <1>15, <2>3 DEF Deliver
    <2>4. CASE DeliverEnd(n)
      BY <2>4 DEF DeliverEnd
    <2>5. CASE CopyFails(n)
      BY <1>15, <2>5 DEF CopyFails
    <2>6. CASE CopyEnds(n)
      BY <2>6 DEF CopyEnds, Copying, StopCopying, Node
    <2> QED BY <1>16, <2>1, <2>2, <2>3, <2>4, <2>5, <2>6 DEF CopyStep
  <1>17. ASSUME NEW d \in Direction, Write(d) PROVE Phases'
    BY <1>17 DEF Write
  <1>18. ASSUME NEW d \in Direction, EndSource(d) PROVE Phases'
    BY <1>18 DEF EndSource
  <1>19. CASE ConnectionLost
    BY <1>19 DEF ConnectionLost
  <1>20. CASE UNCHANGED vars
    BY <1>20, SMTT(20) DEF vars
  <1> QED
    BY <1>1, <1>2, <1>3, <1>4, <1>5, <1>6, <1>7, <1>8, <1>9, <1>10, <1>11,
       <1>12, <1>13, <1>14, <1>16, <1>17, <1>18, <1>19, <1>20, ZenonT(40)
    DEF Next, NegotiateStep, ServerStep

\* A stream is dropped under the other side only after a refusal, a cut or the
\* loss of the connection, so a cut is never caused by an orderly end.
LEMMA ReasonsStep ==
  ASSUME TypeOK, Phases, Reasons, [Next]_vars
  PROVE  Reasons'
  <1> USE DEF TypeOK, Phases, Reasons, Refused, CutForAReason, dataVars,
          streamVars, clientVars, serverVars
  <1>1. CASE SendRequest
    BY <1>1 DEF SendRequest
  <1>2. CASE ReplySucceeded
    BY <1>2 DEF ReplySucceeded
  <1>3. CASE ReplyFails
    BY <1>3 DEF Direction, ReplyFails
  <1>4. CASE ReplyUnreachable
    BY <1>4 DEF ReplyUnreachable
  <1>5. CASE GetConnection
    BY <1>5 DEF GetConnection, GiveUp
  <1>6. CASE SendConnect
    BY <1>6 DEF SendConnect, GiveUp
  <1>7. CASE ReadAccepted
    BY <1>7 DEF ReadAccepted
  <1>8. CASE ReadRefused
    BY <1>8 DEF ReadRefused
  <1>9. CASE FinishStream
    BY <1>9 DEF FinishStream, GiveUp
  <1>10. CASE PassGate
    BY <1>10 DEF PassGate, ServerReturns
  <1>11. CASE Lookup
    BY <1>11 DEF Lookup, ServerReturns
  <1>12. CASE Dial
    BY <1>12 DEF Dial
  <1>13. CASE Respond
    BY <1>13 DEF Respond, ServerReturns
  <1>14. CASE Refuse
    BY <1>14 DEF Refuse, ServerReturns
  <1>0. ASSUME NEW n \in Node, Copying(n), FromTcp(n) \in stop
        PROVE  lost \/ \E d \in Direction : source[d] = "reset"
    BY <1>0 DEF Copying, FromTcp, Node
  <1>15. ASSUME NEW n \in Node, Copying(n), Abort(n),
                lost \/ \E d \in Direction : source[d] = "reset"
         PROVE  Reasons'
    BY <1>15 DEF Copying, Abort, StopCopying, FromTcp, ToTcp, Node
  <1>16. ASSUME NEW n \in Node, CopyStep(n) PROVE Reasons'
    <2>0. FromTcp(n) \in Direction
      BY DEF FromTcp, Direction
    <2>1. CASE Forward(n)
      BY <1>0, <1>15, <2>1 DEF Forward
    <2>2. CASE ForwardEnd(n)
      <3>1. CASE FromTcp(n) \in stop \/ lost
        BY <1>0, <1>15, <2>2, <3>1 DEF ForwardEnd
      <3>2. CASE ~(FromTcp(n) \in stop \/ lost)
        <4>1. /\ Copying(n) /\ fin' = fin \cup {FromTcp(n)}
              /\ UNCHANGED <<clientVars, serverVars, dataVars, stop, shut,
                             aborted, lost>>
          BY <2>2, <3>2 DEF ForwardEnd
        <4>2. "down" \in fin' => "down" \in fin \/ spc = "copy"
          BY <4>1 DEF Copying, FromTcp, Node
        <4> QED BY <4>1, <4>2
      <3> QED BY <3>1, <3>2
    <2>3. CASE Deliver(n)
      BY <1>15, <2>0, <2>3 DEF Deliver
    <2>4. CASE DeliverEnd(n)
      BY <2>4 DEF DeliverEnd
    <2>5. CASE CopyFails(n)
      BY <1>15, <2>0, <2>5 DEF CopyFails
    <2>6. CASE CopyEnds(n)
      BY <2>6 DEF CopyEnds, Copying, StopCopying, Node
    <2> QED BY <1>16, <2>1, <2>2, <2>3, <2>4, <2>5, <2>6 DEF CopyStep
  <1>17. ASSUME NEW d \in Direction, Write(d) PROVE Reasons'
    BY <1>17 DEF Write
  <1>18. ASSUME NEW d \in Direction, EndSource(d) PROVE Reasons'
    BY <1>18 DEF EndSource
  <1>19. CASE ConnectionLost
    BY <1>19 DEF ConnectionLost
  <1>20. CASE UNCHANGED vars
    BY <1>20 DEF vars
  <1> QED
    BY <1>1, <1>2, <1>3, <1>4, <1>5, <1>6, <1>7, <1>8, <1>9, <1>10, <1>11,
       <1>12, <1>13, <1>14, <1>16, <1>17, <1>18, <1>19, <1>20, ZenonT(40)
    DEF Next, NegotiateStep, ServerStep

\* A relay that was cut or never began stays so.
LEMMA VoidStep ==
  ASSUME TypeOK, Phases, [Next]_vars, Void
  PROVE  Void'
  <1> USE DEF TypeOK, Phases, Void, Refused, dataVars, streamVars, clientVars,
          serverVars
  <1>1. CASE SendRequest
    BY <1>1 DEF SendRequest
  <1>2. CASE ReplySucceeded
    BY <1>2 DEF ReplySucceeded
  <1>3. CASE ReplyFails
    BY <1>3 DEF ReplyFails
  <1>4. CASE ReplyUnreachable
    BY <1>4 DEF ReplyUnreachable
  <1>5. CASE GetConnection
    BY <1>5 DEF GetConnection, GiveUp
  <1>6. CASE SendConnect
    BY <1>6 DEF SendConnect, GiveUp
  <1>7. CASE ReadAccepted
    BY <1>7 DEF ReadAccepted
  <1>8. CASE ReadRefused
    BY <1>8 DEF ReadRefused
  <1>9. CASE FinishStream
    BY <1>9 DEF FinishStream, GiveUp
  <1>10. CASE PassGate
    BY <1>10 DEF PassGate, ServerReturns
  <1>11. CASE Lookup
    BY <1>11 DEF Lookup, ServerReturns
  <1>12. CASE Dial
    BY <1>12 DEF Dial
  <1>13. CASE Respond
    BY <1>13 DEF Respond, ServerReturns
  <1>14. CASE Refuse
    BY <1>14 DEF Refuse, ServerReturns
  <1>15. ASSUME NEW n \in Node, Abort(n) PROVE Void'
    BY <1>15 DEF Abort
  <1>16. ASSUME NEW n \in Node, CopyStep(n) PROVE Void'
    <2>1. CASE Forward(n)
      BY <1>15, <2>1 DEF Forward
    <2>2. CASE ForwardEnd(n)
      BY <1>15, <2>2 DEF ForwardEnd
    <2>3. CASE Deliver(n)
      BY <1>15, <2>3 DEF Deliver
    <2>4. CASE DeliverEnd(n)
      BY <2>4 DEF DeliverEnd
    <2>5. CASE CopyFails(n)
      BY <1>15, <2>5 DEF CopyFails
    <2>6. CASE CopyEnds(n)
      BY <2>6 DEF CopyEnds, StopCopying
    <2> QED BY <1>16, <2>1, <2>2, <2>3, <2>4, <2>5, <2>6 DEF CopyStep
  <1>17. ASSUME NEW d \in Direction, Write(d) PROVE Void'
    BY <1>17 DEF Write
  <1>18. ASSUME NEW d \in Direction, EndSource(d) PROVE Void'
    BY <1>18 DEF EndSource
  <1>19. CASE ConnectionLost
    BY <1>19 DEF ConnectionLost
  <1>20. CASE UNCHANGED vars
    BY <1>20, SMTT(20) DEF vars
  <1> QED
    BY <1>1, <1>2, <1>3, <1>4, <1>5, <1>6, <1>7, <1>8, <1>9, <1>10, <1>11,
       <1>12, <1>13, <1>14, <1>16, <1>17, <1>18, <1>19, <1>20, ZenonT(40)
    DEF Next, NegotiateStep, ServerStep

\* A finished stream has carried everything and a sink that is shut has got
\* everything, unless the relay was cut or never began.
LEMMA CompleteStep ==
  ASSUME TypeOK, Phases, Complete, [Next]_vars
  PROVE  Complete'
  <1> DEFINE Sealed(d) == source[d] # "open" /\ carried[d] = written[d]
             Drained(d) == d \in fin /\ got[d] = carried[d]
             Goal == (\A d \in fin : Sealed(d)) /\ (\A d \in shut : Drained(d))
  <1> SUFFICES ASSUME ~Void' PROVE Goal'
    BY DEF Complete
  <1>0. Goal
    BY VoidStep DEF Complete
  <1> USE DEF TypeOK, Phases, dataVars, streamVars, clientVars, serverVars
  <1>1. CASE SendRequest
    BY <1>0, <1>1 DEF SendRequest
  <1>2. CASE ReplySucceeded
    BY <1>0, <1>2 DEF ReplySucceeded
  <1>3. CASE ReplyFails
    BY <1>0, <1>3 DEF ReplyFails, Void, Refused
  <1>4. CASE ReplyUnreachable
    BY <1>0, <1>4 DEF ReplyUnreachable, Void, Refused
  <1>5. CASE GetConnection
    BY <1>0, <1>5 DEF GetConnection, GiveUp, Void, Refused
  <1>6. CASE SendConnect
    BY <1>0, <1>6 DEF SendConnect, GiveUp, Void, Refused
  <1>7. CASE ReadAccepted
    BY <1>0, <1>7 DEF ReadAccepted
  <1>8. CASE ReadRefused
    BY <1>0, <1>8 DEF ReadRefused
  <1>9. CASE FinishStream
    BY <1>0, <1>9 DEF FinishStream, GiveUp, Void, Refused
  <1>10. CASE PassGate
    BY <1>0, <1>10 DEF PassGate, ServerReturns, Void, Refused
  <1>11. CASE Lookup
    BY <1>0, <1>11 DEF Lookup, ServerReturns, Void, Refused
  <1>12. CASE Dial
    BY <1>0, <1>12 DEF Dial
  <1>13. CASE Respond
    BY <1>0, <1>13 DEF Respond, ServerReturns, Void, Refused
  <1>14. CASE Refuse
    BY <1>0, <1>14 DEF Refuse, ServerReturns, Void, Refused
  <1>15. ASSUME NEW n \in Node, Abort(n) PROVE FALSE
    BY <1>15, SMTT(20) DEF Abort, Void
  <1>16. ASSUME NEW n \in Node, CopyStep(n) PROVE Goal'
    <2>0. FromTcp(n) \in Direction /\ ToTcp(n) \in Direction
      BY DEF FromTcp, ToTcp, Direction
    <2>1. CASE Forward(n)
      BY <1>0, <1>15, <2>0, <2>1 DEF Forward
    <2>2. CASE ForwardEnd(n)
      BY <1>0, <1>15, <2>2 DEF ForwardEnd
    <2>3. CASE Deliver(n)
      BY <1>0, <1>15, <2>0, <2>3 DEF Deliver
    <2>4. CASE DeliverEnd(n)
      BY <1>0, <2>4 DEF DeliverEnd
    <2>5. CASE CopyFails(n)
      BY <1>15, <2>5 DEF CopyFails
    <2>6. CASE CopyEnds(n)
      BY <1>0, <2>6 DEF CopyEnds
    <2> QED BY <1>16, <2>1, <2>2, <2>3, <2>4, <2>5, <2>6 DEF CopyStep
  <1>17. ASSUME NEW d \in Direction, Write(d) PROVE Goal'
    BY <1>0, <1>17 DEF Write
  <1>18. ASSUME NEW d \in Direction, EndSource(d) PROVE Goal'
    BY <1>0, <1>18 DEF EndSource
  <1>19. CASE ConnectionLost
    BY <1>0, <1>19 DEF ConnectionLost
  <1>20. CASE UNCHANGED vars
    BY <1>0, <1>20 DEF vars
  <1> HIDE DEF Goal, TypeOK, Phases
  <1> QED
    BY <1>1, <1>2, <1>3, <1>4, <1>5, <1>6, <1>7, <1>8, <1>9, <1>10, <1>11,
       <1>12, <1>13, <1>14, <1>16, <1>17, <1>18, <1>19, <1>20, ZenonT(40)
    DEF Next, NegotiateStep, ServerStep

-----------------------------------------------------------------------------
\* The inductive invariant: every behaviour of the relay keeps the phases of
\* the negotiation, the reasons for a cut and the books of the data.
THEOREM Invariant == Spec => []IInv
  <1>1. Init => IInv
    <2> SUFFICES ASSUME Init PROVE IInv
      OBVIOUS
    <2>1. TypeOK
      <3>1. 0 \in 0..MaxData
        BY TcpAssumption
      <3>2. /\ written \in [Direction -> 0..MaxData]
            /\ carried \in [Direction -> 0..MaxData]
            /\ got \in [Direction -> 0..MaxData]
        BY <3>1 DEF Init
      <3>3. dialed \in BOOLEAN /\ lost \in BOOLEAN
        BY ZenonT(40) DEF Init
      <3> QED BY <3>2, <3>3 DEF Init, TypeOK
    <2>2. Phases /\ Reasons /\ Complete
      BY DEF Init, Phases, Reasons, CutForAReason, Complete
    <2> QED BY <2>1, <2>2 DEF IInv
  <1>2. IInv /\ [Next]_vars => IInv'
    BY TypeStep, PhasesStep, ReasonsStep, CompleteStep DEF IInv
  <1> HIDE DEF IInv
  <1> QED BY <1>1, <1>2, PTL DEF Spec

\* The reply Succeeded of the SOCKS5 handler means that TcpStream::connect of
\* the server has succeeded, however the two nodes' steps interleave.
THEOREM SucceededSafe == Spec => []SucceededMeansConnected
  <1>1. IInv => SucceededMeansConnected
    BY DEF IInv, Phases, SucceededMeansConnected
  <1> QED BY <1>1, Invariant, PTL

\* copy_bidirectional at both nodes gives up a relay only when a TCP
\* connection was reset or the QUIC connection was lost.
THEOREM CutSafe == Spec => []CutForAReason
  <1>1. IInv => CutForAReason
    BY DEF IInv, Reasons
  <1> QED BY <1>1, Invariant, PTL

\* A relay that was not cut delivers all of each source's data before the end,
\* for any amount of data.
THEOREM CompleteSafe == Spec => []OrderlyIsComplete
  <1>1. IInv => OrderlyIsComplete
    <2> SUFFICES ASSUME IInv, NEW d \in shut, aborted = {},
                        reply = "succeeded"
                 PROVE  got[d] = written[d]
      BY DEF OrderlyIsComplete
    <2>1. ~Void
      BY DEF IInv, Phases, Void, Refused
    <2> QED BY <2>1 DEF IInv, Complete
  <1> QED BY <1>1, Invariant, PTL

-----------------------------------------------------------------------------
(***************************************************************************)
(* Nobody waits for somebody who is not there.                             *)
(***************************************************************************)

\* A SOCKS5 handler that waits has its answer, or a process_request that will
\* give it; and one that waits for a Response has a server's task that has
\* not decided yet, or has finished the stream.
AnswerIsDue ==
    cpc = "wait" =>
        \/ tx # "open"
        \/ npc \in {"queued", "open", "finish"}
        \/ /\ npc = "read" /\ spc # "none"
           /\ spc \in {"copy", "done"} => response # "none" \/ "down" \in fin

\* A node that is through has told both sides: its TCP connection is shut, and
\* its direction of the QUIC stream finished, however it came to its end.
EndIsTold ==
    /\ cpc = "done" => "down" \in shut /\ (spc # "none" => "up" \in fin)
    /\ spc = "done" => "up" \in shut /\ "down" \in fin

(***************************************************************************)
(* What becomes of the oneshot and of the stream on the way.               *)
(***************************************************************************)
Ends ==
    /\ EndIsTold
    /\ cpc = "wait" => npc # "none"
    /\ cpc = "done" => npc = "done"
    /\ npc = "done" => tx # "open"
    /\ npc = "read" => spc # "none"
    /\ npc = "done" /\ tx = "dropped" /\ spc # "none" => "up" \in fin

\* Every step keeps them.
LEMMA EndsStep ==
  ASSUME TypeOK, Phases, Ends, [Next]_vars
  PROVE  Ends'
  <1> USE DEF TypeOK, Phases, Ends, EndIsTold, dataVars, streamVars,
              clientVars, serverVars
  <1>1. CASE SendRequest
    BY <1>1 DEF SendRequest
  <1>2. CASE ReplySucceeded
    BY <1>2 DEF ReplySucceeded
  <1>3. CASE ReplyFails
    BY <1>3 DEF ReplyFails
  <1>4. CASE ReplyUnreachable
    BY <1>4 DEF ReplyUnreachable
  <1>5. CASE GetConnection
    BY <1>5 DEF GetConnection, GiveUp
  <1>6. CASE SendConnect
    BY <1>6 DEF SendConnect, GiveUp
  <1>7. CASE ReadAccepted
    BY <1>7 DEF ReadAccepted
  <1>8. CASE ReadRefused
    BY <1>8 DEF ReadRefused
  <1>9. CASE FinishStream
    BY <1>9 DEF FinishStream, GiveUp
  <1>10. CASE PassGate
    BY <1>10 DEF PassGate, ServerReturns
  <1>11. CASE Lookup
    BY <1>11 DEF Lookup, ServerReturns
  <1>12. CASE Dial
    BY <1>12 DEF Dial
  <1>13. CASE Respond
    BY <1>13 DEF Respond, ServerReturns
  <1>14. CASE Refuse
    BY <1>14 DEF Refuse, ServerReturns
  <1>15. ASSUME NEW n \in Node, Copying(n), Abort(n) PROVE Ends'
    BY <1>15 DEF Copying, Abort, StopCopying, FromTcp, ToTcp, Node
  <1>16. ASSUME NEW n \in Node, CopyStep(n) PROVE Ends'
    <2>1. CASE Forward(n)
      BY <1>15, <2>1 DEF Forward
    <2>2. CASE ForwardEnd(n)
      BY <1>15, <2>2 DEF ForwardEnd
    <2>3. CASE Deliver(n)
      BY <1>15, <2>3 DEF Deliver
    <2>4. CASE DeliverEnd(n)
      BY <2>4 DEF DeliverEnd
    <2>5. CASE CopyFails(n)
      BY <1>15, <2>5 DEF CopyFails
    <2>6. CASE CopyEnds(n)
      BY <2>6 DEF CopyEnds, Copying, StopCopying, FromTcp, ToTcp, Node
    <2> QED BY <1>16, <2>1, <2>2, <2>3, <2>4, <2>5, <2>6 DEF CopyStep
  <1>17. ASSUME NEW d \in Direction, Write(d) PROVE Ends'
    BY <1>17 DEF Write
  <1>18. ASSUME NEW d \in Direction, EndSource(d) PROVE Ends'
    BY <1>18 DEF EndSource
  <1>19. CASE ConnectionLost
    BY <1>19 DEF ConnectionLost
  <1>20. CASE UNCHANGED vars
    BY <1>20, SMTT(20) DEF vars
  <1> QED
    BY <1>1, <1>2, <1>3, <1>4, <1>5, <1>6, <1>7, <1>8, <1>9, <1>10, <1>11,
       <1>12, <1>13, <1>14, <1>16, <1>17, <1>18, <1>19, <1>20, ZenonT(40)
    DEF Next, NegotiateStep, ServerStep

\* The SOCKS5 handler never waits for an answer that nobody owes it, ...
THEOREM AnswerSafe == Spec => []AnswerIsDue
  <1>1. Init => Ends
    BY DEF Init, Ends, EndIsTold
  <1>2. IInv /\ Ends /\ [Next]_vars => Ends'
    BY EndsStep DEF IInv
  <1>3. IInv /\ Ends => AnswerIsDue
    BY DEF IInv, TypeOK, Phases, Ends, EndIsTold, AnswerIsDue
  <1> HIDE DEF IInv, Ends
  <1> QED BY <1>1, <1>2, <1>3, Invariant, PTL DEF Spec

\* ... and no end of a relay is kept from the other side.
THEOREM EndSafe == Spec => []EndIsTold
  <1>1. Init => Ends
    BY DEF Init, Ends, EndIsTold
  <1>2. IInv /\ Ends /\ [Next]_vars => Ends'
    BY EndsStep DEF IInv
  <1>3. Ends => EndIsTold
    BY DEF Ends
  <1> HIDE DEF IInv, Ends
  <1> QED BY <1>1, <1>2, <1>3, Invariant, PTL DEF Spec
=============================================================================
