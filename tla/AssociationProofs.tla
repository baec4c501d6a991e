-------------------------- MODULE AssociationProofs --------------------------
(***************************************************************************)
(* The safety properties of Association, for any number of associations,   *)
(* IDs and packets.                                                        *)
(***************************************************************************)
EXTENDS Association, TLAPS

(***************************************************************************)
(* An ID is drawn once, before there is a request to process; what follows *)
(* in process_request follows in this order.                               *)
(***************************************************************************)
Drawn ==
    \A x \in Assoc :
        /\ spc[x] \in {"reply", "relay", "connect"} => rpc[x] # "none"
        /\ rpc[x] # "none" => assoc_id[x] # None
        /\ assoc_id[x] # None => spc[x] \notin {"bind", "request"}
        /\ rpc[x] \in {"dissociate", "done"} => spc[x] = "done"
        /\ end[x] = "dropped" \/ pkt_recv[x] > 0 \/ sent[x] > 0 =>
               assoc_id[x] # None

\* A packet is in one place at a time.
Counted == \A x \in Assoc : packet_to[x] + pkt_send[x] <= sent[x]

(***************************************************************************)
(* Whom the map has for an ID drew that ID, and so did the one to whom a   *)
(* packet that came back is delivered.                                     *)
(***************************************************************************)
Mapped ==
    /\ \A i \in Id : sessions[i] # None => assoc_id[sessions[i]] = i
    /\ incoming.tx # None =>
           incoming.id # None /\ assoc_id[incoming.tx] = incoming.id
    /\ \A x \in Assoc :
           rpc[x] = "recv" => sessions[assoc_id[x]] = x \/ Shared(x)

\* The application of some association with the ID has sent a packet.
Used(i) == \E y \in Assoc : assoc_id[y] = i /\ sent[y] > 0

(***************************************************************************)
(* Where there is a packet, its application has sent one.                  *)
(***************************************************************************)
Sent ==
    /\ \A x \in Assoc : pkt_send[x] > 0 \/ packet_to[x] > 0 => sent[x] > 0
    /\ \A i \in socket : Used(i)
    /\ incoming.id # None => Used(incoming.id)

(***************************************************************************)
(* A handler that has sent a packet connects its socket before it does     *)
(* anything else.                                                          *)
(***************************************************************************)
Joined ==
    \A x \in Assoc :
        sent[x] > 0 => /\ spc[x] \in {"relay", "connect", "done"}
                       /\ spc[x] = "relay" => x \in connected

\* A packet comes back to who has sent one, or shares the ID.
Asked == \A x \in Assoc : pkt_recv[x] > 0 => sent[x] > 0 \/ Shared(x)

IInv ==
    /\ TypeOK /\ Drawn /\ Counted /\ Mapped /\ Sent
    /\ DroppedForAReason /\ Asked /\ Joined

-----------------------------------------------------------------------------
\* The steps of the SOCKS5 handler that may end it.
Handled(x) ==
    \/ Bind(x) \/ ReplySucceeded(x) \/ ToApplication(x) \/ ChannelClosed(x)
    \/ Disconnect(x) \/ Connect(x)

\* Which steps write which variable: all others leave it alone.
Writers ==
    /\ \/ spc' = spc
       \/ \E x \in Assoc : \/ Handled(x) \/ FromApplication(x)
                           \/ \E i \in Id : SendRequest(x, i)
    /\ end' = end \/ \E x \in Assoc : Handled(x)
    /\ pkt_recv' = pkt_recv \/ Deliver \/ \E x \in Assoc : Handled(x)
    /\ connected' = connected \/ \E x \in Assoc : Connect(x)
    /\ sent' = sent \/ \E x \in Assoc : FromApplication(x)
    /\ assoc_id' = assoc_id \/ \E x \in Assoc, i \in Id : SendRequest(x, i)
    /\ \/ rpc' = rpc
       \/ \E x \in Assoc : \/ \E i \in Id : SendRequest(x, i)
                           \/ Insert(x) \/ TimeoutRequest(x) \/ Remove(x)
                           \/ SendDissociate(x)
    /\ sessions' = sessions \/ \E x \in Assoc : Insert(x) \/ Remove(x)
    /\ late' = late \/ \E x \in Assoc : SendDissociate(x)
    /\ \/ pkt_send' = pkt_send
       \/ \E x \in Assoc :
             FromApplication(x) \/ TimeoutRequest(x) \/ SpawnPacketTo(x)
    /\ \/ packet_to' = packet_to
       \/ \E x \in Assoc : SpawnPacketTo(x) \/ PacketArrives(x)
    /\ \/ incoming' = incoming
       \/ GetSession \/ Deliver \/ \E i \in Id : PacketFrom(i)
    /\ \/ dissociate' = dissociate
       \/ \E x \in Assoc : SendDissociate(x)
       \/ \E i \in Id : DissociateArrives(i)
    /\ \/ socket' = socket
       \/ \E x \in Assoc : PacketArrives(x)
       \/ (\E i \in Id : DissociateArrives(i)) \/ ServerReleases
    /\ lost' = lost \/ ConnectionLost

\* Every step writes only what Writers says.
LEMMA WritersStep ==
  ASSUME [Next]_vars
  PROVE  Writers
  <1> USE DEF socksVars, relayVars, wireVars
  <1>1. ASSUME NEW x \in Assoc, Bind(x) PROVE Writers
    <2>1. /\ connected' = connected /\ sent' = sent /\ assoc_id' = assoc_id
          /\ rpc' = rpc /\ sessions' = sessions /\ late' = late
          /\ pkt_send' = pkt_send /\ packet_to' = packet_to
          /\ incoming' = incoming /\ dissociate' = dissociate
          /\ socket' = socket /\ lost' = lost
      BY <1>1 DEF Bind, Return
    <2> QED BY <1>1, <2>1, ZenonT(40) DEF Writers, Handled
  <1>2. ASSUME NEW x \in Assoc, NEW i \in Id, SendRequest(x, i) PROVE Writers
    <2>1. /\ end' = end /\ pkt_recv' = pkt_recv /\ connected' = connected
          /\ sent' = sent /\ sessions' = sessions /\ late' = late
          /\ pkt_send' = pkt_send /\ packet_to' = packet_to
          /\ incoming' = incoming /\ dissociate' = dissociate
          /\ socket' = socket /\ lost' = lost
      BY <1>2 DEF SendRequest
    <2> QED BY <1>2, <2>1, ZenonT(40) DEF Writers
  <1>3. ASSUME NEW x \in Assoc, ReplySucceeded(x) PROVE Writers
    <2>1. /\ connected' = connected /\ sent' = sent /\ assoc_id' = assoc_id
          /\ rpc' = rpc /\ sessions' = sessions /\ late' = late
          /\ pkt_send' = pkt_send /\ packet_to' = packet_to
          /\ incoming' = incoming /\ dissociate' = dissociate
          /\ socket' = socket /\ lost' = lost
      BY <1>3 DEF ReplySucceeded, Return
    <2> QED BY <1>3, <2>1, ZenonT(40) DEF Writers, Handled
  <1>4. ASSUME NEW x \in Assoc, ToApplication(x) PROVE Writers
    <2>1. /\ connected' = connected /\ sent' = sent /\ assoc_id' = assoc_id
          /\ rpc' = rpc /\ sessions' = sessions /\ late' = late
          /\ pkt_send' = pkt_send /\ packet_to' = packet_to
          /\ incoming' = incoming /\ dissociate' = dissociate
          /\ socket' = socket /\ lost' = lost
      BY <1>4 DEF ToApplication, Return
    <2> QED BY <1>4, <2>1, ZenonT(40) DEF Writers, Handled
  <1>5. ASSUME NEW x \in Assoc, ChannelClosed(x) PROVE Writers
    <2>1. /\ connected' = connected /\ sent' = sent /\ assoc_id' = assoc_id
          /\ rpc' = rpc /\ sessions' = sessions /\ late' = late
          /\ pkt_send' = pkt_send /\ packet_to' = packet_to
          /\ incoming' = incoming /\ dissociate' = dissociate
          /\ socket' = socket /\ lost' = lost
      BY <1>5 DEF ChannelClosed, Return
    <2> QED BY <1>5, <2>1, ZenonT(40) DEF Writers, Handled
  <1>6. ASSUME NEW x \in Assoc, FromApplication(x) PROVE Writers
    <2>1. /\ end' = end /\ pkt_recv' = pkt_recv /\ connected' = connected
          /\ assoc_id' = assoc_id /\ rpc' = rpc /\ sessions' = sessions
          /\ late' = late /\ packet_to' = packet_to
          /\ incoming' = incoming /\ dissociate' = dissociate
          /\ socket' = socket /\ lost' = lost
      BY <1>6 DEF FromApplication
    <2> QED BY <1>6, <2>1, ZenonT(40) DEF Writers
  <1>7. ASSUME NEW x \in Assoc, Disconnect(x) PROVE Writers
    <2>1. /\ connected' = connected /\ sent' = sent /\ assoc_id' = assoc_id
          /\ rpc' = rpc /\ sessions' = sessions /\ late' = late
          /\ pkt_send' = pkt_send /\ packet_to' = packet_to
          /\ incoming' = incoming /\ dissociate' = dissociate
          /\ socket' = socket /\ lost' = lost
      BY <1>7 DEF Disconnect, Return
    <2> QED BY <1>7, <2>1, ZenonT(40) DEF Writers, Handled
  <1>8. ASSUME NEW x \in Assoc, Insert(x) PROVE Writers
    <2>1. /\ spc' = spc /\ end' = end /\ pkt_recv' = pkt_recv
          /\ connected' = connected /\ sent' = sent
          /\ assoc_id' = assoc_id /\ late' = late
          /\ pkt_send' = pkt_send /\ packet_to' = packet_to
          /\ incoming' = incoming /\ dissociate' = dissociate
          /\ socket' = socket /\ lost' = lost
      BY <1>8 DEF Insert
    <2> QED BY <1>8, <2>1, ZenonT(40) DEF Writers
  <1>9. ASSUME NEW x \in Assoc, TimeoutRequest(x) PROVE Writers
    <2>1. /\ spc' = spc /\ end' = end /\ pkt_recv' = pkt_recv
          /\ connected' = connected /\ sent' = sent
          /\ assoc_id' = assoc_id /\ sessions' = sessions
          /\ late' = late /\ packet_to' = packet_to
          /\ incoming' = incoming /\ dissociate' = dissociate
          /\ socket' = socket /\ lost' = lost
      BY <1>9 DEF TimeoutRequest
    <2> QED BY <1>9, <2>1, ZenonT(40) DEF Writers
  <1>10. ASSUME NEW x \in Assoc, SpawnPacketTo(x) PROVE Writers
    <2>1. /\ spc' = spc /\ end' = end /\ pkt_recv' = pkt_recv
          /\ connected' = connected /\ sent' = sent
          /\ assoc_id' = assoc_id /\ rpc' = rpc /\ sessions' = sessions
          /\ late' = late /\ incoming' = incoming
          /\ dissociate' = dissociate /\ socket' = socket
          /\ lost' = lost
      BY <1>10 DEF SpawnPacketTo
    <2> QED BY <1>10, <2>1, ZenonT(40) DEF Writers
  <1>11. ASSUME NEW x \in Assoc, Remove(x) PROVE Writers
    <2>1. /\ spc' = spc /\ end' = end /\ pkt_recv' = pkt_recv
          /\ connected' = connected /\ sent' = sent
          /\ assoc_id' = assoc_id /\ late' = late
          /\ pkt_send' = pkt_send /\ packet_to' = packet_to
          /\ incoming' = incoming /\ dissociate' = dissociate
          /\ socket' = socket /\ lost' = lost
      BY <1>11 DEF Remove
    <2> QED BY <1>11, <2>1, ZenonT(40) DEF Writers
  <1>12. ASSUME NEW x \in Assoc, SendDissociate(x) PROVE Writers
    <2>1. /\ spc' = spc /\ end' = end /\ pkt_recv' = pkt_recv
          /\ connected' = connected /\ sent' = sent
          /\ assoc_id' = assoc_id /\ sessions' = sessions
          /\ pkt_send' = pkt_send /\ packet_to' = packet_to
          /\ incoming' = incoming /\ socket' = socket /\ lost' = lost
      BY <1>12 DEF SendDissociate
    <2> QED BY <1>12, <2>1, ZenonT(40) DEF Writers
  <1>13. ASSUME NEW x \in Assoc, PacketArrives(x) PROVE Writers
    <2>1. /\ spc' = spc /\ end' = end /\ pkt_recv' = pkt_recv
          /\ connected' = connected /\ sent' = sent
          /\ assoc_id' = assoc_id /\ rpc' = rpc /\ sessions' = sessions
          /\ late' = late /\ pkt_send' = pkt_send
          /\ incoming' = incoming /\ dissociate' = dissociate
          /\ lost' = lost
      BY <1>13 DEF PacketArrives
    <2> QED BY <1>13, <2>1, ZenonT(40) DEF Writers
  <1>14. ASSUME NEW i \in Id, DissociateArrives(i) PROVE Writers
    <2>1. /\ spc' = spc /\ end' = end /\ pkt_recv' = pkt_recv
          /\ connected' = connected /\ sent' = sent
          /\ assoc_id' = assoc_id /\ rpc' = rpc /\ sessions' = sessions
          /\ late' = late /\ pkt_send' = pkt_send
          /\ packet_to' = packet_to /\ incoming' = incoming
          /\ lost' = lost
      BY <1>14 DEF DissociateArrives
    <2> QED BY <1>14, <2>1, ZenonT(40) DEF Writers
  <1>15. CASE GetSession
    <2>1. /\ spc' = spc /\ end' = end /\ pkt_recv' = pkt_recv
          /\ connected' = connected /\ sent' = sent
          /\ assoc_id' = assoc_id /\ rpc' = rpc /\ sessions' = sessions
          /\ late' = late /\ pkt_send' = pkt_send
          /\ packet_to' = packet_to /\ dissociate' = dissociate
          /\ socket' = socket /\ lost' = lost
      BY <1>15 DEF GetSession
    <2> QED BY <1>15, <2>1, ZenonT(40) DEF Writers
  <1>16. CASE Deliver
    <2>1. /\ spc' = spc /\ end' = end /\ connected' = connected
          /\ sent' = sent /\ assoc_id' = assoc_id /\ rpc' = rpc
          /\ sessions' = sessions /\ late' = late
          /\ pkt_send' = pkt_send /\ packet_to' = packet_to
          /\ dissociate' = dissociate /\ socket' = socket
          /\ lost' = lost
      BY <1>16 DEF Deliver
    <2> QED BY <1>16, <2>1, ZenonT(40) DEF Writers
  <1>17. ASSUME NEW i \in Id, PacketFrom(i) PROVE Writers
    <2>1. /\ spc' = spc /\ end' = end /\ pkt_recv' = pkt_recv
          /\ connected' = connected /\ sent' = sent
          /\ assoc_id' = assoc_id /\ rpc' = rpc /\ sessions' = sessions
          /\ late' = late /\ pkt_send' = pkt_send
          /\ packet_to' = packet_to /\ dissociate' = dissociate
          /\ socket' = socket /\ lost' = lost
      BY <1>17 DEF PacketFrom
    <2> QED BY <1>17, <2>1, ZenonT(40) DEF Writers
  <1>18. CASE ConnectionLost
    <2>1. /\ spc' = spc /\ end' = end /\ pkt_recv' = pkt_recv
          /\ connected' = connected /\ sent' = sent
          /\ assoc_id' = assoc_id /\ rpc' = rpc /\ sessions' = sessions
          /\ late' = late /\ pkt_send' = pkt_send
          /\ packet_to' = packet_to /\ incoming' = incoming
          /\ dissociate' = dissociate /\ socket' = socket
      BY <1>18 DEF ConnectionLost
    <2> QED BY <1>18, <2>1, ZenonT(40) DEF Writers
  <1>19. CASE UNCHANGED vars
    BY <1>19, ZenonT(40) DEF vars, Writers
  <1>20. ASSUME NEW x \in Assoc, Connect(x) PROVE Writers
    <2>1. /\ sent' = sent /\ assoc_id' = assoc_id
          /\ rpc' = rpc /\ sessions' = sessions /\ late' = late
          /\ pkt_send' = pkt_send /\ packet_to' = packet_to
          /\ incoming' = incoming /\ dissociate' = dissociate
          /\ socket' = socket /\ lost' = lost
      BY <1>20 DEF Connect
    <2> QED BY <1>20, <2>1, ZenonT(40) DEF Writers, Handled
  <1>21. CASE ServerReleases
    <2>1. /\ spc' = spc /\ end' = end /\ pkt_recv' = pkt_recv
          /\ connected' = connected /\ sent' = sent
          /\ assoc_id' = assoc_id /\ rpc' = rpc /\ sessions' = sessions
          /\ late' = late /\ pkt_send' = pkt_send
          /\ packet_to' = packet_to /\ incoming' = incoming
          /\ dissociate' = dissociate /\ lost' = lost
      BY <1>21 DEF ServerReleases
    <2> QED BY <1>21, <2>1, ZenonT(40) DEF Writers
  <1> HIDE DEF socksVars, relayVars, wireVars
  <1> QED
    BY <1>1, <1>2, <1>3, <1>4, <1>5, <1>6, <1>7, <1>8, <1>9, <1>10, <1>11,
       <1>12, <1>13, <1>14, <1>15, <1>16, <1>17, <1>18, <1>19, <1>20,
       <1>21, ZenonT(40)
    DEF Next, SocksStep, RequestStep, WireStep

\* Every variable keeps its type: a channel never holds more than its one
\* packet, and no more packets are on their way than were sent.
LEMMA TypeStep ==
  ASSUME TypeOK, Drawn, Counted, Sent, [Next]_vars
  PROVE  TypeOK'
  <1> USE AssociationAssumption
      DEF TypeOK, socksVars, relayVars, wireVars, Nothing
  <1>1. ASSUME NEW x \in Assoc, Bind(x) PROVE TypeOK'
    BY <1>1 DEF Bind, Return
  <1>2. ASSUME NEW x \in Assoc, NEW i \in Id, SendRequest(x, i) PROVE TypeOK'
    BY <1>2 DEF SendRequest
  <1>3. ASSUME NEW x \in Assoc, ReplySucceeded(x) PROVE TypeOK'
    BY <1>3 DEF ReplySucceeded, Return
  <1>4. ASSUME NEW x \in Assoc, ToApplication(x) PROVE TypeOK'
    BY <1>4 DEF ToApplication, Return
  <1>5. ASSUME NEW x \in Assoc, ChannelClosed(x) PROVE TypeOK'
    BY <1>5 DEF ChannelClosed, Return
  <1>6. ASSUME NEW x \in Assoc, FromApplication(x) PROVE TypeOK'
    BY <1>6 DEF FromApplication
  <1>7. ASSUME NEW x \in Assoc, Disconnect(x) PROVE TypeOK'
    BY <1>7 DEF Disconnect, Return
  <1>8. ASSUME NEW x \in Assoc, Insert(x) PROVE TypeOK'
    BY <1>8 DEF Insert
  <1>9. ASSUME NEW x \in Assoc, TimeoutRequest(x) PROVE TypeOK'
    BY <1>9 DEF TimeoutRequest
  <1>10. ASSUME NEW x \in Assoc, SpawnPacketTo(x) PROVE TypeOK'
    BY <1>10 DEF SpawnPacketTo, Counted
  <1>11. ASSUME NEW x \in Assoc, Remove(x) PROVE TypeOK'
    BY <1>11 DEF Remove
  <1>12. ASSUME NEW x \in Assoc, SendDissociate(x) PROVE TypeOK'
    BY <1>12 DEF SendDissociate, Drawn
  <1>13. ASSUME NEW x \in Assoc, PacketArrives(x) PROVE TypeOK'
    BY <1>13 DEF PacketArrives, Drawn, Sent
  <1>14. ASSUME NEW i \in Id, DissociateArrives(i) PROVE TypeOK'
    BY <1>14 DEF DissociateArrives
  <1>15. CASE GetSession
    BY <1>15 DEF GetSession
  <1>16. CASE Deliver
    BY <1>16 DEF Deliver
  <1>17. ASSUME NEW i \in Id, PacketFrom(i) PROVE TypeOK'
    BY <1>17 DEF PacketFrom
  <1>18. CASE ConnectionLost
    BY <1>18 DEF ConnectionLost
  <1>19. CASE UNCHANGED vars
    BY <1>19, SMTT(60) DEF vars
  <1>20. ASSUME NEW x \in Assoc, Connect(x) PROVE TypeOK'
    BY <1>20 DEF Connect, Return
  <1>21. CASE ServerReleases
    BY <1>21 DEF ServerReleases
  <1> QED
    BY <1>1, <1>2, <1>3, <1>4, <1>5, <1>6, <1>7, <1>8, <1>9, <1>10, <1>11,
       <1>12, <1>13, <1>14, <1>15, <1>16, <1>17, <1>18, <1>19, <1>20, <1>21
    DEF Next, SocksStep, RequestStep, WireStep

\* The order of an association's life is kept.
LEMMA DrawnStep ==
  ASSUME TypeOK, Drawn, Mapped, [Next]_vars
  PROVE  Drawn'
  <1>t. /\ spc \in [Assoc -> {"bind", "request", "reply", "relay", "connect",
                              "done"}]
        /\ rpc \in [Assoc -> {"none", "queued", "recv", "dissociate", "done",
                              "timeout"}]
        /\ end \in [Assoc -> {"none", "refused", "closed", "error", "dropped"}]
        /\ sent \in [Assoc -> 0..MaxPkt]
        /\ assoc_id \in [Assoc -> Id \cup {None}]
        /\ pkt_recv \in [Assoc -> 0..1]
    BY DEF TypeOK
  <1>e. ASSUME spc' = spc, rpc' = rpc, assoc_id' = assoc_id,
               end' = end, pkt_recv' = pkt_recv, sent' = sent
        PROVE  Drawn'
    BY <1>e, Zenon DEF Drawn
  <1> USE DEF socksVars, relayVars, wireVars
  <1>1. ASSUME NEW x \in Assoc, Bind(x) PROVE Drawn'
    BY <1>t, <1>1, AssociationAssumption
    DEF Bind, Return, Drawn
  <1>2. ASSUME NEW x \in Assoc, NEW i \in Id, SendRequest(x, i) PROVE Drawn'
    BY <1>t, <1>2, AssociationAssumption
    DEF SendRequest, Drawn
  <1>3. ASSUME NEW x \in Assoc, ReplySucceeded(x) PROVE Drawn'
    BY <1>t, <1>3, AssociationAssumption
    DEF ReplySucceeded, Return, Drawn
  <1>4. ASSUME NEW x \in Assoc, ToApplication(x) PROVE Drawn'
    BY <1>t, <1>4, AssociationAssumption
    DEF ToApplication, Return, Drawn
  <1>5. ASSUME NEW x \in Assoc, ChannelClosed(x) PROVE Drawn'
    BY <1>t, <1>5, AssociationAssumption
    DEF ChannelClosed, Return, Drawn
  <1>6. ASSUME NEW x \in Assoc, FromApplication(x) PROVE Drawn'
    BY <1>t, <1>6, AssociationAssumption
    DEF FromApplication, Drawn
  <1>7. ASSUME NEW x \in Assoc, Disconnect(x) PROVE Drawn'
    BY <1>t, <1>7, AssociationAssumption
    DEF Disconnect, Return, Drawn
  <1>8. ASSUME NEW x \in Assoc, Insert(x) PROVE Drawn'
    BY <1>t, <1>8, AssociationAssumption
    DEF Insert, Drawn
  <1>9. ASSUME NEW x \in Assoc, TimeoutRequest(x) PROVE Drawn'
    BY <1>t, <1>9, AssociationAssumption
    DEF TimeoutRequest, Drawn
  <1>10. ASSUME NEW x \in Assoc, Remove(x) PROVE Drawn'
    BY <1>t, <1>10, AssociationAssumption
    DEF Remove, Drawn
  <1>11. ASSUME NEW x \in Assoc, SendDissociate(x) PROVE Drawn'
    BY <1>t, <1>11, AssociationAssumption
    DEF SendDissociate, Drawn
  <1>12. CASE Deliver
    BY <1>t, <1>12, AssociationAssumption
    DEF Deliver, Mapped, Drawn, Mapped
  <1>13. ASSUME NEW x \in Assoc, Connect(x) PROVE Drawn'
    BY <1>t, <1>13, AssociationAssumption
    DEF Connect, Return, Drawn
  <1> QED
    BY <1>e, <1>1, <1>2, <1>3, <1>4, <1>5, <1>6, <1>7, <1>8, <1>9, <1>10,
       <1>11, <1>12, <1>13, WritersStep, ZenonT(40)
    DEF Writers, Handled

\* A packet goes from one place to the next.
LEMMA CountedStep ==
  ASSUME TypeOK, Counted, [Next]_vars
  PROVE  Counted'
  <1>t. /\ sent \in [Assoc -> 0..MaxPkt]
        /\ pkt_send \in [Assoc -> 0..1]
        /\ packet_to \in [Assoc -> 0..MaxPkt]
    BY DEF TypeOK
  <1>e. ASSUME sent' = sent, pkt_send' = pkt_send, packet_to' = packet_to
        PROVE  Counted'
    BY <1>e, Zenon DEF Counted
  <1> USE DEF socksVars, relayVars, wireVars
  <1>1. ASSUME NEW x \in Assoc, FromApplication(x) PROVE Counted'
    BY <1>t, <1>1, AssociationAssumption
    DEF FromApplication, Counted
  <1>2. ASSUME NEW x \in Assoc, TimeoutRequest(x) PROVE Counted'
    BY <1>t, <1>2, AssociationAssumption
    DEF TimeoutRequest, Counted
  <1>3. ASSUME NEW x \in Assoc, SpawnPacketTo(x) PROVE Counted'
    BY <1>t, <1>3, AssociationAssumption
    DEF SpawnPacketTo, Counted
  <1>4. ASSUME NEW x \in Assoc, PacketArrives(x) PROVE Counted'
    BY <1>t, <1>4, AssociationAssumption
    DEF PacketArrives, Counted
  <1> QED
    BY <1>e, <1>1, <1>2, <1>3, <1>4, WritersStep, ZenonT(40)
    DEF Writers, Handled

\* An ID, once drawn, is kept, and what was sent was sent.
Stays ==
    /\ \A x \in Assoc : assoc_id[x] # None => assoc_id'[x] = assoc_id[x]
    /\ \A x \in Assoc : sent[x] > 0 => sent'[x] > 0

\* Every step keeps both.
LEMMA IdsStay ==
  ASSUME TypeOK, Drawn, [Next]_vars
  PROVE  Stays
  <1>t. /\ assoc_id \in [Assoc -> Id \cup {None}]
        /\ sent \in [Assoc -> 0..MaxPkt]
    BY DEF TypeOK
  <1>e. ASSUME assoc_id' = assoc_id, sent' = sent
        PROVE  Stays
    BY <1>e, Zenon DEF Stays
  <1> USE DEF socksVars, relayVars, wireVars
  <1>1. ASSUME NEW x \in Assoc, NEW i \in Id, SendRequest(x, i) PROVE Stays
    BY <1>t, <1>1, AssociationAssumption
    DEF SendRequest, Stays, Drawn
  <1>2. ASSUME NEW x \in Assoc, FromApplication(x) PROVE Stays
    BY <1>t, <1>2, AssociationAssumption
    DEF FromApplication, Stays
  <1> QED
    BY <1>e, <1>1, <1>2, WritersStep, ZenonT(40)
    DEF Writers, Handled

\* So an association that shares its ID goes on sharing it.
LEMMA SharedStays ==
  ASSUME Stays, NEW x \in Assoc, assoc_id[x] # None, Shared(x)
  PROVE  Shared(x)'
  BY DEF Stays, Shared

\* And an ID that is in use stays in use.
LEMMA UsedStays ==
  ASSUME Stays, NEW i, i # None, Used(i)
  PROVE  Used(i)'
  BY DEF Stays, Used

\* The map has, for each ID, one that drew it; an association that is not in
\* the map while it is processed shares its ID.
LEMMA MappedStep ==
  ASSUME TypeOK, Drawn, Mapped, [Next]_vars
  PROVE  Mapped'
  <1>t. /\ rpc \in [Assoc -> {"none", "queued", "recv", "dissociate", "done",
                              "timeout"}]
        /\ assoc_id \in [Assoc -> Id \cup {None}]
        /\ sessions \in [Id -> Assoc \cup {None}]
        /\ incoming \in [id : Id \cup {None}, tx : Assoc \cup {None}]
    BY DEF TypeOK
  <1>a. Stays
    BY IdsStay
  <1>b. \A x \in Assoc : assoc_id[x] # None /\ Shared(x) => Shared(x)'
    BY <1>a, SharedStays
  <1>e. ASSUME rpc' = rpc, assoc_id' = assoc_id, sessions' = sessions,
               incoming' = incoming
        PROVE  Mapped'
    BY <1>e, Zenon DEF Mapped, Shared
  <1> USE DEF socksVars, relayVars, wireVars
  <1>1. ASSUME NEW x \in Assoc, NEW i \in Id, SendRequest(x, i) PROVE Mapped'
    BY <1>b, <1>t, <1>1, AssociationAssumption
    DEF SendRequest, Mapped, Drawn
  <1>2. ASSUME NEW x \in Assoc, Insert(x) PROVE Mapped'
    BY <1>b, <1>t, <1>2, AssociationAssumption
    DEF Insert, Shared, Mapped, Drawn
  <1>3. ASSUME NEW x \in Assoc, TimeoutRequest(x) PROVE Mapped'
    BY <1>b, <1>t, <1>3, AssociationAssumption
    DEF TimeoutRequest, Mapped, Drawn
  <1>4. ASSUME NEW x \in Assoc, Remove(x) PROVE Mapped'
    BY <1>b, <1>t, <1>4, AssociationAssumption
    DEF Remove, Shared, Mapped, Drawn
  <1>5. ASSUME NEW x \in Assoc, SendDissociate(x) PROVE Mapped'
    BY <1>b, <1>t, <1>5, AssociationAssumption
    DEF SendDissociate, Mapped, Drawn
  <1>6. CASE GetSession
    BY <1>b, <1>t, <1>6, AssociationAssumption
    DEF GetSession, Mapped, Drawn, Nothing
  <1>7. CASE Deliver
    <2>1. /\ sessions' = sessions /\ rpc' = rpc /\ assoc_id' = assoc_id
          /\ incoming'.tx = None
      BY <1>7 DEF Deliver, Nothing
    <2> QED BY <2>1, Zenon DEF Mapped, Shared
  <1>8. ASSUME NEW i \in Id, PacketFrom(i) PROVE Mapped'
    BY <1>b, <1>t, <1>8, AssociationAssumption
    DEF PacketFrom, Mapped, Drawn, Nothing
  <1> QED
    BY <1>e, <1>1, <1>2, <1>3, <1>4, <1>5, <1>6, <1>7, <1>8, WritersStep,
       ZenonT(40)
    DEF Writers, Handled

\* No packet comes from nowhere.
LEMMA SentStep ==
  ASSUME TypeOK, Drawn, Sent, [Next]_vars
  PROVE  Sent'
  <1>t. /\ assoc_id \in [Assoc -> Id \cup {None}]
        /\ sent \in [Assoc -> 0..MaxPkt]
        /\ pkt_send \in [Assoc -> 0..1]
        /\ packet_to \in [Assoc -> 0..MaxPkt]
        /\ socket \subseteq Id
        /\ incoming \in [id : Id \cup {None}, tx : Assoc \cup {None}]
    BY DEF TypeOK
  <1>a. Stays
    BY IdsStay
  <1>b. \A i : i # None /\ Used(i) => Used(i)'
    BY <1>a, UsedStays
  <1>e. ASSUME assoc_id' = assoc_id, sent' = sent,
               pkt_send' = pkt_send, packet_to' = packet_to,
               socket' = socket, incoming' = incoming
        PROVE  Sent'
    BY <1>e, Zenon DEF Sent, Used
  <1> USE DEF socksVars, relayVars, wireVars
  <1>1. ASSUME NEW x \in Assoc, NEW i \in Id, SendRequest(x, i) PROVE Sent'
    BY <1>b, <1>t, <1>1, AssociationAssumption
    DEF SendRequest, Sent
  <1>2. ASSUME NEW x \in Assoc, FromApplication(x) PROVE Sent'
    BY <1>b, <1>t, <1>2, AssociationAssumption
    DEF FromApplication, Sent
  <1>3. ASSUME NEW x \in Assoc, TimeoutRequest(x) PROVE Sent'
    BY <1>b, <1>t, <1>3, AssociationAssumption
    DEF TimeoutRequest, Sent
  <1>4. ASSUME NEW x \in Assoc, SpawnPacketTo(x) PROVE Sent'
    BY <1>b, <1>t, <1>4, AssociationAssumption
    DEF SpawnPacketTo, Sent
  <1>5. ASSUME NEW x \in Assoc, PacketArrives(x) PROVE Sent'
    BY <1>b, <1>t, <1>5, AssociationAssumption
    DEF PacketArrives, Used, Sent, Drawn
  <1>6. ASSUME NEW i \in Id, DissociateArrives(i) PROVE Sent'
    BY <1>b, <1>t, <1>6, AssociationAssumption
    DEF DissociateArrives, Sent
  <1>7. CASE GetSession
    BY <1>b, <1>t, <1>7, AssociationAssumption
    DEF GetSession, Sent, Nothing
  <1>8. CASE Deliver
    BY <1>b, <1>t, <1>8, AssociationAssumption
    DEF Deliver, Sent, Nothing
  <1>9. ASSUME NEW i \in Id, PacketFrom(i) PROVE Sent'
    BY <1>b, <1>t, <1>9, AssociationAssumption
    DEF PacketFrom, Sent, Nothing
  <1>10. CASE ServerReleases
    BY <1>b, <1>t, <1>10, AssociationAssumption
    DEF ServerReleases, Sent
  <1> QED
    BY <1>e, <1>1, <1>2, <1>3, <1>4, <1>5, <1>6, <1>7, <1>8, <1>9, <1>10,
       WritersStep, ZenonT(40)
    DEF Writers, Handled

\* What the two properties need.
Reasoned == DroppedForAReason /\ Asked

\* ChannelClosed finds no Sender only after a timeout or when the ID is shared,
\* and Deliver has a packet only for an ID that is in use.
LEMMA ReasonedStep ==
  ASSUME IInv, [Next]_vars
  PROVE  Reasoned'
  <1>t. /\ spc \in [Assoc -> {"bind", "request", "reply", "relay", "connect",
                              "done"}]
        /\ rpc \in [Assoc -> {"none", "queued", "recv", "dissociate", "done",
                              "timeout"}]
        /\ end \in [Assoc -> {"none", "refused", "closed", "error", "dropped"}]
        /\ sent \in [Assoc -> 0..MaxPkt]
        /\ assoc_id \in [Assoc -> Id \cup {None}]
        /\ pkt_recv \in [Assoc -> 0..1]
        /\ sessions \in [Id -> Assoc \cup {None}]
        /\ incoming \in [id : Id \cup {None}, tx : Assoc \cup {None}]
    BY DEF IInv, TypeOK
  <1>a. Stays
    BY IdsStay DEF IInv
  <1>b. \A x \in Assoc : assoc_id[x] # None /\ Shared(x) => Shared(x)'
    BY <1>a, SharedStays
  <1>c. TypeOK /\ Drawn /\ Mapped /\ Reasoned
    BY DEF IInv, Reasoned
  <1>e. ASSUME end' = end, rpc' = rpc, pkt_recv' = pkt_recv,
               sent' = sent, assoc_id' = assoc_id, spc' = spc
        PROVE  Reasoned'
    BY <1>e, <1>c, Zenon
    DEF Reasoned, DroppedForAReason, Asked, Shared
  <1> USE DEF socksVars, relayVars, wireVars
  <1>1. ASSUME NEW x \in Assoc, Bind(x) PROVE Reasoned'
    BY <1>b, <1>c, <1>t, <1>1, AssociationAssumption
    DEF Bind, Return, Reasoned, DroppedForAReason,
        Asked, Drawn
  <1>2. ASSUME NEW x \in Assoc, NEW i \in Id, SendRequest(x, i) PROVE Reasoned'
    BY <1>b, <1>c, <1>t, <1>2, AssociationAssumption
    DEF SendRequest, Reasoned, DroppedForAReason,
        Asked, Drawn
  <1>3. ASSUME NEW x \in Assoc, ReplySucceeded(x) PROVE Reasoned'
    BY <1>b, <1>c, <1>t, <1>3, AssociationAssumption
    DEF ReplySucceeded, Return, Reasoned, DroppedForAReason,
        Asked, Drawn
  <1>4. ASSUME NEW x \in Assoc, ToApplication(x) PROVE Reasoned'
    BY <1>b, <1>c, <1>t, <1>4, AssociationAssumption
    DEF ToApplication, Return, Reasoned, DroppedForAReason,
        Asked, Drawn
  <1>5. ASSUME NEW x \in Assoc, ChannelClosed(x) PROVE Reasoned'
    BY <1>b, <1>c, <1>t, <1>5, AssociationAssumption
    DEF ChannelClosed, Return, HasSender, Mapped, Reasoned, DroppedForAReason,
        Asked, Drawn
  <1>6. ASSUME NEW x \in Assoc, FromApplication(x) PROVE Reasoned'
    BY <1>b, <1>c, <1>t, <1>6, AssociationAssumption
    DEF FromApplication, Reasoned, DroppedForAReason,
        Asked, Drawn
  <1>7. ASSUME NEW x \in Assoc, Disconnect(x) PROVE Reasoned'
    BY <1>b, <1>c, <1>t, <1>7, AssociationAssumption
    DEF Disconnect, Return, Reasoned, DroppedForAReason,
        Asked, Drawn
  <1>8. ASSUME NEW x \in Assoc, Insert(x) PROVE Reasoned'
    BY <1>b, <1>c, <1>t, <1>8, AssociationAssumption
    DEF Insert, Reasoned, DroppedForAReason,
        Asked, Drawn
  <1>9. ASSUME NEW x \in Assoc, TimeoutRequest(x) PROVE Reasoned'
    BY <1>b, <1>c, <1>t, <1>9, AssociationAssumption
    DEF TimeoutRequest, Reasoned, DroppedForAReason,
        Asked, Drawn
  <1>10. ASSUME NEW x \in Assoc, Remove(x) PROVE Reasoned'
    BY <1>b, <1>c, <1>t, <1>10, AssociationAssumption
    DEF Remove, Reasoned, DroppedForAReason,
        Asked, Drawn
  <1>11. ASSUME NEW x \in Assoc, SendDissociate(x) PROVE Reasoned'
    BY <1>b, <1>c, <1>t, <1>11, AssociationAssumption
    DEF SendDissociate, Reasoned, DroppedForAReason,
        Asked, Drawn
  <1>12. CASE Deliver
    <2> DEFINE x == incoming.tx
    <2>1. x # None /\ x \in Assoc
      BY <1>t, <1>12 DEF Deliver
    <2>2. incoming.id # None /\ assoc_id[x] = incoming.id
      BY <1>c, <2>1, Zenon DEF Mapped
    <2>3. PICK y \in Assoc : assoc_id[y] = incoming.id /\ sent[y] > 0
      BY <2>2, Zenon DEF IInv, Sent, Used
    <2>4. sent[x] > 0 \/ Shared(x)
      BY <2>1, <2>2, <2>3, Zenon DEF Shared
    <2>5. assoc_id[x] # None
      BY <2>2, Zenon
    <2>6. QED
      BY <1>b, <1>c, <1>t, <1>12, <2>1, <2>4, <2>5
      DEF Deliver, Reasoned, DroppedForAReason, Asked, Drawn
  <1>13. ASSUME NEW x \in Assoc, Connect(x) PROVE Reasoned'
    BY <1>b, <1>c, <1>t, <1>13, AssociationAssumption
    DEF Connect, Return, Reasoned, DroppedForAReason,
        Asked, Drawn
  <1> QED
    BY <1>e, <1>1, <1>2, <1>3, <1>4, <1>5, <1>6, <1>7, <1>8, <1>9, <1>10,
       <1>11, <1>12, <1>13, WritersStep, ZenonT(40)
    DEF Writers, Handled

\* Between the first packet and the socket there is only Connect.
LEMMA JoinedStep ==
  ASSUME TypeOK, Joined, [Next]_vars
  PROVE  Joined'
  <1>t. /\ spc \in [Assoc -> {"bind", "request", "reply", "relay", "connect",
                              "done"}]
        /\ sent \in [Assoc -> 0..MaxPkt]
        /\ connected \subseteq Assoc
    BY DEF TypeOK
  <1>e. ASSUME spc' = spc, sent' = sent, connected' = connected
        PROVE  Joined'
    BY <1>e, Zenon DEF Joined
  <1> USE DEF socksVars, relayVars, wireVars
  <1>1. ASSUME NEW x \in Assoc, Bind(x) PROVE Joined'
    BY <1>t, <1>1 DEF Bind, Return, Joined
  <1>2. ASSUME NEW x \in Assoc, NEW i \in Id, SendRequest(x, i) PROVE Joined'
    BY <1>t, <1>2 DEF SendRequest, Joined
  <1>3. ASSUME NEW x \in Assoc, ReplySucceeded(x) PROVE Joined'
    BY <1>t, <1>3 DEF ReplySucceeded, Return, Joined
  <1>4. ASSUME NEW x \in Assoc, ToApplication(x) PROVE Joined'
    BY <1>t, <1>4 DEF ToApplication, Return, Joined
  <1>5. ASSUME NEW x \in Assoc, ChannelClosed(x) PROVE Joined'
    BY <1>t, <1>5 DEF ChannelClosed, Return, Joined
  <1>6. ASSUME NEW x \in Assoc, FromApplication(x) PROVE Joined'
    BY <1>t, <1>6 DEF FromApplication, Joined
  <1>7. ASSUME NEW x \in Assoc, Disconnect(x) PROVE Joined'
    BY <1>t, <1>7 DEF Disconnect, Return, Joined
  <1>8. ASSUME NEW x \in Assoc, Connect(x) PROVE Joined'
    BY <1>t, <1>8 DEF Connect, Return, Joined
  <1> QED
    BY <1>e, <1>1, <1>2, <1>3, <1>4, <1>5, <1>6, <1>7, <1>8, WritersStep,
       ZenonT(40)
    DEF Writers, Handled


-----------------------------------------------------------------------------
\* The inductive invariant of the associations.
THEOREM Invariant == Spec => []IInv
  <1>1. Init => IInv
    <2> SUFFICES ASSUME Init PROVE IInv
      OBVIOUS
    <2>1. TypeOK
      <3>1. /\ sent \in [Assoc -> 0..MaxPkt]
            /\ packet_to \in [Assoc -> 0..MaxPkt]
            /\ pkt_send \in [Assoc -> 0..1]
            /\ pkt_recv \in [Assoc -> 0..1]
        BY AssociationAssumption DEF Init
      <3>2. lost \in BOOLEAN
        BY DEF Init
      <3> QED BY <3>1, <3>2 DEF Init, TypeOK, Nothing
    <2>2. Drawn /\ Counted
      BY DEF Init, Drawn, Counted
    <2>3. Mapped /\ Sent /\ DroppedForAReason /\ Asked /\ Joined
      BY DEF Init, Mapped, Sent, Nothing, DroppedForAReason, Asked, Joined
    <2> QED BY <2>1, <2>2, <2>3 DEF IInv
  <1>2. IInv /\ [Next]_vars => IInv'
    BY TypeStep, DrawnStep, CountedStep, MappedStep, SentStep, ReasonedStep,
       JoinedStep
    DEF IInv, Reasoned
  <1> HIDE DEF IInv
  <1> QED BY <1>1, <1>2, PTL DEF Spec

\* relay_to_socks5 finds its channel closed only after a request timeout or
\* when another association drew the same ID, whoever holds clones of the
\* Sender meanwhile: for any number of associations and IDs.
THEOREM DroppedSafe == Spec => []DroppedForAReason
  <1>1. IInv => DroppedForAReason
    BY DEF IInv
  <1> QED BY <1>1, Invariant, PTL

\* relay_to_socks5 has a packet only for an application that has sent one, or
\* one whose ID is shared; and although the reply may overtake the connect
\* that follows the send, it finds the socket connected when it looks.
THEOREM RepliesSafe == Spec => []RepliesFollowPackets
  <1>1. IInv => RepliesFollowPackets
    BY DEF IInv, Asked, Joined, RepliesFollowPackets
  <1> QED BY <1>1, Invariant, PTL

-----------------------------------------------------------------------------
(***************************************************************************)
(* What an association leaves behind.                                      *)
(***************************************************************************)

\* The map has an association for as long as its process_request receives
\* packets, and not longer, whoever else draws its ID and whenever the other
\* one ends: UdpSessionMap, whose entries ask for heartbeats, holds nobody who
\* is over.
OnlyServed == \A i \in Id : sessions[i] # None => rpc[sessions[i]] = "recv"

\* A process_request that goes for its Dissociate has passed on all packets,
\* and they have arrived or make it late.
Quiet ==
    \A x \in Assoc :
        /\ rpc[x] \in {"dissociate", "done"} => pkt_send[x] = 0
        /\ rpc[x] = "done" => packet_to[x] = 0 \/ x \in late

\* The server's socket of an association that is over has a Dissociate coming
\* for it, unless a packet was still on its way when that was sent, the ID is
\* someone else's too, or the connection is lost.
DissociateFollows ==
    \A x \in Assoc :
        rpc[x] = "done" => \/ assoc_id[x] \notin socket
                           \/ assoc_id[x] \in dissociate
                           \/ x \in late \/ Shared(x) \/ lost

\* An association that is over, on both sides, and forgotten.
Over(x) ==
    /\ spc[x] = "done"
    /\ rpc[x] \in {"none", "done", "timeout"}
    /\ \A i \in Id : sessions[i] # x

\* The map forgets with the task.
LEMMA ServedStep ==
  ASSUME IInv, OnlyServed, [Next]_vars
  PROVE  OnlyServed'
  <1>a. /\ rpc \in [Assoc -> {"none", "queued", "recv", "dissociate", "done",
                              "timeout"}]
        /\ sessions \in [Id -> Assoc \cup {None}]
        /\ assoc_id \in [Assoc -> Id \cup {None}]
        /\ \A x \in Assoc : rpc[x] = "recv" =>
               assoc_id[x] # None /\ spc[x] # "request"
        /\ \A i \in Id : sessions[i] # None => assoc_id[sessions[i]] = i
    BY SMTT(30) DEF IInv, TypeOK, Drawn, Mapped
  <1>e. ASSUME rpc' = rpc, sessions' = sessions
        PROVE  OnlyServed'
    BY <1>e, Zenon DEF OnlyServed
  <1> USE DEF socksVars, relayVars, wireVars
  <1>1. ASSUME NEW x \in Assoc, NEW i \in Id, SendRequest(x, i)
        PROVE  OnlyServed'
    BY <1>a, <1>1, AssociationAssumption, SMTT(30)
    DEF OnlyServed, SendRequest
  <1>2. ASSUME NEW x \in Assoc, Insert(x)
        PROVE  OnlyServed'
    BY <1>a, <1>2, AssociationAssumption, SMTT(30)
    DEF OnlyServed, Insert
  <1>3. ASSUME NEW x \in Assoc, TimeoutRequest(x)
        PROVE  OnlyServed'
    BY <1>a, <1>3, AssociationAssumption, SMTT(30)
    DEF OnlyServed, TimeoutRequest
  <1>4. ASSUME NEW x \in Assoc, Remove(x)
        PROVE  OnlyServed'
    BY <1>a, <1>4, AssociationAssumption, SMTT(30)
    DEF OnlyServed, Remove
  <1>5. ASSUME NEW x \in Assoc, SendDissociate(x)
        PROVE  OnlyServed'
    BY <1>a, <1>5, AssociationAssumption, SMTT(30)
    DEF OnlyServed, SendDissociate
  <1> QED
    BY <1>e, <1>1, <1>2, <1>3, <1>4, <1>5, WritersStep, ZenonT(40)
    DEF Writers, Handled

\* Nothing is sent after the Dissociate.
LEMMA QuietStep ==
  ASSUME IInv, Quiet, [Next]_vars
  PROVE  Quiet'
  <1>a. /\ rpc \in [Assoc -> {"none", "queued", "recv", "dissociate", "done",
                              "timeout"}]
        /\ pkt_send \in [Assoc -> 0..1] /\ packet_to \in [Assoc -> 0..MaxPkt]
        /\ late \subseteq Assoc
    BY DEF IInv, TypeOK
  <1>e. ASSUME rpc' = rpc, pkt_send' = pkt_send, packet_to' = packet_to,
               late' = late
        PROVE  Quiet'
    BY <1>e, Zenon DEF Quiet
  <1> USE DEF socksVars, relayVars, wireVars
  <1>1. ASSUME NEW x \in Assoc, NEW i \in Id, SendRequest(x, i)
        PROVE  Quiet'
    BY <1>a, <1>1, AssociationAssumption, SMTT(30)
    DEF Quiet, SendRequest
  <1>2. ASSUME NEW x \in Assoc, FromApplication(x)
        PROVE  Quiet'
    BY <1>a, <1>2, AssociationAssumption, SMTT(30)
    DEF Quiet, FromApplication, Receiving
  <1>3. ASSUME NEW x \in Assoc, Insert(x)
        PROVE  Quiet'
    BY <1>a, <1>3, AssociationAssumption, SMTT(30)
    DEF Quiet, Insert
  <1>4. ASSUME NEW x \in Assoc, TimeoutRequest(x)
        PROVE  Quiet'
    BY <1>a, <1>4, AssociationAssumption, SMTT(30)
    DEF Quiet, TimeoutRequest
  <1>5. ASSUME NEW x \in Assoc, SpawnPacketTo(x)
        PROVE  Quiet'
    BY <1>a, <1>5, AssociationAssumption, SMTT(30)
    DEF Quiet, SpawnPacketTo
  <1>6. ASSUME NEW x \in Assoc, Remove(x)
        PROVE  Quiet'
    BY <1>a, <1>6, AssociationAssumption, SMTT(30)
    DEF Quiet, Remove
  <1>7. ASSUME NEW x \in Assoc, SendDissociate(x)
        PROVE  Quiet'
    BY <1>a, <1>7, AssociationAssumption, SMTT(30)
    DEF Quiet, SendDissociate
  <1>8. ASSUME NEW x \in Assoc, PacketArrives(x)
        PROVE  Quiet'
    BY <1>a, <1>8, AssociationAssumption, SMTT(30)
    DEF Quiet, PacketArrives
  <1> QED
    BY <1>e, <1>1, <1>2, <1>3, <1>4, <1>5, <1>6, <1>7, <1>8, WritersStep,
       ZenonT(40)
    DEF Writers, Handled

\* A socket is opened for an ID only by a packet on its way, and released by
\* the Dissociate.
LEMMA FollowsStep ==
  ASSUME IInv, Quiet, DissociateFollows, [Next]_vars
  PROVE  DissociateFollows'
  <1>a. /\ rpc \in [Assoc -> {"none", "queued", "recv", "dissociate", "done",
                              "timeout"}]
        /\ assoc_id \in [Assoc -> Id \cup {None}]
        /\ packet_to \in [Assoc -> 0..MaxPkt]
        /\ \A x \in Assoc : rpc[x] = "done" => assoc_id[x] # None
        /\ \A x \in Assoc : spc[x] = "request" => rpc[x] = "none"
    BY SMTT(30) DEF IInv, TypeOK, Drawn
  <1>b. Stays
    <2>1. TypeOK /\ Drawn
      BY DEF IInv
    <2> QED BY <2>1, IdsStay
  <1>c. \A x \in Assoc : assoc_id[x] # None /\ Shared(x) => Shared(x)'
    BY <1>b, SharedStays
  <1>f. lost => lost'
    <2>1. CASE lost' = lost
      BY <2>1, Zenon
    <2>2. CASE ConnectionLost
      BY <2>2, Zenon DEF ConnectionLost
    <2> QED BY <2>1, <2>2, WritersStep, Zenon DEF Writers
  <1>g. ASSUME lost' PROVE DissociateFollows'
    BY <1>g, Zenon DEF DissociateFollows
  <1>d. ASSUME socket' = socket, dissociate' = dissociate, late' = late,
               \A y \in Assoc : rpc'[y] = "done" =>
                   rpc[y] = "done" /\ assoc_id'[y] = assoc_id[y]
        PROVE  DissociateFollows'
    <2> SUFFICES ASSUME NEW y \in Assoc, rpc'[y] = "done"
                 PROVE  \/ assoc_id'[y] \notin socket'
                        \/ assoc_id'[y] \in dissociate'
                        \/ y \in late' \/ Shared(y)' \/ lost'
      BY Zenon DEF DissociateFollows
    <2>1. /\ rpc[y] = "done" /\ assoc_id'[y] = assoc_id[y]
          /\ assoc_id[y] # None
      BY <1>a, <1>d, Zenon
    <2>2. \/ assoc_id[y] \notin socket \/ assoc_id[y] \in dissociate
          \/ y \in late \/ Shared(y) \/ lost
      BY <2>1, Zenon DEF DissociateFollows
    <2> QED BY <1>c, <1>d, <1>f, <2>1, <2>2, Zenon
  <1>e. ASSUME socket' = socket, dissociate' = dissociate, late' = late,
               rpc' = rpc, assoc_id' = assoc_id
        PROVE  DissociateFollows'
    BY <1>d, <1>e, Zenon
  <1> USE DEF socksVars, relayVars, wireVars
  <1>1. ASSUME NEW x \in Assoc, NEW i \in Id, SendRequest(x, i)
        PROVE  DissociateFollows'
    <2>1. /\ socket' = socket /\ dissociate' = dissociate /\ late' = late
          /\ rpc' = [rpc EXCEPT ![x] = "queued"]
          /\ assoc_id' = [assoc_id EXCEPT ![x] = i]
      BY <1>1 DEF SendRequest
    <2>2. ASSUME NEW y \in Assoc, rpc'[y] = "done"
          PROVE  rpc[y] = "done" /\ assoc_id'[y] = assoc_id[y]
      BY <1>a, <2>1, <2>2
    <2> QED BY <1>d, <2>1, <2>2, Zenon
  <1>2. ASSUME NEW x \in Assoc, Insert(x)
        PROVE  DissociateFollows'
    <2>1. /\ socket' = socket /\ dissociate' = dissociate /\ late' = late
          /\ rpc' = [rpc EXCEPT ![x] = "recv"] /\ assoc_id' = assoc_id
      BY <1>2 DEF Insert
    <2>2. ASSUME NEW y \in Assoc, rpc'[y] = "done" PROVE rpc[y] = "done"
      BY <1>a, <2>1, <2>2
    <2> QED BY <1>d, <2>1, <2>2, Zenon
  <1>3. ASSUME NEW x \in Assoc, TimeoutRequest(x)
        PROVE  DissociateFollows'
    <2>1. /\ socket' = socket /\ dissociate' = dissociate /\ late' = late
          /\ rpc' = [rpc EXCEPT ![x] = "timeout"] /\ assoc_id' = assoc_id
      BY <1>3 DEF TimeoutRequest
    <2>2. ASSUME NEW y \in Assoc, rpc'[y] = "done" PROVE rpc[y] = "done"
      BY <1>a, <2>1, <2>2
    <2> QED BY <1>d, <2>1, <2>2, Zenon
  <1>4. ASSUME NEW x \in Assoc, Remove(x)
        PROVE  DissociateFollows'
    <2>1. /\ socket' = socket /\ dissociate' = dissociate /\ late' = late
          /\ rpc' = [rpc EXCEPT ![x] = "dissociate"] /\ assoc_id' = assoc_id
      BY <1>4 DEF Remove
    <2>2. ASSUME NEW y \in Assoc, rpc'[y] = "done" PROVE rpc[y] = "done"
      BY <1>a, <2>1, <2>2
    <2> QED BY <1>d, <2>1, <2>2, Zenon
  <1>5. ASSUME NEW x \in Assoc, SendDissociate(x)
        PROVE  DissociateFollows'
    <2> SUFFICES ASSUME NEW y \in Assoc, rpc'[y] = "done"
                 PROVE  \/ assoc_id'[y] \notin socket'
                        \/ assoc_id'[y] \in dissociate'
                        \/ y \in late' \/ Shared(y)' \/ lost'
      BY Zenon DEF DissociateFollows
    <2>1. /\ assoc_id' = assoc_id /\ socket' = socket
          /\ dissociate \subseteq dissociate' /\ late \subseteq late'
      BY <1>5 DEF SendDissociate
    <2>2. CASE y = x
      <3>1. ~lost => assoc_id[x] \in dissociate'
        BY <1>5 DEF SendDissociate
      <3> QED BY <1>f, <2>1, <2>2, <3>1, Zenon
    <2>3. CASE y # x
      <3>1. rpc[y] = "done" /\ assoc_id[y] # None
        <4>1. rpc' = [rpc EXCEPT ![x] = "done"]
          BY <1>5, Zenon DEF SendDissociate
        <4>2. rpc'[y] = rpc[y]
          BY <1>a, <2>3, <4>1
        <4> QED BY <1>a, <4>2, Zenon
      <3> QED BY <1>c, <1>f, <2>1, <3>1, Zenon DEF DissociateFollows
    <2> QED BY <2>2, <2>3
  <1>6. ASSUME NEW x \in Assoc, PacketArrives(x)
        PROVE  DissociateFollows'
    <2> SUFFICES ASSUME NEW y \in Assoc, rpc'[y] = "done"
                 PROVE  \/ assoc_id'[y] \notin socket'
                        \/ assoc_id'[y] \in dissociate'
                        \/ y \in late' \/ Shared(y)' \/ lost'
      BY Zenon DEF DissociateFollows
    <2>1. /\ assoc_id' = assoc_id
          /\ socket' \subseteq socket \cup {assoc_id[x]}
          /\ UNCHANGED <<dissociate, late, rpc>> /\ packet_to[x] > 0
      BY <1>6, ZenonT(40) DEF PacketArrives
    <2>2. rpc[y] = "done" /\ assoc_id[y] # None
      BY <1>a, <2>1, Zenon
    <2>3. CASE assoc_id[y] # assoc_id[x]
      <3>1. assoc_id[y] \in socket' => assoc_id[y] \in socket
        BY <2>1, <2>3, Zenon
      <3> QED BY <1>c, <1>f, <2>1, <2>2, <3>1, Zenon DEF DissociateFollows
    <2>4. CASE assoc_id[y] = assoc_id[x] /\ y # x
      <3>1. Shared(y)
        BY <2>4, Zenon DEF Shared
      <3> QED BY <1>c, <2>2, <3>1, Zenon
    <2>5. CASE y = x
      <3>1. packet_to[x] = 0 \/ x \in late
        BY <2>2, <2>5, Zenon DEF Quiet
      <3>2. packet_to[x] # 0
        <4>1. \A n : n > 0 => n # 0
          OBVIOUS
        <4> QED BY <2>1, <4>1, Zenon
      <3> QED BY <2>1, <2>5, <3>1, <3>2, Zenon
    <2> QED BY <2>3, <2>4, <2>5, ZenonT(40)
  <1>7. ASSUME NEW i \in Id, DissociateArrives(i)
        PROVE  DissociateFollows'
    <2> SUFFICES ASSUME NEW y \in Assoc, rpc'[y] = "done"
                 PROVE  \/ assoc_id'[y] \notin socket'
                        \/ assoc_id'[y] \in dissociate'
                        \/ y \in late' \/ Shared(y)' \/ lost'
      BY Zenon DEF DissociateFollows
    <2>1. /\ assoc_id' = assoc_id /\ dissociate' = dissociate \ {i}
          /\ UNCHANGED <<late, rpc>>
          /\ lost \/ socket' = socket \ {i}
      BY <1>7 DEF DissociateArrives
    <2>2. rpc[y] = "done" /\ assoc_id[y] # None
      BY <1>a, <2>1, Zenon
    <2>3. CASE lost
      BY <1>f, <2>3, Zenon
    <2>4. CASE ~lost
      BY <1>c, <2>1, <2>2, <2>4, Zenon DEF DissociateFollows
    <2> QED BY <2>3, <2>4, Zenon
  <1>8. CASE ServerReleases
    BY <1>8, Zenon DEF ServerReleases, DissociateFollows
  <1> QED
    BY <1>e, <1>1, <1>2, <1>3, <1>4, <1>5, <1>6, <1>7, <1>8, WritersStep,
       ZenonT(40)
    DEF Writers, Handled

\* The map holds only associations that are still being processed.
THEOREM ServedSafe == Spec => []OnlyServed
  <1>1. Init => OnlyServed
    BY DEF Init, OnlyServed
  <1>2. IInv /\ OnlyServed /\ [Next]_vars => OnlyServed'
    BY ServedStep
  <1> QED BY <1>1, <1>2, Invariant, PTL DEF Spec

\* The server's sockets of associations that are over are accounted for: what
\* is left to chance is the packet that the Dissociate overtakes and a
\* connection that is lost.
THEOREM FollowsSafe == Spec => []DissociateFollows
  <1>1. Init => Quiet /\ DissociateFollows
    BY DEF Init, Quiet, DissociateFollows
  <1>2. IInv /\ Quiet /\ DissociateFollows /\ [Next]_vars
          => (Quiet /\ DissociateFollows)'
    BY QuietStep, FollowsStep
  <1> QED BY <1>1, <1>2, Invariant, PTL DEF Spec

\* An association that is over stays over: no late step of another one with
\* the same ID brings it back into the map.
OverForGood == [][\A x \in Assoc : Over(x) => Over(x)']_vars

\* Only its own process_request enters an association into the map.
LEMMA OverStep ==
  ASSUME IInv, [Next]_vars, NEW y \in Assoc, Over(y)
  PROVE  Over(y)'
  <1>a. /\ spc \in [Assoc -> {"bind", "request", "reply", "relay", "connect",
                              "done"}]
        /\ rpc \in [Assoc -> {"none", "queued", "recv", "dissociate", "done",
                              "timeout"}]
        /\ sessions \in [Id -> Assoc \cup {None}]
    BY DEF IInv, TypeOK
  <1>e. ASSUME spc' = spc, rpc' = rpc, sessions' = sessions
        PROVE  Over(y)'
    BY <1>e, Zenon DEF Over
  <1> USE DEF socksVars, relayVars, wireVars
  <1>1. ASSUME NEW x \in Assoc, Bind(x)
        PROVE  Over(y)'
    BY <1>a, <1>1, AssociationAssumption, SMTT(30)
    DEF Over, Bind, Return
  <1>2. ASSUME NEW x \in Assoc, NEW i \in Id, SendRequest(x, i)
        PROVE  Over(y)'
    BY <1>a, <1>2, AssociationAssumption, SMTT(30)
    DEF Over, SendRequest
  <1>3. ASSUME NEW x \in Assoc, ReplySucceeded(x)
        PROVE  Over(y)'
    BY <1>a, <1>3, AssociationAssumption, SMTT(30)
    DEF Over, ReplySucceeded, Return
  <1>4. ASSUME NEW x \in Assoc, ToApplication(x)
        PROVE  Over(y)'
    BY <1>a, <1>4, AssociationAssumption, SMTT(30)
    DEF Over, ToApplication, Return
  <1>5. ASSUME NEW x \in Assoc, ChannelClosed(x)
        PROVE  Over(y)'
    BY <1>a, <1>5, AssociationAssumption, SMTT(30)
    DEF Over, ChannelClosed, Return
  <1>6. ASSUME NEW x \in Assoc, Disconnect(x)
        PROVE  Over(y)'
    BY <1>a, <1>6, AssociationAssumption, SMTT(30)
    DEF Over, Disconnect, Return
  <1>7. ASSUME NEW x \in Assoc, Insert(x)
        PROVE  Over(y)'
    BY <1>a, <1>7, AssociationAssumption, SMTT(30)
    DEF Over, Insert
  <1>8. ASSUME NEW x \in Assoc, TimeoutRequest(x)
        PROVE  Over(y)'
    BY <1>a, <1>8, AssociationAssumption, SMTT(30)
    DEF Over, TimeoutRequest
  <1>9. ASSUME NEW x \in Assoc, Remove(x)
        PROVE  Over(y)'
    BY <1>a, <1>9, AssociationAssumption, SMTT(30)
    DEF Over, Remove
  <1>10. ASSUME NEW x \in Assoc, SendDissociate(x)
        PROVE  Over(y)'
    BY <1>a, <1>10, AssociationAssumption, SMTT(30)
    DEF Over, SendDissociate
  <1>11. ASSUME NEW x \in Assoc, FromApplication(x)
        PROVE  Over(y)'
    BY <1>a, <1>11, AssociationAssumption, SMTT(30)
    DEF Over, FromApplication
  <1>12. ASSUME NEW x \in Assoc, Connect(x)
        PROVE  Over(y)'
    BY <1>a, <1>12, AssociationAssumption, SMTT(30)
    DEF Over, Connect, Return
  <1> QED
    BY <1>e, <1>1, <1>2, <1>3, <1>4, <1>5, <1>6, <1>7, <1>8, <1>9, <1>10,
       <1>11, <1>12, WritersStep, ZenonT(40)
    DEF Writers, Handled

\* What EndedIsForgotten leads to is final.
THEOREM OverSafe == Spec => OverForGood
  <1>1. IInv /\ [Next]_vars => [\A x \in Assoc : Over(x) => Over(x)']_vars
    BY OverStep
  <1> QED BY <1>1, Invariant, PTL DEF Spec, OverForGood
=============================================================================
