-------------------------------- MODULE Codec --------------------------------
(***************************************************************************)
(* The wire format of TUIC commands (protocol/src/lib.rs): write_to_buf    *)
(* and serialized_len of Command and Address as operators, and read_from   *)
(* as the sequence of reads it awaits on a stream, which delivers its      *)
(* bytes in pieces of any size and may end before the command does.        *)
(*                                                                         *)
(* A byte is a number below 256.  A u16 is a number; a u32 is the pair of  *)
(* its 16-bit halves, high first.                                          *)
(***************************************************************************)
EXTENDS Integers, Sequences

CONSTANTS Sent,       \* the commands that are written: a set of commands
          Utf8(_),    \* the strings of bytes that String::from_utf8 takes
          Payload,    \* bytes that follow the command on the stream
          PacketSize, \* values of MAX_UDP_RELAY_PACKET_SIZE, any usize
          Usize,      \* 2^w, for the width w of usize
          Damage      \* <<i, b>>: byte i of the stream is replaced by b, if
                      \* there is one; <<0, b>> replaces none

TUIC_PROTOCOL_VERSION == 4

Byte == {n \in Nat : n < 256}

U16 == {n \in Nat : n < 65536}

U32 == U16 \X U16

MaxDomain == 255

\* Scope stands for what of a SocketAddrV6 is not in its IP and port.
IsAddress(a) ==
    \/ /\ a \in [type : {"domain"}, host : Seq(Byte), port : U16]
       /\ Len(a.host) <= MaxDomain /\ Utf8(a.host)
    \/ a \in [type : {"v4"}, ip : [1..4 -> Byte], port : U16]
    \/ a \in [type : {"v6"}, ip : [1..8 -> U16], port : U16, scope : U16]

IsCommand(c) ==
    \/ c \in [type : {"response"}, ok : BOOLEAN]
    \/ c \in [type : {"authenticate"}, digest : [1..32 -> Byte]]
    \/ /\ c.type = "connect" /\ IsAddress(c.addr)
       /\ c \in [type : {"connect"}, addr : {c.addr}]
    \/ /\ c.type = "packet" /\ IsAddress(c.addr)
       /\ c \in [type : {"packet"}, assoc_id : U32, len : U16, addr : {c.addr}]
    \/ c \in [type : {"dissociate"}, assoc_id : U32]
    \/ c \in [type : {"heartbeat"}]

-----------------------------------------------------------------------------
(***************************************************************************)
(* Writing.                                                                *)
(***************************************************************************)

PutU16_LittleEndian(n) == <<n % 256, n \div 256>>

PutU16(n) == <<n \div 256, n % 256>>

PutU32(n) == PutU16(n[1]) \o PutU16(n[2])

Segments(ip) ==
    [i \in 1..16 |-> IF i % 2 = 1 THEN ip[(i + 1) \div 2] \div 256
                                  ELSE ip[i \div 2] % 256]

\* Address::write_to_buf
WriteAddress(a) ==
    CASE a.type = "domain" ->
            <<0, Len(a.host) % 256>> \o a.host \o PutU16(a.port)
      [] a.type = "v4" -> <<1>> \o a.ip \o PutU16(a.port)
      [] a.type = "v6" -> <<2>> \o Segments(a.ip) \o PutU16(a.port)

\* Command::write_to_buf
WriteToBuf(c) ==
    <<TUIC_PROTOCOL_VERSION>> \o
      CASE c.type = "response"     -> <<255, IF c.ok THEN 0 ELSE 255>>
        [] c.type = "authenticate" -> <<0>> \o c.digest
        [] c.type = "connect"      -> <<1>> \o WriteAddress(c.addr)
        [] c.type = "packet"       -> <<2>> \o PutU32(c.assoc_id)
                                        \o PutU16(c.len)
                                        \o WriteAddress(c.addr)
        [] c.type = "dissociate"   -> <<3>> \o PutU32(c.assoc_id)
        [] c.type = "heartbeat"    -> <<4>>

\* Address::serialized_len
AddressLen_NoPort(a) ==
    1 + CASE a.type = "domain" -> 1 + Len(a.host)
          [] a.type = "v4"     -> 6
          [] a.type = "v6"     -> 18

AddressLen(a) ==
    1 + CASE a.type = "domain" -> 1 + Len(a.host) + 2
          [] a.type = "v4"     -> 6
          [] a.type = "v6"     -> 18

\* Command::serialized_len
SerializedLen(c) ==
    2 + CASE c.type = "response"     -> 1
          [] c.type = "authenticate" -> 32
          [] c.type = "connect"      -> AddressLen(c.addr)
          [] c.type = "packet"       -> 6 + AddressLen(c.addr)
          [] c.type = "dissociate"   -> 4
          [] c.type = "heartbeat"    -> 0

MaxSerializedLen == 2 + 6 + (1 + 1 + 255 + 2)

\* The header of a SOCKS5 UDP packet: three bytes, and the address in as many
\* bytes as in TUIC.
SocksHeaderLen(a) == 3 + AddressLen(a)

MaxSocksHeaderLen == 3 + (1 + 1 + 255 + 2)

\* buf_size: how much of a SOCKS5 packet the association receives.  The
\* subtraction wraps below zero (a debug build panics here).
BufSize_Whole(max) == max

BufSize(max) == (max - (MaxSerializedLen - MaxSocksHeaderLen)) % Usize

\* AssociatedUdpSocket receives into a Vec of that size, which can have
\* isize::MAX bytes; asking for more is a panic, which aborts the client.
CanAllocate(n) == n < Usize \div 2

\* What n bytes from the application come to as a Packet with its payload.
RelayedLen(c, n) == SerializedLen(c) + (n - SocksHeaderLen(c.addr))

-----------------------------------------------------------------------------
(***************************************************************************)
(* Reading.                                                                *)
(***************************************************************************)

ASSUME CodecAssumption ==
    /\ \A c \in Sent : IsCommand(c)
    /\ Payload \in Seq(Byte)
    /\ Damage \subseteq Nat \X Byte

ASSUME SizeAssumption ==
    /\ Usize \in Nat /\ Usize >= 65536
    /\ \A max \in PacketSize : max \in Nat /\ max < Usize

VARIABLES
    sent,       \* the command that was written
    wire,       \* the bytes on the stream, in the end
    arrived,    \* how many of them have arrived
    eof,        \* no more will
    at,         \* the read that read_from awaits, or its outcome
    pos,        \* how many bytes it has consumed
    got,        \* the command as read so far
    want        \* the length of the domain name that comes

vars == <<sent, wire, arrived, eof, at, pos, got, want>>

NoAddress == [type |-> "none"]

Stage == {"version", "type", "response", "digest", "packet", "dissociate",
          "addr_type", "domain_len", "domain", "v4", "v6", "ok", "error"}

TypeOK ==
    /\ sent \in Sent
    /\ wire \in Seq(Byte)
    /\ arrived \in 0..Len(wire)
    /\ eof \in BOOLEAN
    /\ at \in Stage
    /\ pos \in 0..arrived
    /\ want \in Byte
    /\ at = "ok" => IsCommand(got)

Init ==
    /\ sent \in Sent
    /\ \E d \in Damage :
          wire = [i \in DOMAIN (WriteToBuf(sent) \o Payload) |->
                     IF i = d[1] THEN d[2]
                     ELSE (WriteToBuf(sent) \o Payload)[i]]
    /\ arrived = 0
    /\ eof = FALSE
    /\ at = "version"
    /\ pos = 0
    /\ got = [type |-> "none"]
    /\ want = 0

\* The stream delivers a byte, the next of a piece or the first of another
\* one, ...
Deliver ==
    /\ ~eof /\ arrived < Len(wire)
    /\ arrived' = arrived + 1
    /\ UNCHANGED <<sent, wire, eof, at, pos, got, want>>

\* ... or ends: finished, reset, or the end of a datagram.
Finish ==
    /\ ~eof
    /\ eof' = TRUE
    /\ UNCHANGED <<sent, wire, arrived, at, pos, got, want>>

\* The length of each read_u8, read_u32 and read_exact.
Need ==
    CASE at = "digest" -> 32
      [] at = "packet" -> 6
      [] at = "dissociate" -> 4
      [] at = "domain" -> want + 2
      [] at = "v4" -> 6
      [] at = "v6" -> 18
      [] OTHER -> 1

Byte1 == wire[pos + 1]

ReadU16_LittleEndian(i) == wire[pos + i] + 256 * wire[pos + i + 1]

ReadU16(i) == 256 * wire[pos + i] + wire[pos + i + 1]

\* The read that read_from awaits in state s returns its bytes, ...
Take(s) ==
    /\ at = s
    /\ arrived - pos >= Need
    /\ pos' = pos + Need
    /\ UNCHANGED <<sent, wire, arrived, eof>>

\* ... after which it awaits the read `to`, or is done; g is what it has.
Then(to, g) == at' = to /\ got' = g

\* Command::read_from
ReadVersion ==
    /\ Take("version")
    /\ Then(IF Byte1 = TUIC_PROTOCOL_VERSION THEN "type" ELSE "error", got)
    /\ UNCHANGED want

ReadType ==
    /\ Take("type")
    /\ \/ Byte1 = 255 /\ Then("response", [type |-> "response"])
       \/ Byte1 = 0 /\ Then("digest", [type |-> "authenticate"])
       \/ /\ Byte1 = 1
          /\ Then("addr_type", [type |-> "connect", addr |-> NoAddress])
       \/ Byte1 = 2 /\ Then("packet", [type |-> "packet"])
       \/ Byte1 = 3 /\ Then("dissociate", [type |-> "dissociate"])
       \/ Byte1 = 4 /\ Then("ok", [type |-> "heartbeat"])
       \/ Byte1 \notin {0, 1, 2, 3, 4, 255} /\ Then("error", got)
    /\ UNCHANGED want

ReadResponse ==
    /\ Take("response")
    /\ \/ /\ Byte1 \in {0, 255}
          /\ Then("ok", [type |-> "response", ok |-> Byte1 = 0])
       \/ Byte1 \notin {0, 255} /\ Then("error", got)
    /\ UNCHANGED want

ReadDigest ==
    /\ Take("digest")
    /\ Then("ok", [type   |-> "authenticate",
                   digest |-> SubSeq(wire, pos + 1, pos + 32)])
    /\ UNCHANGED want

ReadPacket ==
    /\ Take("packet")
    /\ Then("addr_type",
            [type |-> "packet", assoc_id |-> <<ReadU16(1), ReadU16(3)>>,
             len |-> ReadU16(5), addr |-> NoAddress])
    /\ UNCHANGED want

ReadDissociate ==
    /\ Take("dissociate")
    /\ Then("ok", [type     |-> "dissociate",
                   assoc_id |-> <<ReadU16(1), ReadU16(3)>>])
    /\ UNCHANGED want

\* Address::read_from
ReadAddrType ==
    /\ Take("addr_type")
    /\ Then(CASE Byte1 = 0 -> "domain_len"
              [] Byte1 = 1 -> "v4"
              [] Byte1 = 2 -> "v6"
              [] OTHER -> "error", got)
    /\ UNCHANGED want

ReadDomainLen ==
    Take("domain_len") /\ Then("domain", got) /\ want' = Byte1

ReadDomain ==
    /\ Take("domain")
    /\ LET host == SubSeq(wire, pos + 1, pos + want) IN
         \/ /\ Utf8(host)
            /\ Then("ok", [got EXCEPT !.addr =
                  [type |-> "domain", host |-> host,
                   port |-> ReadU16(want + 1)]])
         \/ ~Utf8(host) /\ Then("error", got)
    /\ UNCHANGED want

ReadV4 ==
    /\ Take("v4")
    /\ Then("ok", [got EXCEPT !.addr =
          [type |-> "v4", ip |-> SubSeq(wire, pos + 1, pos + 4),
           port |-> ReadU16(5)]])
    /\ UNCHANGED want

ReadV6 ==
    /\ Take("v6")
    /\ Then("ok", [got EXCEPT !.addr =
          [type |-> "v6", ip |-> [i \in 1..8 |-> ReadU16(2 * i - 1)],
           port |-> ReadU16(17), scope |-> 0]])
    /\ UNCHANGED want

\* A read that the stream ends on is an UnexpectedEof error.
UnexpectedEof ==
    /\ at \notin {"ok", "error"}
    /\ eof /\ arrived - pos < Need
    /\ at' = "error"
    /\ UNCHANGED <<sent, wire, arrived, eof, pos, got, want>>

ReadFrom ==
    \/ ReadVersion \/ ReadType \/ ReadResponse \/ ReadDigest \/ ReadPacket
    \/ ReadDissociate \/ ReadAddrType \/ ReadDomainLen \/ ReadDomain
    \/ ReadV4 \/ ReadV6

Next ==
    \/ Deliver
    \/ Finish
    \/ ReadFrom
    \/ UnexpectedEof

Spec == Init /\ [][Next]_vars

\* The payload of the packet that was read, at its two ends: from a stream,
\* read_exact of len bytes; from a datagram, all that follows the header at
\* the server and len bytes of it at the client.
FromStream == SubSeq(wire, pos + 1, pos + got.len)

FromDatagram == SubSeq(wire, SerializedLen(got) + 1, Len(wire))

ClientFromDatagram ==
    SubSeq(wire, SerializedLen(got) + 1, SerializedLen(got) + got.len)

-----------------------------------------------------------------------------
(***************************************************************************)
(* Properties.                                                             *)
(***************************************************************************)

\* What of a command is on the wire: the address without its scope.
Unscoped(c) ==
    IF c.type \in {"connect", "packet"} /\ c.addr.type = "v6"
      THEN [c EXCEPT !.addr.scope = 0] ELSE c

\* read_from gives back the command that write_to_buf wrote, in whatever
\* pieces it arrives, and fails only if the stream ends inside it.
RoundTrip ==
    wire = WriteToBuf(sent) \o Payload =>
        /\ at = "ok" => got = Unscoped(sent)
        /\ at = "error" => eof /\ arrived < SerializedLen(sent)

\* Whatever bytes come, damaged ones included, those that read_from accepts
\* and consumes are the encoding of what it returns: no second encoding, and
\* not a byte of the payload behind.
DecodesEncodings ==
    at = "ok" => SubSeq(wire, 1, pos) = WriteToBuf(got)

\* serialized_len of the command is what read_from has consumed, on which
\* process_datagram and process_incoming_datagram rely to find the payload,
\* and never more than max_serialized_len, on which buffer sizes rely.
HeaderLength ==
    at = "ok" => /\ pos = SerializedLen(got)
                 /\ pos <= MaxSerializedLen

\* However a packet is relayed, the payload that is taken out is the one that
\* was put in: by the stream's position, by serialized_len, and by len.
PayloadFound ==
    (/\ at = "ok" /\ sent.type = "packet" /\ sent.len = Len(Payload)
     /\ wire = WriteToBuf(sent) \o Payload)
        => /\ FromStream = Payload
           /\ FromDatagram = Payload
           /\ ClientFromDatagram = Payload

\* The most that socks5_to_relay receives of a packet fits, with the header
\* that handle_packet_to puts before it, in the size that the buffer was
\* computed from, whatever the address.  For a size below the five bytes that
\* are subtracted, which Config::parse accepts, this is so because there is no
\* such buffer: the client does not survive.
FitsDatagram ==
    sent.type = "packet" =>
        \A max \in PacketSize :
            (/\ CanAllocate(BufSize(max))
             /\ SocksHeaderLen(sent.addr) <= BufSize(max))
                => RelayedLen(sent, BufSize(max)) <= max
=============================================================================
