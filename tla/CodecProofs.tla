----------------------------- MODULE CodecProofs -----------------------------
(***************************************************************************)
(* Proofs about Codec: what serialized_len says of a command is the length *)
(* of its encoding, and the length that read_from consumes; no bytes are   *)
(* the encodings of two commands; and read_from gives back the command     *)
(* that write_to_buf wrote, and the payload behind it.                     *)
(***************************************************************************)
EXTENDS Codec, TLAPS

\* s is a sequence of n bytes.
OfLen(s, n) == s \in Seq(Byte) /\ Len(s) = n

\* Put one after the other, m bytes and n bytes are m + n bytes.
LEMMA ConcatLen ==
  ASSUME NEW s, NEW t, NEW m \in Nat, NEW n \in Nat, OfLen(s, m), OfLen(t, n)
  PROVE  OfLen(s \o t, m + n)
  <1>1. s \in Seq(Byte) /\ t \in Seq(Byte) /\ Len(s) = m /\ Len(t) = n
    BY DEF OfLen
  <1>2. ASSUME NEW x \in Seq(Byte), NEW y \in Seq(Byte)
        PROVE  x \o y \in Seq(Byte) /\ Len(x \o y) = Len(x) + Len(y)
    OBVIOUS
  <1> QED BY <1>1, <1>2, Zenon DEF OfLen

\* A function from 1..n to bytes is a sequence of n bytes.
LEMMA FunctionLen ==
  ASSUME NEW n \in Nat, NEW f \in [1..n -> Byte]
  PROVE  OfLen(f, n)
  BY SMT DEF OfLen

\* A sequence of n bytes is a function from 1..n to bytes.
LEMMA LenFunction ==
  ASSUME NEW s, NEW n, OfLen(s, n)
  PROVE  s \in [1..n -> Byte]
  <1>1. s \in Seq(Byte) /\ Len(s) = n
    BY DEF OfLen
  <1>2. s \in [1..Len(s) -> Byte]
    BY <1>1
  <1> QED BY <1>1, <1>2, Zenon

\* Tuples of one and of two bytes have these lengths.
LEMMA TupleLen ==
  \A x, y \in Byte : OfLen(<<x>>, 1) /\ OfLen(<<x, y>>, 2)
  BY SMT DEF OfLen

\* The high and the low half of a u16 are bytes.
LEMMA Halves ==
  \A n \in U16 : n \div 256 \in Byte /\ n % 256 \in Byte
  BY SMT DEF U16, Byte

\* put_u16 writes two bytes.
LEMMA PutU16Len ==
  ASSUME NEW n \in U16
  PROVE  OfLen(PutU16(n), 2)
  <1>1. n \div 256 \in Byte /\ n % 256 \in Byte
    BY Halves, Zenon
  <1>2. OfLen(<<n \div 256, n % 256>>, 2)
    BY <1>1, TupleLen, ZenonT(40)
  <1> QED BY <1>2, Zenon DEF PutU16

\* The eight segments of an IPv6 address are sixteen bytes.
LEMMA SegmentsLen ==
  ASSUME NEW ip \in [1..8 -> U16]
  PROVE  OfLen(Segments(ip), 16)
  <1>1. Segments(ip) \in [1..16 -> Byte]
    <2>1. ASSUME NEW i \in 1..16
          PROVE  /\ i % 2 = 1 => (i + 1) \div 2 \in 1..8
                 /\ i % 2 # 1 => i \div 2 \in 1..8
      BY SMT
    <2> QED BY <2>1, Halves DEF Segments
  <1> QED BY <1>1, FunctionLen, ZenonT(40)

\* Every sequence of bytes has a length.
LEMMA BytesLen ==
  ASSUME NEW s \in Seq(Byte)
  PROVE  Len(s) \in Nat /\ OfLen(s, Len(s))
  BY DEF OfLen

\* A tag byte, n bytes and a port.
LEMMA TaggedPortLen ==
  ASSUME NEW x \in Byte, NEW s, NEW n \in Nat, OfLen(s, n), NEW p \in U16
  PROVE  OfLen(<<x>> \o s \o PutU16(p), (1 + n) + 2)
  <1>1. 1 \in Nat /\ 2 \in Nat /\ 1 + n \in Nat
    OBVIOUS
  <1>2. OfLen(<<x>> \o s, 1 + n)
    BY <1>1, TupleLen, ConcatLen, Zenon
  <1> QED BY <1>1, <1>2, PutU16Len, ConcatLen, Zenon

\* The tags, the bounds and every value cut down by "as u8" are bytes.
LEMMA Tags ==
  0 \in Byte /\ 1 \in Byte /\ 2 \in Byte /\ 3 \in Byte /\ 4 \in Byte
    /\ 255 \in Byte /\ \A n \in Nat : n % 256 \in Byte
  BY SMT DEF Byte

\* The arithmetic of the lengths of addresses.
LEMMA Sums ==
  /\ 2 \in Nat /\ 4 \in Nat /\ 16 \in Nat
  /\ (1 + 4) + 2 = 1 + 6 /\ (1 + 16) + 2 = 1 + 18
  /\ 1 + 6 \in 4..259 /\ 1 + 18 \in 4..259
  /\ \A n \in Nat : /\ 2 + n \in Nat
                    /\ (2 + n) + 2 = 1 + (1 + n + 2)
                    /\ n <= 255 => 1 + (1 + n + 2) \in 4..259
  BY SMT

\* Address::serialized_len is the length of what Address::write_to_buf writes.
LEMMA AddressLength ==
  ASSUME NEW a, IsAddress(a)
  PROVE  AddressLen(a) \in 4..259 /\ OfLen(WriteAddress(a), AddressLen(a))
  <1>1. CASE /\ a \in [type : {"domain"}, host : Seq(Byte), port : U16]
             /\ Len(a.host) <= MaxDomain /\ Utf8(a.host)
    <2>1. a.type = "domain" /\ a.host \in Seq(Byte) /\ a.port \in U16
      BY <1>1
    <2>2. Len(a.host) \in Nat /\ Len(a.host) <= 255
      BY <1>1, <2>1, BytesLen, Zenon DEF MaxDomain
    <2>3. OfLen(<<0, Len(a.host) % 256>> \o a.host, 2 + Len(a.host))
      <3>1. OfLen(<<0, Len(a.host) % 256>>, 2)
        BY <2>2, Tags, TupleLen, ZenonT(40)
      <3> QED BY <2>1, <2>2, <3>1, BytesLen, ConcatLen, Sums, ZenonT(40)
    <2>4. OfLen(<<0, Len(a.host) % 256>> \o a.host \o PutU16(a.port),
                (2 + Len(a.host)) + 2)
      <3> DEFINE h == <<0, Len(a.host) % 256>> \o a.host
      <3>1. OfLen(PutU16(a.port), 2)
        BY <2>1, PutU16Len, Zenon
      <3>2. 2 + Len(a.host) \in Nat /\ 2 \in Nat
        BY <2>2
      <3>3. OfLen(h, 2 + Len(a.host))
        BY <2>3, Zenon
      <3> HIDE DEF h
      <3>4. OfLen(h \o PutU16(a.port), (2 + Len(a.host)) + 2)
        BY <3>1, <3>2, <3>3, ConcatLen, Zenon
      <3> QED BY <3>4 DEF h
    <2>5. WriteAddress(a)
            = <<0, Len(a.host) % 256>> \o a.host \o PutU16(a.port)
      BY <2>1, Zenon DEF WriteAddress
    <2>6. AddressLen(a) = 1 + (1 + Len(a.host) + 2)
      BY <2>1, Zenon DEF AddressLen
    <2> QED BY <2>2, <2>4, <2>5, <2>6, Sums, ZenonT(40)
  <1>2. CASE a \in [type : {"v4"}, ip : [1..4 -> Byte], port : U16]
    <2>1. a.type = "v4" /\ a.ip \in [1..4 -> Byte] /\ a.port \in U16
      BY <1>2
    <2>2. OfLen(a.ip, 4)
      BY <2>1, FunctionLen, Sums, Zenon
    <2>3. OfLen(<<1>> \o a.ip \o PutU16(a.port), (1 + 4) + 2)
      BY <2>1, <2>2, TaggedPortLen, Tags, Sums
    <2>4. WriteAddress(a) = <<1>> \o a.ip \o PutU16(a.port)
      BY <2>1, Zenon DEF WriteAddress
    <2>5. AddressLen(a) = 1 + 6
      BY <2>1, Zenon DEF AddressLen
    <2> QED BY <2>3, <2>4, <2>5, Sums, ZenonT(40)
  <1>3. CASE a \in [type : {"v6"}, ip : [1..8 -> U16], port : U16,
                    scope : U16]
    <2>1. a.type = "v6" /\ a.ip \in [1..8 -> U16] /\ a.port \in U16
      BY <1>3
    <2>2. OfLen(Segments(a.ip), 16)
      BY <2>1, SegmentsLen, Zenon
    <2>3. OfLen(<<2>> \o Segments(a.ip) \o PutU16(a.port), (1 + 16) + 2)
      BY <2>1, <2>2, TaggedPortLen, Tags, Sums
    <2>4. WriteAddress(a) = <<2>> \o Segments(a.ip) \o PutU16(a.port)
      BY <2>1, Zenon DEF WriteAddress
    <2>5. AddressLen(a) = 1 + 18
      BY <2>1, Zenon DEF AddressLen
    <2> QED BY <2>3, <2>4, <2>5, Sums, ZenonT(40)
  <1> QED BY <1>1, <1>2, <1>3, Zenon DEF IsAddress

\* The arithmetic of the lengths of commands.
LEMMA CommandSums ==
  /\ 0 \in Nat /\ 1 \in Nat /\ 2 \in Nat /\ 4 \in Nat /\ 6 \in Nat
  /\ 32 \in Nat
  /\ 1 + 1 = 2 + 0 /\ 1 + 2 = 2 + 1 /\ 1 + (1 + 32) = 2 + 32
  /\ 1 + (1 + 4) = 2 + 4
  /\ 1 + 4 \in Nat /\ 1 + 32 \in Nat /\ (1 + 4) + 2 \in Nat /\ 2 + 2 = 4
  /\ 2 + 0 <= MaxSerializedLen /\ 2 + 1 <= MaxSerializedLen
  /\ 2 + 32 <= MaxSerializedLen /\ 2 + 4 <= MaxSerializedLen
  /\ \A n \in 4..259 : /\ n \in Nat /\ 1 + n \in Nat
                       /\ ((1 + 4) + 2) + n \in Nat
                       /\ 1 + (1 + n) = 2 + n
                       /\ 1 + (((1 + 4) + 2) + n) = 2 + (6 + n)
                       /\ 2 + n <= MaxSerializedLen
                       /\ 2 + (6 + n) <= MaxSerializedLen
  BY SMT DEF MaxSerializedLen

\* put_u32 writes four bytes.
LEMMA PutU32Len ==
  ASSUME NEW n \in U32
  PROVE  OfLen(PutU32(n), 4)
  <1>1. n[1] \in U16 /\ n[2] \in U16
    BY DEF U32
  <1>2. OfLen(PutU32(n), 2 + 2)
    BY <1>1, PutU16Len, ConcatLen, CommandSums, Zenon DEF PutU32
  <1> QED BY <1>2, CommandSums, Zenon

\* Command::serialized_len, by which write_to sizes its buffer and the
\* datagram code finds the payload, is the length of what write_to_buf writes,
\* whatever the command, and max_serialized_len bounds it.
THEOREM SerializedLength ==
  ASSUME NEW c, IsCommand(c)
  PROVE  /\ OfLen(WriteToBuf(c), SerializedLen(c))
         /\ SerializedLen(c) <= MaxSerializedLen
  <1> DEFINE V == <<TUIC_PROTOCOL_VERSION>>
  <1>v. OfLen(V, 1)
    BY Tags, TupleLen, ZenonT(40) DEF TUIC_PROTOCOL_VERSION
  <1> HIDE DEF V
  <1>1. CASE c \in [type : {"response"}, ok : BOOLEAN]
    <2>1. c.type = "response"
      BY <1>1
    <2>2. OfLen(<<255, IF c.ok THEN 0 ELSE 255>>, 2)
      <3> DEFINE b == IF c.ok THEN 0 ELSE 255
      <3>1. b \in Byte
        BY Tags
      <3> HIDE DEF b
      <3>2. OfLen(<<255, b>>, 2)
        BY <3>1, Tags, TupleLen, ZenonT(40)
      <3> QED BY <3>2 DEF b
    <2>3. OfLen(V \o <<255, IF c.ok THEN 0 ELSE 255>>, 1 + 2)
      BY <1>v, <2>2, ConcatLen, CommandSums
    <2>4. WriteToBuf(c) = V \o <<255, IF c.ok THEN 0 ELSE 255>>
      BY <2>1, Zenon DEF WriteToBuf, V
    <2>5. SerializedLen(c) = 2 + 1
      BY <2>1, Zenon DEF SerializedLen
    <2> QED BY <2>3, <2>4, <2>5, CommandSums, Zenon
  <1>2. CASE c \in [type : {"authenticate"}, digest : [1..32 -> Byte]]
    <2>1. c.type = "authenticate" /\ c.digest \in [1..32 -> Byte]
      BY <1>2
    <2>2. OfLen(<<0>> \o c.digest, 1 + 32)
      <3>1. OfLen(c.digest, 32)
        BY <2>1, FunctionLen, CommandSums, Zenon
      <3> QED BY <3>1, Tags, TupleLen, ConcatLen, CommandSums, ZenonT(40)
    <2>3. OfLen(V \o (<<0>> \o c.digest), 1 + (1 + 32))
      BY <1>v, <2>2, ConcatLen, CommandSums, Zenon
    <2>4. WriteToBuf(c) = V \o (<<0>> \o c.digest)
      BY <2>1, Zenon DEF WriteToBuf, V
    <2>5. SerializedLen(c) = 2 + 32
      BY <2>1, Zenon DEF SerializedLen
    <2> QED BY <2>3, <2>4, <2>5, CommandSums, Zenon
  <1>3. CASE c.type = "connect" /\ IsAddress(c.addr)
    <2> DEFINE a == c.addr
    <2>1. AddressLen(a) \in 4..259 /\ OfLen(WriteAddress(a), AddressLen(a))
      BY <1>3, AddressLength
    <2>2. OfLen(<<1>> \o WriteAddress(a), 1 + AddressLen(a))
      BY <2>1, Tags, TupleLen, ConcatLen, CommandSums, ZenonT(40)
    <2>3. OfLen(V \o (<<1>> \o WriteAddress(a)), 1 + (1 + AddressLen(a)))
      BY <1>v, <2>1, <2>2, ConcatLen, CommandSums, Zenon
    <2>4. WriteToBuf(c) = V \o (<<1>> \o WriteAddress(a))
      BY <1>3, Zenon DEF WriteToBuf, V
    <2>5. SerializedLen(c) = 2 + AddressLen(a)
      BY <1>3, Zenon DEF SerializedLen
    <2> QED BY <2>1, <2>3, <2>4, <2>5, CommandSums, Zenon
  <1>4. CASE /\ c.type = "packet" /\ IsAddress(c.addr)
             /\ c.assoc_id \in U32 /\ c.len \in U16
    <2> DEFINE a == c.addr
               h == <<2>> \o PutU32(c.assoc_id) \o PutU16(c.len)
    <2>1. AddressLen(a) \in 4..259 /\ OfLen(WriteAddress(a), AddressLen(a))
      BY <1>4, AddressLength
    <2>2. OfLen(h, (1 + 4) + 2)
      BY <1>4, PutU32Len, TaggedPortLen, Tags, CommandSums, Zenon
    <2> HIDE DEF h
    <2>3. OfLen(h \o WriteAddress(a), ((1 + 4) + 2) + AddressLen(a))
      BY <2>1, <2>2, ConcatLen, CommandSums, Zenon
    <2>4. OfLen(V \o (h \o WriteAddress(a)),
                1 + (((1 + 4) + 2) + AddressLen(a)))
      BY <1>v, <2>1, <2>3, ConcatLen, CommandSums, Zenon
    <2>5. WriteToBuf(c) = V \o (h \o WriteAddress(a))
      BY <1>4, Zenon DEF WriteToBuf, V, h
    <2>6. SerializedLen(c) = 2 + (6 + AddressLen(a))
      BY <1>4, Zenon DEF SerializedLen
    <2> QED BY <2>1, <2>4, <2>5, <2>6, CommandSums, Zenon
  <1>5. CASE c \in [type : {"dissociate"}, assoc_id : U32]
    <2>1. c.type = "dissociate" /\ c.assoc_id \in U32
      BY <1>5
    <2>2. OfLen(<<3>> \o PutU32(c.assoc_id), 1 + 4)
      BY <2>1, PutU32Len, Tags, TupleLen, ConcatLen, CommandSums, ZenonT(40)
    <2>3. OfLen(V \o (<<3>> \o PutU32(c.assoc_id)), 1 + (1 + 4))
      BY <1>v, <2>2, ConcatLen, CommandSums, Zenon
    <2>4. WriteToBuf(c) = V \o (<<3>> \o PutU32(c.assoc_id))
      BY <2>1, Zenon DEF WriteToBuf, V
    <2>5. SerializedLen(c) = 2 + 4
      BY <2>1, Zenon DEF SerializedLen
    <2> QED BY <2>3, <2>4, <2>5, CommandSums, Zenon
  <1>6. CASE c \in [type : {"heartbeat"}]
    <2>1. c.type = "heartbeat"
      BY <1>6
    <2>2. OfLen(V \o <<4>>, 1 + 1)
      BY <1>v, Tags, TupleLen, ConcatLen, CommandSums, ZenonT(40)
    <2>3. WriteToBuf(c) = V \o <<4>>
      BY <2>1, Zenon DEF WriteToBuf, V
    <2>4. SerializedLen(c) = 2 + 0
      BY <2>1, Zenon DEF SerializedLen
    <2> QED BY <2>2, <2>3, <2>4, CommandSums, Zenon
  <1>7. ASSUME c \in [type : {"packet"}, assoc_id : U32, len : U16,
                      addr : {c.addr}]
        PROVE  c.assoc_id \in U32 /\ c.len \in U16
    BY <1>7
  <1> QED BY <1>1, <1>2, <1>3, <1>4, <1>5, <1>6, <1>7, Zenon DEF IsCommand

-----------------------------------------------------------------------------
(***************************************************************************)
(* The inductive invariant: how far read_from is at each of its reads.     *)
(***************************************************************************)

\* The bytes that come before the address.
Before(g) == IF g.type = "packet" THEN 8 ELSE 2

\* A command of which only the address is missing.
Partial(g) ==
    \/ g = [type |-> "connect", addr |-> NoAddress]
    \/ \E id \in U32, n \in U16 :
          g = [type |-> "packet", assoc_id |-> id, len |-> n,
               addr |-> NoAddress]

Position ==
    /\ at = "version" => pos = 0
    /\ at = "type" => pos = 1
    /\ at \in {"response", "digest", "packet", "dissociate"} => pos = 2
    /\ at \in {"addr_type", "domain_len", "domain", "v4", "v6"} => Partial(got)
    /\ at = "addr_type" => pos = Before(got)
    /\ at \in {"domain_len", "v4", "v6"} => pos = Before(got) + 1
    /\ at = "domain" => pos = Before(got) + 2
    /\ at = "ok" => pos = SerializedLen(got)

IInv == TypeOK /\ Position

\* The command that awaits its address becomes a command when it has one, as
\* long as what precedes the address and the address together.
LEMMA Complete ==
  ASSUME NEW g, Partial(g), NEW a, IsAddress(a)
  PROVE  /\ IsCommand([g EXCEPT !.addr = a])
         /\ SerializedLen([g EXCEPT !.addr = a]) = Before(g) + AddressLen(a)
  <1>0. AddressLen(a) \in Nat
    BY AddressLength, CommandSums, Zenon
  <1>1. CASE g = [type |-> "connect", addr |-> NoAddress]
    <2>1. [g EXCEPT !.addr = a] = [type |-> "connect", addr |-> a]
      BY <1>1
    <2>2. IsCommand([type |-> "connect", addr |-> a])
      BY DEF IsCommand
    <2>3. SerializedLen([type |-> "connect", addr |-> a]) = 2 + AddressLen(a)
      BY DEF SerializedLen
    <2>4. Before(g) = 2
      BY <1>1 DEF Before
    <2> QED BY <2>1, <2>2, <2>3, <2>4
  <1>2. ASSUME NEW id \in U32, NEW n \in U16,
               g = [type |-> "packet", assoc_id |-> id, len |-> n,
                    addr |-> NoAddress]
        PROVE  /\ IsCommand([g EXCEPT !.addr = a])
               /\ SerializedLen([g EXCEPT !.addr = a])
                    = Before(g) + AddressLen(a)
    <2> DEFINE c == [type |-> "packet", assoc_id |-> id, len |-> n,
                     addr |-> a]
    <2>1. [g EXCEPT !.addr = a] = c
      BY <1>2
    <2>2. IsCommand(c)
      BY DEF IsCommand
    <2>3. SerializedLen(c) = 2 + (6 + AddressLen(a))
      BY DEF SerializedLen
    <2>4. Before(g) = 8
      BY <1>2 DEF Before
    <2>5. 2 + (6 + AddressLen(a)) = 8 + AddressLen(a)
      BY <1>0
    <2> QED BY <2>1, <2>2, <2>3, <2>4, <2>5, Zenon
  <1> QED BY <1>1, <1>2 DEF Partial

\* read_from starts at the first byte of the stream.
LEMMA InitInv == Init => IInv
  <1> SUFFICES ASSUME Init PROVE IInv
    OBVIOUS
  <1>1. sent \in Sent /\ IsCommand(sent)
    BY CodecAssumption DEF Init
  <1> DEFINE w == WriteToBuf(sent) \o Payload
  <1>2. w \in Seq(Byte)
    <2>1. WriteToBuf(sent) \in Seq(Byte)
      BY <1>1, SerializedLength, Zenon DEF OfLen
    <2> QED BY <2>1, CodecAssumption
  <1> HIDE DEF w
  <1>3. PICK d \in Damage :
          wire = [i \in DOMAIN w |-> IF i = d[1] THEN d[2] ELSE w[i]]
    BY DEF Init, w
  <1>4. d[2] \in Byte
    BY CodecAssumption
  <1>5. wire \in Seq(Byte)
    <2>1. /\ Len(w) \in Nat /\ DOMAIN w = 1..Len(w)
          /\ \A i \in DOMAIN w : w[i] \in Byte
      BY <1>2
    <2>2. wire \in [1..Len(w) -> Byte]
      BY <1>3, <1>4, <2>1
    <2> QED BY <2>1, <2>2
  <1>6. Len(wire) \in Nat
    BY <1>5
  <1>7. TypeOK
    <2>1. 0 \in 0..Len(wire) /\ 0 \in 0..0 /\ 0 \in Byte
      BY <1>6 DEF Byte
    <2> QED BY <1>1, <1>5, <2>1, ZenonT(40) DEF Init, TypeOK, Stage
  <1>8. Position
    BY DEF Init, Position
  <1> QED BY <1>7, <1>8 DEF IInv

\* The n bytes that a read takes.
LEMMA Taken ==
  ASSUME TypeOK, NEW n \in Nat, arrived - pos >= n
  PROVE  /\ \A i \in 1..n : wire[pos + i] \in Byte
         /\ \A i \in 1..n : i + 1 <= n => ReadU16(i) \in U16
         /\ \A k \in 0..n : OfLen(SubSeq(wire, pos + 1, pos + k), k)
         /\ pos + n \in 0..arrived
  <1> DEFINE L == Len(wire)
  <1>1. /\ wire \in Seq(Byte) /\ L \in Nat /\ arrived \in 0..L
        /\ pos \in 0..arrived
    BY DEF TypeOK
  <1>2. \A i \in 1..L : wire[i] \in Byte
    BY <1>1
  <1>3. ASSUME NEW k \in 0..n
        PROVE  OfLen(SubSeq(wire, pos + 1, pos + k), k)
    <2> HIDE DEF L
    <2>1. pos + k \in 0..L /\ pos \in Nat
      BY <1>1
    <2>2. \A i \in 1..k : pos + 1 + i - 1 \in 1..L
      BY <1>1, <2>1
    <2>3. SubSeq(wire, pos + 1, pos + k)
            = [i \in 1..(pos + k - (pos + 1) + 1) |-> wire[pos + 1 + i - 1]]
      BY <2>1, SMT
    <2>4. pos + k - (pos + 1) + 1 = k
      BY <2>1
    <2>5. SubSeq(wire, pos + 1, pos + k) \in [1..k -> Byte]
      BY <1>2, <2>2, <2>3, <2>4, ZenonT(40)
    <2>6. k \in Nat
      OBVIOUS
    <2> QED BY <2>5, <2>6, FunctionLen, Zenon
  <1> HIDE DEF L
  <1>4. \A i \in 1..n : wire[pos + i] \in Byte
    <2>1. \A i \in 1..n : pos + i \in 1..L
      BY <1>1
    <2> QED BY <1>2, <2>1
  <1>5. ASSUME NEW i \in 1..n, i + 1 <= n
        PROVE  ReadU16(i) \in U16
    <2>1. wire[pos + i] \in Byte /\ wire[pos + (i + 1)] \in Byte
      BY <1>4, <1>5
    <2>2. pos + (i + 1) = pos + i + 1
      BY <1>1
    <2>3. \A x, y \in Byte : 256 * x + y \in U16
      BY SMT DEF Byte, U16
    <2> QED BY <2>1, <2>2, <2>3 DEF ReadU16
  <1>6. pos + n \in 0..arrived
    BY <1>1
  <1> QED BY <1>3, <1>4, <1>5, <1>6

\* How many bytes each read_exact of read_from asks for.
LEMMA Needs ==
  /\ at = "digest" => Need = 32
  /\ at = "packet" => Need = 6
  /\ at = "dissociate" => Need = 4
  /\ at = "domain" => Need = want + 2
  /\ at = "v4" => Need = 6
  /\ at = "v6" => Need = 18
  /\ at \in {"version", "type", "response", "addr_type", "domain_len"}
       => Need = 1
  BY Zenon DEF Need

\* What is left to show of a step that reads.
LEMMA ReadStep ==
  ASSUME TypeOK, NEW s, Take(s), Need \in Nat,
         at' \in Stage, want' \in Byte, at' = "ok" => IsCommand(got')
  PROVE  TypeOK'
  <1>1. pos' \in 0..arrived
    BY Taken, Zenon DEF Take
  <1> QED BY <1>1, Zenon DEF TypeOK, Take

\* The reads of a command outside its address keep the position.
LEMMA ReadCommandInv ==
  ASSUME IInv,
         \/ ReadVersion \/ ReadType \/ ReadResponse \/ ReadDigest
         \/ ReadPacket \/ ReadDissociate
  PROVE  IInv'
  <1>0. TypeOK /\ Position /\ want \in Byte
    BY DEF IInv, TypeOK
  <1>t. pos \in Nat
    BY DEF IInv, TypeOK
  <1>1. CASE ReadVersion
    <2>1. Take("version") /\ Need = 1 /\ pos = 0 /\ pos' = pos + Need
      BY <1>0, <1>1, Needs, Zenon DEF ReadVersion, Take, Position
    <2>2. at' \in {"type", "error"} /\ want' = want
      BY <1>1 DEF ReadVersion, Then
    <2>3. TypeOK'
      BY <1>0, <2>1, <2>2, ReadStep DEF Stage
    <2>4. pos' = 1
      BY <2>1
    <2>5. Position'
      BY <2>2, <2>4, Zenon DEF Position
    <2> QED BY <2>3, <2>5 DEF IInv
  <1>2. CASE ReadType
    <2>1. Take("type") /\ Need = 1 /\ pos = 1 /\ pos' = pos + Need
      BY <1>0, <1>2, Needs, Zenon DEF ReadType, Take, Position
    <2>2. pos' = 2
      BY <2>1
    <2>3. want' = want
      BY <1>2 DEF ReadType
    <2>4. \/ at' \in {"response", "digest", "packet", "dissociate", "error"}
          \/ /\ at' = "addr_type"
             /\ got' = [type |-> "connect", addr |-> NoAddress]
          \/ at' = "ok" /\ got' = [type |-> "heartbeat"]
      BY <1>2 DEF ReadType, Then
    <2>5. /\ IsCommand([type |-> "heartbeat"])
          /\ SerializedLen([type |-> "heartbeat"]) = 2 + 0
      BY DEF IsCommand, SerializedLen
    <2>6. TypeOK'
      BY <1>0, <2>1, <2>3, <2>4, <2>5, ReadStep DEF Stage
    <2>7. Position'
      <3>1. CASE at' \in {"response", "digest", "packet", "dissociate",
                         "error"}
        BY <2>2, <3>1 DEF Position
      <3>2. CASE /\ at' = "addr_type"
                 /\ got' = [type |-> "connect", addr |-> NoAddress]
        BY <2>2, <3>2 DEF Position, Partial, Before
      <3>3. CASE at' = "ok" /\ got' = [type |-> "heartbeat"]
        <4>1. SerializedLen(got') = 2
          BY <2>5, <3>3
        <4> QED BY <2>2, <3>3, <4>1 DEF Position
      <3> QED BY <2>4, <3>1, <3>2, <3>3
    <2> QED BY <2>6, <2>7 DEF IInv
  <1>3. CASE ReadResponse
    <2>1. Take("response") /\ Need = 1 /\ pos = 2 /\ pos' = pos + Need
      BY <1>0, <1>3, Needs, Zenon DEF ReadResponse, Take, Position
    <2>2. want' = want
      BY <1>3 DEF ReadResponse
    <2>3. \/ at' = "error"
          \/ /\ at' = "ok"
             /\ \E b \in BOOLEAN : got' = [type |-> "response", ok |-> b]
      <3>1. (Byte1 = 0) \in BOOLEAN
        OBVIOUS
      <3> QED BY <1>3, <3>1, Zenon DEF ReadResponse, Then
    <2>4. at' = "ok" => IsCommand(got') /\ SerializedLen(got') = 2 + 1
      <3>1. ASSUME NEW b \in BOOLEAN
            PROVE  /\ IsCommand([type |-> "response", ok |-> b])
                   /\ SerializedLen([type |-> "response", ok |-> b]) = 2 + 1
        BY DEF IsCommand, SerializedLen
      <3> QED BY <2>3, <3>1, Zenon
    <2>5. TypeOK'
      BY <1>0, <2>1, <2>2, <2>3, <2>4, ReadStep DEF Stage
    <2>6. pos' = 2 + 1
      BY <2>1
    <2>7. Position'
      BY <2>3, <2>4, <2>6, Zenon DEF Position
    <2> QED BY <2>5, <2>7 DEF IInv
  <1>4. CASE ReadDigest
    <2>1. Take("digest") /\ Need = 32 /\ pos = 2 /\ pos' = pos + Need
      BY <1>0, <1>4, Needs, Zenon DEF ReadDigest, Take, Position
    <2> DEFINE d == SubSeq(wire, pos + 1, pos + 32)
    <2>2. at' = "ok" /\ got' = [type |-> "authenticate", digest |-> d]
          /\ want' = want
      BY <1>4 DEF ReadDigest, Then
    <2>3. d \in [1..32 -> Byte]
      <3>1. OfLen(d, 32)
        BY <1>0, <2>1, Taken DEF Take
      <3> HIDE DEF d
      <3> QED BY <3>1, LenFunction, Zenon
    <2> HIDE DEF d
    <2>4. IsCommand(got') /\ SerializedLen(got') = 2 + 32
      <3>1. /\ IsCommand([type |-> "authenticate", digest |-> d])
            /\ SerializedLen([type |-> "authenticate", digest |-> d]) = 2 + 32
        BY <2>3 DEF IsCommand, SerializedLen
      <3> QED BY <2>2, <3>1, Zenon
    <2>5. TypeOK'
      BY <1>0, <2>1, <2>2, <2>4, ReadStep DEF Stage
    <2>6. pos' = 2 + 32
      BY <2>1
    <2>7. Position'
      BY <2>2, <2>4, <2>6, Zenon DEF Position
    <2> QED BY <2>5, <2>7 DEF IInv
  <1>5. CASE ReadPacket
    <2>1. Take("packet") /\ Need = 6 /\ pos = 2 /\ pos' = pos + Need
      BY <1>0, <1>5, Needs, Zenon DEF ReadPacket, Take, Position
    <2>2. ReadU16(1) \in U16 /\ ReadU16(3) \in U16 /\ ReadU16(5) \in U16
      BY <1>0, <2>1, Taken DEF Take
    <2>3. /\ at' = "addr_type" /\ want' = want
          /\ got' = [type |-> "packet",
                     assoc_id |-> <<ReadU16(1), ReadU16(3)>>,
                     len |-> ReadU16(5), addr |-> NoAddress]
      BY <1>5 DEF ReadPacket, Then
    <2>4. Partial(got') /\ Before(got') = 8
      BY <2>2, <2>3 DEF Partial, Before, U32
    <2>5. TypeOK'
      BY <1>0, <2>1, <2>3, ReadStep DEF Stage
    <2>6. pos' = 8
      BY <2>1
    <2>7. Position'
      BY <2>3, <2>4, <2>6, Zenon DEF Position
    <2> QED BY <2>5, <2>7 DEF IInv
  <1>6. CASE ReadDissociate
    <2>1. Take("dissociate") /\ Need = 4 /\ pos = 2 /\ pos' = pos + Need
      BY <1>0, <1>6, Needs, Zenon DEF ReadDissociate, Take, Position
    <2>2. ReadU16(1) \in U16 /\ ReadU16(3) \in U16
      BY <1>0, <2>1, Taken DEF Take
    <2>3. /\ at' = "ok" /\ want' = want
          /\ got' = [type     |-> "dissociate",
                     assoc_id |-> <<ReadU16(1), ReadU16(3)>>]
      BY <1>6 DEF ReadDissociate, Then
    <2>4. IsCommand(got') /\ SerializedLen(got') = 2 + 4
      <3>1. ASSUME NEW x \in U16, NEW y \in U16
            PROVE  LET c == [type |-> "dissociate", assoc_id |-> <<x, y>>]
                   IN  IsCommand(c) /\ SerializedLen(c) = 2 + 4
        BY DEF IsCommand, SerializedLen, U32
      <3> QED BY <2>2, <2>3, <3>1, Zenon
    <2>5. TypeOK'
      BY <1>0, <2>1, <2>3, <2>4, ReadStep DEF Stage
    <2>6. pos' = 2 + 4
      BY <2>1
    <2>7. Position'
      BY <2>3, <2>4, <2>6, Zenon DEF Position
    <2> QED BY <2>5, <2>7 DEF IInv
  <1> QED BY <1>1, <1>2, <1>3, <1>4, <1>5, <1>6

\* The reads of Address::read_from keep the position.
LEMMA ReadAddressInv ==
  ASSUME IInv,
         ReadAddrType \/ ReadDomainLen \/ ReadDomain \/ ReadV4 \/ ReadV6
  PROVE  IInv'
  <1>0. TypeOK /\ Position /\ want \in Byte
    BY DEF IInv, TypeOK
  <1>b. Before(got) \in Nat /\ want \in Nat /\ want + 2 \in Nat
    BY <1>0 DEF Before, Byte
  <1>1. CASE ReadAddrType
    <2>1. /\ Take("addr_type") /\ Need = 1 /\ pos' = pos + Need
          /\ Partial(got) /\ pos = Before(got)
      BY <1>0, <1>1, Needs, Zenon DEF ReadAddrType, Take, Position
    <2>2. /\ at' \in {"domain_len", "v4", "v6", "error"}
          /\ want' = want /\ got' = got
      BY <1>1, Zenon DEF ReadAddrType, Then
    <2>3. TypeOK'
      BY <1>0, <2>1, <2>2, ReadStep DEF Stage
    <2>4. pos' = Before(got) + 1
      BY <2>1
    <2>5. Position'
      BY <2>1, <2>2, <2>4, Zenon DEF Position
    <2> QED BY <2>3, <2>5 DEF IInv
  <1>2. CASE ReadDomainLen
    <2>1. /\ Take("domain_len") /\ Need = 1 /\ pos' = pos + Need
          /\ Partial(got) /\ pos = Before(got) + 1
      BY <1>0, <1>2, Needs, Zenon DEF ReadDomainLen, Take, Position
    <2>2. at' = "domain" /\ want' = Byte1 /\ got' = got
      BY <1>2 DEF ReadDomainLen, Then
    <2>3. Byte1 \in Byte
      BY <1>0, <2>1, Taken DEF Take, Byte1
    <2>4. TypeOK'
      BY <1>0, <2>1, <2>2, <2>3, ReadStep DEF Stage
    <2>5. pos' = Before(got) + 2
      BY <1>b, <2>1
    <2>6. Position'
      BY <2>1, <2>2, <2>5, Zenon DEF Position
    <2> QED BY <2>4, <2>6 DEF IInv
  <1>3. ASSUME NEW a, IsAddress(a), NEW k \in Nat, AddressLen(a) = 1 + k,
               NEW s, Take(s), Partial(got), Need \in Nat,
               pos + Need = Before(got) + (1 + k),
               at' = "ok", got' = [got EXCEPT !.addr = a], want' = want
        PROVE  IInv'
    <2>1. IsCommand(got') /\ SerializedLen(got') = Before(got) + AddressLen(a)
      BY <1>3, Complete, Zenon
    <2>2. TypeOK'
      BY <1>0, <1>3, <2>1, ReadStep DEF Stage
    <2>3. pos' = Before(got) + AddressLen(a)
      BY <1>3, Zenon DEF Take
    <2>4. Position'
      BY <1>3, <2>1, <2>3, Zenon DEF Position
    <2> QED BY <2>2, <2>4 DEF IInv
  <1>4. CASE ReadDomain
    <2>1. /\ Take("domain") /\ Need = want + 2 /\ Partial(got)
          /\ pos = Before(got) + 2 /\ arrived - pos >= Need
      BY <1>0, <1>4, Needs, Zenon DEF ReadDomain, Take, Position
    <2> DEFINE host == SubSeq(wire, pos + 1, pos + want)
               a == [type |-> "domain", host |-> host,
                     port |-> ReadU16(want + 1)]
    <2>2. OfLen(host, want) /\ ReadU16(want + 1) \in U16
      <3>1. want \in 0..(want + 2) /\ want + 1 \in 1..(want + 2)
            /\ want + 1 + 1 <= want + 2
        BY <1>b
      <3> QED BY <1>0, <1>b, <2>1, <3>1, Taken, Zenon
    <2>3. want' = want
      BY <1>4 DEF ReadDomain
    <2>4. \/ at' = "error"
          \/ at' = "ok" /\ got' = [got EXCEPT !.addr = a] /\ Utf8(host)
      BY <1>4, Zenon DEF ReadDomain, Then
    <2>5. CASE at' = "error"
      <3>1. TypeOK'
        BY <1>0, <1>b, <2>1, <2>3, <2>5, ReadStep, Zenon DEF Stage
      <3>2. Position'
        BY <2>5, Zenon DEF Position
      <3> QED BY <3>1, <3>2 DEF IInv
    <2>6. CASE at' = "ok" /\ got' = [got EXCEPT !.addr = a] /\ Utf8(host)
      <3> HIDE DEF host
      <3>1. /\ a.type = "domain" /\ a.host = host
            /\ a \in [type : {"domain"}, host : Seq(Byte), port : U16]
        BY <2>2 DEF OfLen
      <3>2. Len(a.host) = want /\ want <= MaxDomain
        <4>1. want <= MaxDomain
          BY <1>0 DEF Byte, MaxDomain
        <4> QED BY <2>2, <3>1, <4>1, Zenon DEF OfLen
      <3>3. AddressLen(a) = 1 + (1 + want + 2)
        <4>1. AddressLen(a) = 1 + (1 + Len(a.host) + 2)
          BY <3>1, Zenon DEF AddressLen
        <4> QED BY <3>2, <4>1, Zenon
      <3>4. IsAddress(a)
        BY <2>6, <3>1, <3>2, Zenon DEF IsAddress
      <3>5. /\ pos + Need = Before(got) + (1 + (1 + want + 2))
            /\ 1 + want + 2 \in Nat
        BY <1>b, <2>1
      <3> HIDE DEF a
      <3> QED BY <1>3, <1>b, <2>1, <2>3, <2>6, <3>3, <3>4, <3>5, Zenon
    <2> QED BY <2>4, <2>5, <2>6
  <1>5. CASE ReadV4
    <2>1. /\ Take("v4") /\ Need = 6 /\ Partial(got)
          /\ pos = Before(got) + 1 /\ arrived - pos >= Need
      BY <1>0, <1>5, Needs, Zenon DEF ReadV4, Take, Position
    <2> DEFINE ip == SubSeq(wire, pos + 1, pos + 4)
               a == [type |-> "v4", ip |-> ip, port |-> ReadU16(5)]
    <2>2. at' = "ok" /\ got' = [got EXCEPT !.addr = a] /\ want' = want
      BY <1>5 DEF ReadV4, Then
    <2>3. OfLen(ip, 4) /\ ReadU16(5) \in U16
      BY <1>0, <2>1, Taken
    <2> HIDE DEF ip
    <2>4. ip \in [1..4 -> Byte]
      BY <2>3, LenFunction, Zenon
    <2>5. IsAddress(a)
      BY <2>3, <2>4 DEF IsAddress
    <2>6. AddressLen(a) = 1 + 6
      BY DEF AddressLen
    <2>7. pos + Need = Before(got) + (1 + 6) /\ 6 \in Nat
      BY <1>b, <2>1
    <2> HIDE DEF a
    <2> QED BY <1>3, <2>1, <2>2, <2>5, <2>6, <2>7, Zenon
  <1>6. CASE ReadV6
    <2>1. /\ Take("v6") /\ Need = 18 /\ Partial(got)
          /\ pos = Before(got) + 1 /\ arrived - pos >= Need
      BY <1>0, <1>6, Needs, Zenon DEF ReadV6, Take, Position
    <2> DEFINE ip == [i \in 1..8 |-> ReadU16(2 * i - 1)]
               a == [type |-> "v6", ip |-> ip, port |-> ReadU16(17),
                     scope |-> 0]
    <2>2. at' = "ok" /\ got' = [got EXCEPT !.addr = a] /\ want' = want
      BY <1>6 DEF ReadV6, Then
    <2>3. \A i \in 1..18 : i + 1 <= 18 => ReadU16(i) \in U16
      BY <1>0, <2>1, Taken
    <2>4. ip \in [1..8 -> U16]
      <3>1. \A i \in 1..8 : 2 * i - 1 \in 1..18 /\ (2 * i - 1) + 1 <= 18
        OBVIOUS
      <3> QED BY <2>3, <3>1
    <2> HIDE DEF ip
    <2>5. IsAddress(a)
      <3>1. ReadU16(17) \in U16 /\ 0 \in U16
        BY <2>3 DEF U16
      <3> QED BY <2>4, <3>1 DEF IsAddress
    <2>6. AddressLen(a) = 1 + 18
      BY DEF AddressLen
    <2>7. pos + Need = Before(got) + (1 + 18) /\ 18 \in Nat
      BY <1>b, <2>1
    <2> HIDE DEF a
    <2> QED BY <1>3, <2>1, <2>2, <2>5, <2>6, <2>7, Zenon
  <1> QED BY <1>1, <1>2, <1>4, <1>5, <1>6

\* Every step keeps the types and the position in the stream.
LEMMA StepInv == IInv /\ [Next]_vars => IInv'
  <1> SUFFICES ASSUME IInv, [Next]_vars
               PROVE  IInv'
    OBVIOUS
  <1>1. CASE Deliver
    <2> DEFINE L == Len(wire)
    <2>1. /\ L \in Nat /\ arrived \in 0..L /\ pos \in 0..arrived
          /\ arrived < L /\ arrived' = arrived + 1
      BY <1>1 DEF IInv, TypeOK, Deliver
    <2> HIDE DEF L
    <2>2. arrived' \in 0..L /\ pos \in 0..arrived'
      BY <2>1
    <2>3. TypeOK'
      BY <1>1, <2>2, Zenon DEF IInv, TypeOK, Deliver, L
    <2>4. Position'
      BY <1>1, Zenon DEF IInv, Position, Deliver
    <2> QED BY <2>3, <2>4 DEF IInv
  <1>2. CASE Finish
    BY <1>2, Zenon DEF IInv, TypeOK, Position, Finish
  <1>3. CASE ReadFrom
    BY <1>3, ReadCommandInv, ReadAddressInv, Zenon DEF ReadFrom
  <1>4. CASE UnexpectedEof
    BY <1>4, Zenon DEF IInv, TypeOK, Position, UnexpectedEof, Stage
  <1>5. CASE UNCHANGED vars
    BY <1>5, Zenon DEF IInv, TypeOK, Position, vars
  <1> QED BY <1>1, <1>2, <1>3, <1>4, <1>5 DEF Next

\* At every read, read_from has consumed the bytes that belong to what it has
\* read, and no others.
THEOREM Invariant == Spec => []IInv
  <1> HIDE DEF IInv
  <1> QED BY InitInv, StepInv, PTL DEF Spec

\* Whatever bytes arrive, a command that read_from returns is a command: each
\* field in its range, and the reads never pass what has arrived.
THEOREM TypeCorrect == Spec => []TypeOK
  <1>1. IInv => TypeOK
    BY DEF IInv
  <1> QED BY <1>1, Invariant, PTL

\* What read_from has consumed when it returns is serialized_len of the command
\* it returns, at most max_serialized_len: the payload begins there.
THEOREM HeaderLengthSafe == Spec => []HeaderLength
  <1>1. IInv => HeaderLength
    BY SerializedLength, Zenon DEF IInv, TypeOK, Position, HeaderLength
  <1> QED BY <1>1, Invariant, PTL

\* However long the address, what a SOCKS5 packet of n bytes comes to is five
\* bytes more, which is what buf_size leaves room for.
LEMMA RelayedLength ==
  ASSUME NEW c, c.type = "packet", IsAddress(c.addr), NEW n \in Nat
  PROVE  RelayedLen(c, n) = n + 5
  <1> DEFINE A == AddressLen(c.addr)
  <1>1. A \in Nat
    BY AddressLength, CommandSums, Zenon
  <1>2. SerializedLen(c) = 2 + (6 + A) /\ SocksHeaderLen(c.addr) = 3 + A
    BY DEF SerializedLen, SocksHeaderLen
  <1> HIDE DEF A
  <1> QED BY <1>1, <1>2 DEF RelayedLen

\* No packet that socks5_to_relay receives in its buffer is too large for the
\* datagram that buf_size was computed for: for every address and every usize,
\* those included for which the subtraction wraps.
THEOREM FitsDatagramSafe == Spec => []FitsDatagram
  <1>1. IInv => FitsDatagram
    <2> SUFFICES ASSUME IInv, sent.type = "packet", NEW max \in PacketSize,
                        CanAllocate(BufSize(max))
                 PROVE  RelayedLen(sent, BufSize(max)) <= max
      BY DEF FitsDatagram
    <2>1. IsAddress(sent.addr)
      BY CodecAssumption, ZenonT(40) DEF IInv, TypeOK, IsCommand
    <2>2. max \in Nat /\ max < Usize /\ Usize \in Nat /\ Usize >= 65536
      BY SizeAssumption
    <2>3. BufSize(max) = (max - 5) % Usize
      BY <2>2 DEF BufSize, MaxSerializedLen, MaxSocksHeaderLen
    <2>4. max >= 5
      <3> SUFFICES ASSUME max < 5 PROVE FALSE
        BY <2>2
      <3>1. (max - 5) % Usize = max - 5 + Usize
        BY <2>2
      <3>2. Usize \div 2 \in Nat /\ 2 * (Usize \div 2) <= Usize
        BY <2>2
      <3> QED BY <2>2, <2>3, <3>1, <3>2 DEF CanAllocate
    <2>5. BufSize(max) = max - 5
      BY <2>2, <2>3, <2>4
    <2>6. max - 5 \in Nat /\ (max - 5) + 5 <= max
      BY <2>2, <2>4
    <2> QED BY <2>1, <2>5, <2>6, RelayedLength
  <1> QED BY <1>1, Invariant, PTL

-----------------------------------------------------------------------------
(***************************************************************************)
(* What an encoding is byte by byte: which bytes of a string w it takes    *)
(* for w to begin with the encoding of a command.                          *)
(***************************************************************************)

\* After its first k bytes, w goes on with s.
Spells(w, k, s) == \A i \in 1..Len(s) : w[k + i] = s[i]

\* The u16 that w holds after its first k bytes.
U16At(w, k) == 256 * w[k + 1] + w[k + 2]

\* A concatenation is spelled where its parts are, one after the other.
LEMMA SpellsConcat ==
  ASSUME NEW w, NEW k \in Nat, NEW s, NEW m \in Nat, OfLen(s, m),
         NEW t, NEW n \in Nat, OfLen(t, n)
  PROVE  Spells(w, k, s \o t) <=> Spells(w, k, s) /\ Spells(w, k + m, t)
  <1>1. s \in Seq(Byte) /\ t \in Seq(Byte) /\ Len(s) = m /\ Len(t) = n
    BY DEF OfLen
  <1>2. /\ Len(s \o t) = m + n
        /\ \A i \in 1..m : (s \o t)[i] = s[i]
        /\ \A i \in 1..n : (s \o t)[m + i] = t[i]
    BY <1>1
  <1> DEFINE u == s \o t
  <1> HIDE DEF u
  <1>3. /\ Len(u) = m + n
        /\ \A i \in 1..m : u[i] = s[i]
        /\ \A i \in 1..n : u[m + i] = t[i]
    BY <1>2 DEF u
  <1>4. ASSUME Spells(w, k, u)
        PROVE  Spells(w, k, s) /\ Spells(w, k + m, t)
    <2>1. ASSUME NEW i \in 1..m PROVE w[k + i] = s[i]
      <3>1. i \in 1..(m + n)
        OBVIOUS
      <3> QED BY <1>3, <1>4, <3>1 DEF Spells
    <2>2. ASSUME NEW i \in 1..n PROVE w[k + m + i] = t[i]
      <3>1. m + i \in 1..(m + n) /\ k + (m + i) = k + m + i
        OBVIOUS
      <3> QED BY <1>3, <1>4, <3>1 DEF Spells
    <2> QED BY <1>1, <2>1, <2>2 DEF Spells
  <1>5. ASSUME Spells(w, k, s), Spells(w, k + m, t)
        PROVE  Spells(w, k, u)
    <2> SUFFICES ASSUME NEW i \in 1..(m + n) PROVE w[k + i] = u[i]
      BY <1>3 DEF Spells
    <2>1. CASE i \in 1..m
      BY <1>1, <1>3, <1>5, <2>1 DEF Spells
    <2>2. CASE i \notin 1..m
      <3>1. i - m \in 1..n /\ m + (i - m) = i /\ k + m + (i - m) = k + i
        BY <2>2
      <3>2. w[k + m + (i - m)] = t[i - m] /\ u[m + (i - m)] = t[i - m]
        BY <1>1, <1>3, <1>5, <3>1, Zenon DEF Spells
      <3> QED BY <3>1, <3>2, Zenon
    <2> QED BY <2>1, <2>2
  <1> QED BY <1>4, <1>5, Zenon DEF u

\* One and two bytes are spelled when they stand there.
LEMMA SpellsTuple ==
  ASSUME NEW w, NEW k \in Nat, NEW x, NEW y
  PROVE  /\ Spells(w, k, <<x>>) <=> w[k + 1] = x
         /\ Spells(w, k, <<x, y>>) <=> w[k + 1] = x /\ w[k + 2] = y
  <1>1. /\ Len(<<x>>) = 1 /\ <<x>>[1] = x
        /\ Len(<<x, y>>) = 2 /\ <<x, y>>[1] = x /\ <<x, y>>[2] = y
        /\ 1..1 = {1} /\ 1..2 = {1, 2}
    OBVIOUS
  <1>2. Spells(w, k, <<x>>) <=> w[k + 1] = x
    BY <1>1, Zenon DEF Spells
  <1>3. Spells(w, k, <<x, y>>) <=> w[k + 1] = x /\ w[k + 2] = y
    BY <1>1, Zenon DEF Spells
  <1> QED BY <1>2, <1>3

\* Two bytes are the big-endian encoding of one u16 only.
LEMMA BigEndian ==
  \A x, y \in Byte, n \in U16 :
      (x = n \div 256 /\ y = n % 256) <=> n = 256 * x + y
  BY SMT DEF Byte, U16

\* The arithmetic of the offsets of the fields in a command.
LEMMA SmallSums ==
  /\ 0 \in Nat /\ 1 \in Nat /\ 2 \in Nat /\ 4 \in Nat /\ 8 \in Nat
  /\ 32 \in Nat
  /\ 0 + 1 = 1 /\ 1 + 1 = 2 /\ 1 + 2 = 3 /\ 1 + (1 + 4) = 6
  /\ 1 + ((1 + 4) + 2) = 8
  OBVIOUS

\* What put_u16 writes is read back as the number it wrote.
LEMMA SpellsU16 ==
  ASSUME NEW w, NEW k \in Nat, w[k + 1] \in Byte, w[k + 2] \in Byte,
         NEW n \in U16
  PROVE  Spells(w, k, PutU16(n)) <=> n = U16At(w, k)
  <1> DEFINE x == n \div 256
             y == n % 256
  <1>1. Spells(w, k, <<x, y>>) <=> w[k + 1] = x /\ w[k + 2] = y
    <2> HIDE DEF x, y
    <2> QED BY SpellsTuple, ZenonT(40)
  <1>2. w[k + 1] = x /\ w[k + 2] = y <=> n = 256 * w[k + 1] + w[k + 2]
    BY BigEndian
  <1> QED BY <1>1, <1>2 DEF PutU16, U16At

\* What is written of an IPv6 address is read back as its eight segments.
LEMMA SpellsSegments ==
  ASSUME NEW w, NEW k \in Nat, \A i \in 1..16 : w[k + i] \in Byte,
         NEW ip \in [1..8 -> U16]
  PROVE  Spells(w, k, Segments(ip))
           <=> \A j \in 1..8 : ip[j] = U16At(w, k + 2 * j - 2)
  <1> DEFINE s == Segments(ip)
  <1>1. Len(s) = 16
    BY SegmentsLen DEF OfLen
  <1>2. ASSUME NEW j \in 1..8
        PROVE  /\ 2 * j - 1 \in 1..16 /\ 2 * j \in 1..16
               /\ s[2 * j - 1] = ip[j] \div 256 /\ s[2 * j] = ip[j] % 256
    <2>1. /\ 2 * j - 1 \in 1..16 /\ (2 * j - 1) % 2 = 1
          /\ ((2 * j - 1) + 1) \div 2 = j
          /\ 2 * j \in 1..16 /\ (2 * j) % 2 # 1 /\ (2 * j) \div 2 = j
      OBVIOUS
    <2> QED BY <2>1, Zenon DEF Segments
  <1> HIDE DEF s
  <1>3. ASSUME NEW j \in 1..8
        PROVE  (/\ w[k + (2 * j - 1)] = s[2 * j - 1]
                /\ w[k + 2 * j] = s[2 * j])
                 <=> ip[j] = U16At(w, k + 2 * j - 2)
    <2>1. /\ k + 2 * j - 2 + 1 = k + (2 * j - 1)
          /\ k + 2 * j - 2 + 2 = k + 2 * j
      OBVIOUS
    <2>2. w[k + (2 * j - 1)] \in Byte /\ w[k + 2 * j] \in Byte
      BY <1>2, ZenonT(40)
    <2>3. ip[j] \in U16
      OBVIOUS
    <2>4. (/\ w[k + (2 * j - 1)] = ip[j] \div 256
           /\ w[k + 2 * j] = ip[j] % 256)
            <=> ip[j] = 256 * w[k + (2 * j - 1)] + w[k + 2 * j]
      BY <2>2, <2>3, BigEndian
    <2>5. U16At(w, k + 2 * j - 2) = 256 * w[k + (2 * j - 1)] + w[k + 2 * j]
      BY <2>1 DEF U16At
    <2>6. s[2 * j - 1] = ip[j] \div 256 /\ s[2 * j] = ip[j] % 256
      BY <1>2
    <2> QED BY <2>4, <2>5, <2>6
  <1>4. ASSUME Spells(w, k, s), NEW j \in 1..8
        PROVE  ip[j] = U16At(w, k + 2 * j - 2)
    <2>1. w[k + (2 * j - 1)] = s[2 * j - 1] /\ w[k + 2 * j] = s[2 * j]
      <3>1. \A i \in 1..16 : w[k + i] = s[i]
        BY <1>1, <1>4, Zenon DEF Spells
      <3> QED BY <1>2, <3>1
    <2> QED BY <1>3, <2>1
  <1>5. ASSUME \A j \in 1..8 : ip[j] = U16At(w, k + 2 * j - 2), NEW i \in 1..16
        PROVE  w[k + i] = s[i]
    <2>1. PICK j \in 1..8 : i = 2 * j - 1 \/ i = 2 * j
      <3>1. \/ (i + 1) \div 2 \in 1..8 /\ i = 2 * ((i + 1) \div 2) - 1
            \/ i \div 2 \in 1..8 /\ i = 2 * (i \div 2)
        BY SMT
      <3> QED BY <3>1
    <2> QED BY <1>3, <1>5, <2>1, Zenon
  <1> QED BY <1>1, <1>4, <1>5, Zenon DEF Spells, s

\* The bytes of w after the first k that are the encoding of address a.
AddressAt(w, k, a) ==
    \/ /\ a.type = "domain" /\ w[k + 1] = 0 /\ w[k + 2] = Len(a.host)
       /\ Spells(w, k + 2, a.host)
       /\ a.port = U16At(w, k + (2 + Len(a.host)))
    \/ /\ a.type = "v4" /\ w[k + 1] = 1
       /\ Spells(w, k + 1, a.ip)
       /\ a.port = U16At(w, k + (1 + 4))
    \/ /\ a.type = "v6" /\ w[k + 1] = 2
       /\ \A j \in 1..8 : a.ip[j] = U16At(w, k + 1 + 2 * j - 2)
       /\ a.port = U16At(w, k + (1 + 16))

\* w has n bytes after the first k.
HasBytes(w, k, n) == \A i \in 1..n : w[k + i] \in Byte

\* The bytes of a stretch of the stream are bytes of each of its two parts.
LEMMA BytesAfter ==
  ASSUME NEW w, NEW k \in Nat, NEW m \in Nat, NEW n \in Nat,
         HasBytes(w, k, m + n)
  PROVE  /\ HasBytes(w, k, m)
         /\ HasBytes(w, k + m, n)
  <1>1. ASSUME NEW i \in 1..m PROVE w[k + i] \in Byte
    BY DEF HasBytes
  <1>2. ASSUME NEW i \in 1..n PROVE w[k + m + i] \in Byte
    <2>1. m + i \in 1..(m + n) /\ k + (m + i) = k + m + i
      OBVIOUS
    <2> QED BY <2>1, Zenon DEF HasBytes
  <1> QED BY <1>1, <1>2 DEF HasBytes

\* A tag byte, n bytes and a port.
LEMMA SpellsTaggedPort ==
  ASSUME NEW w, NEW k \in Nat, NEW x \in Byte, NEW s, NEW n \in Nat,
         OfLen(s, n), NEW p \in U16, HasBytes(w, k, (1 + n) + 2)
  PROVE  Spells(w, k, <<x>> \o s \o PutU16(p))
           <=> /\ w[k + 1] = x
               /\ Spells(w, k + 1, s)
               /\ p = U16At(w, k + (1 + n))
  <1>1. OfLen(<<x>>, 1) /\ OfLen(PutU16(p), 2) /\ OfLen(<<x>> \o s, 1 + n)
        /\ 1 \in Nat /\ 2 \in Nat /\ 1 + n \in Nat /\ k + (1 + n) \in Nat
    <2>1. 1 \in Nat /\ 2 \in Nat /\ 1 + n \in Nat /\ k + (1 + n) \in Nat
      OBVIOUS
    <2> QED BY <2>1, TupleLen, PutU16Len, ConcatLen, Zenon
  <1> DEFINE h == <<x>> \o s
  <1>2. Spells(w, k, h) <=> w[k + 1] = x /\ Spells(w, k + 1, s)
    <2>1. Spells(w, k, h) <=> Spells(w, k, <<x>>) /\ Spells(w, k + 1, s)
      BY <1>1, SpellsConcat, Zenon
    <2>2. Spells(w, k, <<x>>) <=> w[k + 1] = x
      BY SpellsTuple, ZenonT(40)
    <2> QED BY <2>1, <2>2, Zenon
  <1>3. OfLen(h, 1 + n)
    BY <1>1
  <1> HIDE DEF h
  <1>4. Spells(w, k, h \o PutU16(p))
          <=> Spells(w, k, h) /\ Spells(w, k + (1 + n), PutU16(p))
    BY <1>1, <1>3, SpellsConcat, Zenon
  <1>5. Spells(w, k + (1 + n), PutU16(p)) <=> p = U16At(w, k + (1 + n))
    <2>1. HasBytes(w, k + (1 + n), 2)
      BY <1>1, BytesAfter, Zenon
    <2>2. w[k + (1 + n) + 1] \in Byte /\ w[k + (1 + n) + 2] \in Byte
      BY <2>1 DEF HasBytes
    <2> QED BY <1>1, <2>2, SpellsU16, Zenon
  <1> QED BY <1>2, <1>4, <1>5, Zenon DEF h

\* Address::write_to_buf writes exactly what AddressAt says field by field.
LEMMA SpellsAddress ==
  ASSUME NEW w, NEW k \in Nat, NEW a, IsAddress(a),
         HasBytes(w, k, AddressLen(a))
  PROVE  Spells(w, k, WriteAddress(a)) <=> AddressAt(w, k, a)
  <1>1. CASE /\ a \in [type : {"domain"}, host : Seq(Byte), port : U16]
             /\ Len(a.host) <= MaxDomain /\ Utf8(a.host)
    <2> DEFINE n == Len(a.host)
               b == <<0, n % 256>>
               h == b \o a.host
    <2>1. a.type = "domain" /\ a.host \in Seq(Byte) /\ a.port \in U16
      BY <1>1
    <2>2. /\ n \in Nat /\ OfLen(a.host, n) /\ n % 256 = n
          /\ 2 \in Nat /\ 2 + n \in Nat /\ k + (2 + n) \in Nat
      <3>1. n \in Nat /\ OfLen(a.host, n) /\ n <= 255
        BY <1>1, <2>1, BytesLen, Zenon DEF MaxDomain
      <3> HIDE DEF n
      <3> QED BY <3>1
    <2>3. HasBytes(w, k, (2 + n) + 2)
      <3>1. AddressLen(a) = 1 + (1 + n + 2)
        BY <2>1, Zenon DEF AddressLen
      <3> QED BY <2>2, <3>1, Sums, Zenon
    <2>4. OfLen(b, 2)
      BY <2>2, Tags, TupleLen, ZenonT(40)
    <2>5. Spells(w, k, b) <=> w[k + 1] = 0 /\ w[k + 2] = n
      <3>1. Spells(w, k, b) <=> w[k + 1] = 0 /\ w[k + 2] = n % 256
        <4> DEFINE x == n % 256
        <4> HIDE DEF x
        <4>1. Spells(w, k, <<0, x>>) <=> w[k + 1] = 0 /\ w[k + 2] = x
          BY SpellsTuple, ZenonT(40)
        <4> QED BY <4>1, ZenonT(40) DEF x
      <3> QED BY <2>2, <3>1, ZenonT(40)
    <2>6. WriteAddress(a) = b \o a.host \o PutU16(a.port)
      BY <2>1, Zenon DEF WriteAddress
    <2>7. AddressAt(w, k, a)
            <=> /\ w[k + 1] = 0 /\ w[k + 2] = n
                /\ Spells(w, k + 2, a.host)
                /\ a.port = U16At(w, k + (2 + n))
      BY <2>1 DEF AddressAt
    <2> HIDE DEF b, n
    <2>8. /\ Spells(w, k, h) <=> Spells(w, k, b) /\ Spells(w, k + 2, a.host)
          /\ OfLen(h, 2 + n)
      BY <2>2, <2>4, SpellsConcat, ConcatLen, ZenonT(40)
    <2>9. WriteAddress(a) = h \o PutU16(a.port)
      BY <2>6
    <2> HIDE DEF h
    <2>10. Spells(w, k, h \o PutU16(a.port))
             <=> Spells(w, k, h) /\ Spells(w, k + (2 + n), PutU16(a.port))
      BY <2>1, <2>2, <2>8, PutU16Len, SpellsConcat, Zenon
    <2>11. Spells(w, k + (2 + n), PutU16(a.port))
             <=> a.port = U16At(w, k + (2 + n))
      <3>1. HasBytes(w, k + (2 + n), 2)
        BY <2>2, <2>3, BytesAfter, Zenon
      <3>2. w[k + (2 + n) + 1] \in Byte /\ w[k + (2 + n) + 2] \in Byte
        BY <3>1 DEF HasBytes
      <3> QED BY <2>1, <2>2, <3>2, SpellsU16, Zenon
    <2> QED BY <2>5, <2>7, <2>8, <2>9, <2>10, <2>11, Zenon
  <1>2. CASE a \in [type : {"v4"}, ip : [1..4 -> Byte], port : U16]
    <2>1. a.type = "v4" /\ a.ip \in [1..4 -> Byte] /\ a.port \in U16
      BY <1>2
    <2>2. OfLen(a.ip, 4)
      BY <2>1, FunctionLen, Sums, Zenon
    <2>3. WriteAddress(a) = <<1>> \o a.ip \o PutU16(a.port)
      BY <2>1, Zenon DEF WriteAddress
    <2>4. AddressLen(a) = (1 + 4) + 2
      BY <2>1, Sums, Zenon DEF AddressLen
    <2>5. Spells(w, k, <<1>> \o a.ip \o PutU16(a.port))
            <=> /\ w[k + 1] = 1
                /\ Spells(w, k + 1, a.ip)
                /\ a.port = U16At(w, k + (1 + 4))
      <3>1. 4 \in Nat /\ 1 \in Byte /\ HasBytes(w, k, (1 + 4) + 2)
        BY <2>4, Tags
      <3> QED BY <2>1, <2>2, <3>1, SpellsTaggedPort
    <2> QED BY <2>1, <2>3, <2>5, Zenon DEF AddressAt
  <1>3. CASE a \in [type : {"v6"}, ip : [1..8 -> U16], port : U16,
                    scope : U16]
    <2>1. a.type = "v6" /\ a.ip \in [1..8 -> U16] /\ a.port \in U16
      BY <1>3
    <2> DEFINE g == Segments(a.ip)
    <2>2. OfLen(g, 16)
      BY <2>1, SegmentsLen, Zenon
    <2>3. WriteAddress(a) = <<2>> \o g \o PutU16(a.port)
      BY <2>1, Zenon DEF WriteAddress
    <2>4. AddressLen(a) = (1 + 16) + 2
      BY <2>1, Sums, Zenon DEF AddressLen
    <2>5. Spells(w, k + 1, g)
            <=> \A j \in 1..8 : a.ip[j] = U16At(w, k + 1 + 2 * j - 2)
      <3>1. k + 1 \in Nat /\ \A i \in 1..16 : w[k + 1 + i] \in Byte
        <4>1. \A i \in 1..16 : 1 + i \in 1..((1 + 16) + 2)
                               /\ k + (1 + i) = k + 1 + i
          OBVIOUS
        <4>2. \A i \in 1..16 : w[k + 1 + i] \in Byte
          BY <2>4, <4>1, Zenon DEF HasBytes
        <4> QED BY <4>2
      <3> QED BY <2>1, <3>1, SpellsSegments, Zenon
    <2> HIDE DEF g
    <2>6. Spells(w, k, <<2>> \o g \o PutU16(a.port))
            <=> /\ w[k + 1] = 2
                /\ Spells(w, k + 1, g)
                /\ a.port = U16At(w, k + (1 + 16))
      <3>1. 16 \in Nat /\ 2 \in Byte /\ HasBytes(w, k, (1 + 16) + 2)
        BY <2>4, Tags
      <3> QED BY <2>1, <2>2, <3>1, SpellsTaggedPort
    <2> QED BY <2>1, <2>3, <2>5, <2>6, Zenon DEF AddressAt
  <1> QED BY <1>1, <1>2, <1>3, Zenon DEF IsAddress

\* What put_u32 writes is read back as the two halves of the number.
LEMMA SpellsU32 ==
  ASSUME NEW w, NEW k \in Nat, HasBytes(w, k, 4), NEW n \in U32
  PROVE  Spells(w, k, PutU32(n)) <=> n = <<U16At(w, k), U16At(w, k + 2)>>
  <1>1. n = <<n[1], n[2]>> /\ n[1] \in U16 /\ n[2] \in U16
    BY DEF U32
  <1>2. /\ w[k + 1] \in Byte /\ w[k + 2] \in Byte
        /\ w[(k + 2) + 1] \in Byte /\ w[(k + 2) + 2] \in Byte
        /\ k + 2 \in Nat /\ 2 \in Nat
    <2>1. (k + 2) + 1 = k + 3 /\ (k + 2) + 2 = k + 4
      OBVIOUS
    <2> QED BY <2>1 DEF HasBytes
  <1>3. Spells(w, k, PutU32(n))
          <=> Spells(w, k, PutU16(n[1])) /\ Spells(w, k + 2, PutU16(n[2]))
    BY <1>1, <1>2, PutU16Len, SpellsConcat, Zenon DEF PutU32
  <1>4. Spells(w, k, PutU32(n))
          <=> n[1] = U16At(w, k) /\ n[2] = U16At(w, k + 2)
    BY <1>1, <1>2, <1>3, SpellsU16, Zenon
  <1> HIDE DEF U16At
  <1>5. n[1] = U16At(w, k) /\ n[2] = U16At(w, k + 2)
          <=> n = <<U16At(w, k), U16At(w, k + 2)>>
    BY <1>1
  <1> QED BY <1>4, <1>5, Zenon

\* The bytes of w that come before the address of command c.
HeadAt(w, c) ==
    \/ c.type = "connect" /\ w[2] = 1
    \/ /\ c.type = "packet" /\ w[2] = 2
       /\ c.assoc_id = <<U16At(w, 2), U16At(w, 4)>>
       /\ c.len = U16At(w, 6)

\* The bytes that w begins with are the encoding of command c.
CommandAt(w, c) ==
    /\ w[1] = TUIC_PROTOCOL_VERSION
    /\ \/ /\ c.type = "response" /\ w[2] = 255
          /\ w[3] = IF c.ok THEN 0 ELSE 255
       \/ c.type = "authenticate" /\ w[2] = 0 /\ Spells(w, 2, c.digest)
       \/ HeadAt(w, c) /\ AddressAt(w, Before(c), c.addr)
       \/ /\ c.type = "dissociate" /\ w[2] = 3
          /\ c.assoc_id = <<U16At(w, 2), U16At(w, 4)>>
       \/ c.type = "heartbeat" /\ w[2] = 4

\* The version, and what follows it.
LEMMA SpellsVersion ==
  ASSUME NEW w, NEW r, NEW n \in Nat, OfLen(r, n)
  PROVE  Spells(w, 0, <<TUIC_PROTOCOL_VERSION>> \o r)
           <=> w[1] = TUIC_PROTOCOL_VERSION /\ Spells(w, 1, r)
  <1> DEFINE v == <<TUIC_PROTOCOL_VERSION>>
  <1>1. OfLen(v, 1) /\ 0 \in Nat /\ 1 \in Nat /\ 0 + 1 = 1
    <2>1. OfLen(v, 1)
      BY Tags, TupleLen, Zenon DEF TUIC_PROTOCOL_VERSION
    <2> QED BY <2>1, SmallSums, Zenon
  <1>2. Spells(w, 0, v) <=> w[0 + 1] = TUIC_PROTOCOL_VERSION
    BY <1>1, SpellsTuple, ZenonT(40)
  <1> HIDE DEF v
  <1>3. Spells(w, 0, v \o r) <=> Spells(w, 0, v) /\ Spells(w, 0 + 1, r)
    BY <1>1, SpellsConcat, Zenon
  <1> QED BY <1>1, <1>2, <1>3, Zenon DEF v

\* The type of a command, and what follows it.
LEMMA SpellsType ==
  ASSUME NEW w, NEW x \in Byte, NEW r, NEW n \in Nat, OfLen(r, n)
  PROVE  /\ Spells(w, 1, <<x>> \o r) <=> w[2] = x /\ Spells(w, 2, r)
         /\ OfLen(<<x>> \o r, 1 + n) /\ 1 + n \in Nat
  <1> DEFINE v == <<x>>
  <1>1. OfLen(v, 1) /\ 1 \in Nat /\ 1 + 1 = 2 /\ 1 + n \in Nat
    <2>1. OfLen(v, 1)
      BY TupleLen, Zenon
    <2>2. 1 + n \in Nat
      OBVIOUS
    <2> QED BY <2>1, <2>2, SmallSums, Zenon
  <1>2. Spells(w, 1, v) <=> w[1 + 1] = x
    BY <1>1, SpellsTuple, ZenonT(40)
  <1> HIDE DEF v
  <1>3. Spells(w, 1, v \o r) <=> Spells(w, 1, v) /\ Spells(w, 1 + 1, r)
    BY <1>1, SpellsConcat, Zenon
  <1>4. OfLen(v \o r, 1 + n)
    BY <1>1, ConcatLen, Zenon
  <1> QED BY <1>1, <1>2, <1>3, <1>4, Zenon DEF v

\* A string of bytes begins with the encoding of a command exactly if each byte
\* is what CommandAt says.
LEMMA SpellsCommand ==
  ASSUME NEW w, NEW c, IsCommand(c), HasBytes(w, 0, SerializedLen(c))
  PROVE  Spells(w, 0, WriteToBuf(c)) <=> CommandAt(w, c)
  <1> DEFINE V == <<TUIC_PROTOCOL_VERSION>>
  <1>v. ASSUME NEW r, NEW n \in Nat, OfLen(r, n)
        PROVE  Spells(w, 0, V \o r)
                 <=> w[1] = TUIC_PROTOCOL_VERSION /\ Spells(w, 1, r)
    BY <1>v, SpellsVersion, Zenon
  <1>b. ASSUME NEW n \in Nat, SerializedLen(c) = 2 + n
        PROVE  HasBytes(w, 2, n)
    <2>1. ASSUME NEW i \in 1..n PROVE w[2 + i] \in Byte
      <3>1. 2 + i \in 1..(2 + n) /\ 0 + (2 + i) = 2 + i
        OBVIOUS
      <3> QED BY <1>b, <3>1, Zenon DEF HasBytes
    <2> QED BY <2>1 DEF HasBytes
  <1> HIDE DEF V
  <1>1. CASE c \in [type : {"response"}, ok : BOOLEAN]
    <2> DEFINE b == IF c.ok THEN 0 ELSE 255
    <2>1. c.type = "response"
      BY <1>1
    <2>2. WriteToBuf(c) = V \o <<255, b>>
      BY <2>1, Zenon DEF WriteToBuf, V
    <2>3. b \in Byte
      BY Tags
    <2>4. CommandAt(w, c)
            <=> w[1] = TUIC_PROTOCOL_VERSION /\ w[2] = 255 /\ w[3] = b
      BY <2>1, Zenon DEF CommandAt, HeadAt
    <2> HIDE DEF b
    <2>5. OfLen(<<255, b>>, 2)
      BY <2>3, Tags, TupleLen, ZenonT(40)
    <2>6. Spells(w, 1, <<255, b>>) <=> w[2] = 255 /\ w[3] = b
      <3>1. ASSUME NEW x, NEW y
            PROVE  Spells(w, 1, <<x, y>>) <=> w[2] = x /\ w[3] = y
        <4>1. Spells(w, 1, <<x, y>>) <=> w[1 + 1] = x /\ w[1 + 2] = y
          BY SpellsTuple, ZenonT(40)
        <4> QED BY <4>1, SmallSums, Zenon
      <3> QED BY <3>1
    <2>7. Spells(w, 0, V \o <<255, b>>)
            <=> w[1] = TUIC_PROTOCOL_VERSION /\ Spells(w, 1, <<255, b>>)
      BY <1>v, <2>5, SmallSums, Zenon
    <2> QED BY <2>2, <2>4, <2>6, <2>7, ZenonT(40)
  <1>2. CASE c \in [type : {"authenticate"}, digest : [1..32 -> Byte]]
    <2>1. c.type = "authenticate" /\ c.digest \in [1..32 -> Byte]
      BY <1>2
    <2>2. WriteToBuf(c) = V \o (<<0>> \o c.digest)
      BY <2>1, Zenon DEF WriteToBuf, V
    <2>3. CommandAt(w, c) <=> /\ w[1] = TUIC_PROTOCOL_VERSION
                              /\ w[2] = 0 /\ Spells(w, 2, c.digest)
      BY <2>1, Zenon DEF CommandAt, HeadAt
    <2>4. OfLen(c.digest, 32)
      BY <2>1, FunctionLen, CommandSums, Zenon
    <2>5. /\ Spells(w, 1, <<0>> \o c.digest)
               <=> w[2] = 0 /\ Spells(w, 2, c.digest)
          /\ OfLen(<<0>> \o c.digest, 1 + 32) /\ 1 + 32 \in Nat
      <3>1. 0 \in Byte /\ 32 \in Nat
        BY Tags, SmallSums, Zenon
      <3> QED BY <2>4, <3>1, SpellsType
    <2>6. Spells(w, 0, V \o (<<0>> \o c.digest))
            <=> w[1] = TUIC_PROTOCOL_VERSION /\ Spells(w, 1, <<0>> \o c.digest)
      BY <1>v, <2>5, Zenon
    <2> QED BY <2>2, <2>3, <2>5, <2>6, Zenon
  <1>3. CASE c.type = "connect" /\ IsAddress(c.addr)
    <2> DEFINE a == c.addr
               r == WriteAddress(a)
    <2>1. AddressLen(a) \in 4..259 /\ OfLen(r, AddressLen(a))
      BY <1>3, AddressLength
    <2>2. WriteToBuf(c) = V \o (<<1>> \o r)
      BY <1>3, Zenon DEF WriteToBuf, V
    <2>3. Before(c) = 2
      BY <1>3 DEF Before
    <2>4. CommandAt(w, c) <=> /\ w[1] = TUIC_PROTOCOL_VERSION
                              /\ w[2] = 1 /\ AddressAt(w, 2, a)
      BY <1>3, <2>3, Zenon DEF CommandAt, HeadAt
    <2>5. Spells(w, 2, r) <=> AddressAt(w, 2, a)
      <3>1. SerializedLen(c) = 2 + AddressLen(a)
        BY <1>3, Zenon DEF SerializedLen
      <3>2. HasBytes(w, 2, AddressLen(a))
        BY <1>b, <2>1, <3>1, CommandSums, Zenon
      <3> QED BY <1>3, <3>2, SpellsAddress, CommandSums, Zenon
    <2> HIDE DEF r
    <2>6. /\ Spells(w, 1, <<1>> \o r) <=> w[2] = 1 /\ Spells(w, 2, r)
          /\ OfLen(<<1>> \o r, 1 + AddressLen(a)) /\ 1 + AddressLen(a) \in Nat
      BY <2>1, SpellsType, Tags, CommandSums, ZenonT(40)
    <2>7. Spells(w, 0, V \o (<<1>> \o r))
            <=> w[1] = TUIC_PROTOCOL_VERSION /\ Spells(w, 1, <<1>> \o r)
      BY <1>v, <2>6, Zenon
    <2> QED BY <2>2, <2>4, <2>5, <2>6, <2>7, Zenon
  <1>4. CASE /\ c.type = "packet" /\ IsAddress(c.addr)
             /\ c.assoc_id \in U32 /\ c.len \in U16
    <2> DEFINE a == c.addr
               r == WriteAddress(a)
               id == PutU32(c.assoc_id)
               h == <<2>> \o id \o PutU16(c.len)
    <2>1. AddressLen(a) \in 4..259 /\ OfLen(r, AddressLen(a))
      BY <1>4, AddressLength
    <2>2. WriteToBuf(c) = V \o (h \o r)
      BY <1>4, Zenon DEF WriteToBuf, V
    <2>3. Before(c) = 8
      BY <1>4 DEF Before
    <2>4. CommandAt(w, c) <=> /\ w[1] = TUIC_PROTOCOL_VERSION
                              /\ w[2] = 2
                              /\ c.assoc_id = <<U16At(w, 2), U16At(w, 4)>>
                              /\ c.len = U16At(w, 6)
                              /\ AddressAt(w, 8, a)
      BY <1>4, <2>3, Zenon DEF CommandAt, HeadAt
    <2>5. HasBytes(w, 0, 2 + (6 + AddressLen(a)))
      BY <1>4, Zenon DEF SerializedLen
    <2>6. /\ HasBytes(w, 2, 4) /\ HasBytes(w, 1, (1 + 4) + 2)
          /\ HasBytes(w, 8, AddressLen(a))
      <3> DEFINE A == AddressLen(a)
      <3>1. A \in Nat
        BY <2>1
      <3>2. \A i \in 1..(2 + (6 + A)) : w[0 + i] \in Byte
        BY <2>5, Zenon DEF HasBytes
      <3> HIDE DEF A
      <3>3. \A i \in 1..4 : 2 + i \in 1..(2 + (6 + A)) /\ 0 + (2 + i) = 2 + i
        BY <3>1
      <3>4. \A i \in 1..((1 + 4) + 2) :
               1 + i \in 1..(2 + (6 + A)) /\ 0 + (1 + i) = 1 + i
        BY <3>1
      <3>5. \A i \in 1..A : 8 + i \in 1..(2 + (6 + A)) /\ 0 + (8 + i) = 8 + i
        BY <3>1
      <3> QED BY <3>2, <3>3, <3>4, <3>5, Zenon DEF HasBytes, A
    <2>7. Spells(w, 8, r) <=> AddressAt(w, 8, a)
      <3>1. 8 \in Nat
        OBVIOUS
      <3> QED BY <1>4, <2>6, <3>1, SpellsAddress, Zenon
    <2>8. Spells(w, 2, id) <=> c.assoc_id = <<U16At(w, 2), U16At(w, 4)>>
      <3>1. Spells(w, 2, id)
              <=> c.assoc_id = <<U16At(w, 2), U16At(w, 2 + 2)>>
        BY <1>4, <2>6, SpellsU32, CommandSums, ZenonT(40)
      <3> QED BY <3>1, CommandSums, Zenon
    <2>9. OfLen(id, 4)
      BY <1>4, PutU32Len, Zenon
    <2> HIDE DEF r, id
    <2>10. Spells(w, 1, h)
             <=> w[2] = 2 /\ Spells(w, 2, id) /\ c.len = U16At(w, 6)
      <3>1. 2 \in Byte /\ 1 \in Nat /\ 4 \in Nat
        BY Tags, SmallSums, Zenon
      <3>2. Spells(w, 1, h)
              <=> /\ w[1 + 1] = 2
                  /\ Spells(w, 1 + 1, id)
                  /\ c.len = U16At(w, 1 + (1 + 4))
        BY <1>4, <2>6, <2>9, <3>1, SpellsTaggedPort
      <3> QED BY <3>2, SmallSums, Zenon
    <2>11. OfLen(h, (1 + 4) + 2)
      BY <1>4, <2>9, TaggedPortLen, Tags, CommandSums, Zenon
    <2> HIDE DEF h
    <2>12. /\ Spells(w, 1, h \o r) <=> Spells(w, 1, h) /\ Spells(w, 8, r)
           /\ OfLen(h \o r, ((1 + 4) + 2) + AddressLen(a))
      <3>1. 1 + ((1 + 4) + 2) = 8 /\ 1 \in Nat
        BY SmallSums, Zenon
      <3>2. Spells(w, 1, h \o r)
              <=> Spells(w, 1, h) /\ Spells(w, 1 + ((1 + 4) + 2), r)
        BY <2>1, <2>11, <3>1, SpellsConcat, CommandSums, Zenon
      <3> QED BY <2>1, <2>11, <3>1, <3>2, ConcatLen, CommandSums, Zenon
    <2>13. Spells(w, 0, V \o (h \o r))
             <=> w[1] = TUIC_PROTOCOL_VERSION /\ Spells(w, 1, h \o r)
      BY <1>v, <2>1, <2>12, CommandSums, Zenon
    <2> QED BY <2>2, <2>4, <2>7, <2>8, <2>10, <2>12, <2>13, Zenon
  <1>5. CASE c \in [type : {"dissociate"}, assoc_id : U32]
    <2> DEFINE id == PutU32(c.assoc_id)
    <2>1. c.type = "dissociate" /\ c.assoc_id \in U32
      BY <1>5
    <2>2. WriteToBuf(c) = V \o (<<3>> \o id)
      BY <2>1, Zenon DEF WriteToBuf, V
    <2>3. CommandAt(w, c) <=> /\ w[1] = TUIC_PROTOCOL_VERSION
                              /\ w[2] = 3
                              /\ c.assoc_id = <<U16At(w, 2), U16At(w, 4)>>
      BY <2>1, Zenon DEF CommandAt, HeadAt
    <2>4. Spells(w, 2, id) <=> c.assoc_id = <<U16At(w, 2), U16At(w, 4)>>
      <3>1. HasBytes(w, 2, 4)
        BY <1>b, <2>1, CommandSums, Zenon DEF SerializedLen
      <3>2. Spells(w, 2, id)
              <=> c.assoc_id = <<U16At(w, 2), U16At(w, 2 + 2)>>
        BY <2>1, <3>1, SpellsU32, CommandSums, ZenonT(40)
      <3> QED BY <3>2, CommandSums, Zenon
    <2>5. OfLen(id, 4)
      BY <2>1, PutU32Len, Zenon
    <2> HIDE DEF id
    <2>6. /\ Spells(w, 1, <<3>> \o id) <=> w[2] = 3 /\ Spells(w, 2, id)
          /\ OfLen(<<3>> \o id, 1 + 4) /\ 1 + 4 \in Nat
      <3>1. 3 \in Byte /\ 4 \in Nat
        BY Tags, SmallSums, Zenon
      <3> QED BY <2>5, <3>1, SpellsType
    <2>7. Spells(w, 0, V \o (<<3>> \o id))
            <=> w[1] = TUIC_PROTOCOL_VERSION /\ Spells(w, 1, <<3>> \o id)
      BY <1>v, <2>6, Zenon
    <2> QED BY <2>2, <2>3, <2>4, <2>6, <2>7, Zenon
  <1>6. CASE c \in [type : {"heartbeat"}]
    <2>1. c.type = "heartbeat"
      BY <1>6
    <2>2. WriteToBuf(c) = V \o <<4>>
      BY <2>1, Zenon DEF WriteToBuf, V
    <2>3. CommandAt(w, c) <=> w[1] = TUIC_PROTOCOL_VERSION /\ w[2] = 4
      BY <2>1, Zenon DEF CommandAt, HeadAt
    <2>4. /\ OfLen(<<4>>, 1) /\ 1 \in Nat
          /\ Spells(w, 1, <<4>>) <=> w[2] = 4
      <3>1. OfLen(<<4>>, 1)
        BY Tags, TupleLen, Zenon
      <3>2. ASSUME NEW x
            PROVE  Spells(w, 1, <<x>>) <=> w[2] = x
        <4>1. Spells(w, 1, <<x>>) <=> w[1 + 1] = x
          BY SpellsTuple, ZenonT(40)
        <4> QED BY <4>1, SmallSums, Zenon
      <3> QED BY <3>1, <3>2, SmallSums, Zenon
    <2>5. Spells(w, 0, V \o <<4>>)
            <=> w[1] = TUIC_PROTOCOL_VERSION /\ Spells(w, 1, <<4>>)
      BY <1>v, <2>4, Zenon
    <2> QED BY <2>2, <2>3, <2>4, <2>5, Zenon
  <1>7. ASSUME c \in [type : {"packet"}, assoc_id : U32, len : U16,
                      addr : {c.addr}]
        PROVE  c.assoc_id \in U32 /\ c.len \in U16
    BY <1>7
  <1> QED BY <1>1, <1>2, <1>3, <1>4, <1>5, <1>6, <1>7, Zenon DEF IsCommand

-----------------------------------------------------------------------------
(***************************************************************************)
(* No bytes begin with the encodings of two commands.                      *)
(***************************************************************************)

\* What of an address is on the wire.
UnscopedAddress(a) == IF a.type = "v6" THEN [a EXCEPT !.scope = 0] ELSE a

\* Two sequences of one length spelled at the same place are the same.
LEMMA SpellsOneSequence ==
  ASSUME NEW w, NEW k, NEW n \in Nat, NEW s, OfLen(s, n), NEW t, OfLen(t, n),
         Spells(w, k, s), Spells(w, k, t)
  PROVE  s = t
  <1>1. s \in [1..n -> Byte] /\ t \in [1..n -> Byte]
    BY LenFunction, Zenon
  <1>2. \A i \in 1..n : s[i] = t[i]
    BY Zenon DEF Spells, OfLen
  <1> QED BY <1>1, <1>2

\* The bytes of a stream tell one address, but for the scope of an IPv6 one.
LEMMA OneAddress ==
  ASSUME NEW w, NEW k, NEW a, IsAddress(a), AddressAt(w, k, a),
         NEW b, IsAddress(b), AddressAt(w, k, b)
  PROVE  UnscopedAddress(a) = UnscopedAddress(b)
  <1>0. a.type = b.type /\ a.type \in {"domain", "v4", "v6"}
    BY DEF AddressAt
  <1>t. /\ a.type = "domain"
             => /\ a = [type |-> "domain", host |-> a.host, port |-> a.port]
                /\ a.host \in Seq(Byte)
        /\ a.type = "v4"
             => /\ a = [type |-> "v4", ip |-> a.ip, port |-> a.port]
                /\ a.ip \in [1..4 -> Byte]
        /\ a.type = "v6"
             => /\ a = [type |-> "v6", ip |-> a.ip, port |-> a.port,
                        scope |-> a.scope]
                /\ a.ip \in [1..8 -> U16]
    BY DEF IsAddress
  <1>u. /\ b.type = "domain"
             => /\ b = [type |-> "domain", host |-> b.host, port |-> b.port]
                /\ b.host \in Seq(Byte)
        /\ b.type = "v4"
             => /\ b = [type |-> "v4", ip |-> b.ip, port |-> b.port]
                /\ b.ip \in [1..4 -> Byte]
        /\ b.type = "v6"
             => /\ b = [type |-> "v6", ip |-> b.ip, port |-> b.port,
                        scope |-> b.scope]
                /\ b.ip \in [1..8 -> U16]
    BY DEF IsAddress
  <1>1. CASE a.type = "domain"
    <2>1. /\ Len(a.host) = Len(b.host) /\ a.port = b.port
          /\ Spells(w, k + 2, a.host) /\ Spells(w, k + 2, b.host)
      BY <1>0, <1>1 DEF AddressAt
    <2>2. a.host = b.host
      BY <1>0, <1>1, <1>t, <1>u, <2>1, BytesLen, SpellsOneSequence, Zenon
    <2>3. a = b
      BY <1>0, <1>1, <1>t, <1>u, <2>1, <2>2, Zenon
    <2> QED BY <2>3
  <1>2. CASE a.type = "v4"
    <2>1. /\ a.port = b.port
          /\ Spells(w, k + 1, a.ip) /\ Spells(w, k + 1, b.ip)
      BY <1>0, <1>2 DEF AddressAt
    <2>2. a.ip = b.ip
      BY <1>0, <1>2, <1>t, <1>u, <2>1, FunctionLen, SpellsOneSequence,
         SmallSums, Zenon
    <2>3. a = b
      BY <1>0, <1>2, <1>t, <1>u, <2>1, <2>2, Zenon
    <2> QED BY <2>3
  <1>3. CASE a.type = "v6"
    <2>1. a.port = b.port /\ \A j \in 1..8 : a.ip[j] = b.ip[j]
      BY <1>0, <1>3, Zenon DEF AddressAt
    <2>2. a.ip = b.ip
      BY <1>0, <1>3, <1>t, <1>u, <2>1
    <2>3. [a EXCEPT !.scope = 0]
            = [type |-> "v6", ip |-> a.ip, port |-> a.port, scope |-> 0]
      BY <1>3, <1>t
    <2>4. [b EXCEPT !.scope = 0]
            = [type |-> "v6", ip |-> b.ip, port |-> b.port, scope |-> 0]
      BY <1>0, <1>3, <1>u
    <2> QED BY <1>0, <1>3, <2>1, <2>2, <2>3, <2>4, Zenon DEF UnscopedAddress
  <1> QED BY <1>0, <1>1, <1>2, <1>3

\* What Unscoped keeps of a command: each of its fields.
LEMMA UnscopedFields ==
  ASSUME NEW c, IsCommand(c)
  PROVE  /\ c.type = "response"
              => /\ Unscoped(c) = [type |-> "response", ok |-> c.ok]
                 /\ c.ok \in BOOLEAN
         /\ c.type = "authenticate"
              => /\ Unscoped(c) = [type |-> "authenticate",
                                   digest |-> c.digest]
                 /\ c.digest \in [1..32 -> Byte]
         /\ c.type = "connect"
              => /\ Unscoped(c) = [type |-> "connect",
                                   addr |-> UnscopedAddress(c.addr)]
                 /\ IsAddress(c.addr)
         /\ c.type = "packet"
              => /\ Unscoped(c) = [type |-> "packet",
                                   assoc_id |-> c.assoc_id, len |-> c.len,
                                   addr |-> UnscopedAddress(c.addr)]
                 /\ IsAddress(c.addr)
         /\ c.type = "dissociate"
              => Unscoped(c) = [type |-> "dissociate",
                                assoc_id |-> c.assoc_id]
         /\ c.type = "heartbeat" => Unscoped(c) = [type |-> "heartbeat"]
         /\ c.type \in {"response", "authenticate", "connect", "packet",
                        "dissociate", "heartbeat"}
  <1>1. CASE c \in [type : {"response"}, ok : BOOLEAN]
    BY <1>1 DEF Unscoped
  <1>2. CASE c \in [type : {"authenticate"}, digest : [1..32 -> Byte]]
    BY <1>2 DEF Unscoped
  <1>3. CASE /\ c.type = "connect" /\ IsAddress(c.addr)
             /\ c \in [type : {"connect"}, addr : {c.addr}]
    BY <1>3 DEF Unscoped, UnscopedAddress
  <1>4. CASE /\ c.type = "packet" /\ IsAddress(c.addr)
             /\ c \in [type : {"packet"}, assoc_id : U32, len : U16,
                       addr : {c.addr}]
    BY <1>4 DEF Unscoped, UnscopedAddress
  <1>5. CASE c \in [type : {"dissociate"}, assoc_id : U32]
    BY <1>5 DEF Unscoped
  <1>6. CASE c \in [type : {"heartbeat"}]
    BY <1>6 DEF Unscoped
  <1> QED BY <1>1, <1>2, <1>3, <1>4, <1>5, <1>6, Zenon DEF IsCommand

\* The bytes of a stream tell one command, but for the scope of its address.
LEMMA OneCommand ==
  ASSUME NEW w, NEW c, IsCommand(c), CommandAt(w, c),
         NEW d, IsCommand(d), CommandAt(w, d)
  PROVE  Unscoped(c) = Unscoped(d)
  <1>0. /\ c.type = d.type
        /\ c.type \in {"response", "authenticate", "connect", "packet",
                       "dissociate", "heartbeat"}
    BY DEF CommandAt, HeadAt
  <1>1. CASE c.type = "response"
    <2>1. /\ w[3] = IF c.ok THEN 0 ELSE 255
          /\ w[3] = IF d.ok THEN 0 ELSE 255
      BY <1>0, <1>1 DEF CommandAt, HeadAt
    <2>2. c.ok \in BOOLEAN /\ d.ok \in BOOLEAN
      BY <1>0, <1>1, UnscopedFields, Zenon
    <2>3. c.ok = d.ok
      <3>1. 0 # 255
        OBVIOUS
      <3> QED BY <2>1, <2>2, <3>1, ZenonT(40)
    <2>c. Unscoped(c) = [type |-> "response", ok |-> c.ok]
      BY <1>0, <1>1, UnscopedFields, Zenon
    <2>d. Unscoped(d) = [type |-> "response", ok |-> d.ok]
      BY <1>0, <1>1, UnscopedFields, Zenon
    <2> QED BY <2>3, <2>c, <2>d, Zenon
  <1>2. CASE c.type = "authenticate"
    <2>1. Spells(w, 2, c.digest) /\ Spells(w, 2, d.digest)
      BY <1>0, <1>2 DEF CommandAt, HeadAt
    <2>2. c.digest \in [1..32 -> Byte] /\ d.digest \in [1..32 -> Byte]
      BY <1>0, <1>2, UnscopedFields, Zenon
    <2>3. c.digest = d.digest
      BY <2>1, <2>2, FunctionLen, SpellsOneSequence, SmallSums, Zenon
    <2>c. Unscoped(c) = [type |-> "authenticate", digest |-> c.digest]
      BY <1>0, <1>2, UnscopedFields, Zenon
    <2>d. Unscoped(d) = [type |-> "authenticate", digest |-> d.digest]
      BY <1>0, <1>2, UnscopedFields, Zenon
    <2> QED BY <2>3, <2>c, <2>d, Zenon
  <1>3. CASE c.type = "connect"
    <2>1. /\ AddressAt(w, Before(c), c.addr) /\ AddressAt(w, Before(d), d.addr)
          /\ Before(c) = Before(d)
      BY <1>0, <1>3, Zenon DEF CommandAt, HeadAt, Before
    <2>2. UnscopedAddress(c.addr) = UnscopedAddress(d.addr)
      BY <1>0, <1>3, <2>1, UnscopedFields, OneAddress, Zenon
    <2>c. Unscoped(c) = [type |-> "connect", addr |-> UnscopedAddress(c.addr)]
      BY <1>0, <1>3, UnscopedFields, Zenon
    <2>d. Unscoped(d) = [type |-> "connect", addr |-> UnscopedAddress(d.addr)]
      BY <1>0, <1>3, UnscopedFields, Zenon
    <2> QED BY <2>2, <2>c, <2>d, Zenon
  <1>4. CASE c.type = "packet"
    <2>1. /\ AddressAt(w, Before(c), c.addr) /\ AddressAt(w, Before(d), d.addr)
          /\ Before(c) = Before(d)
          /\ c.assoc_id = d.assoc_id /\ c.len = d.len
      BY <1>0, <1>4, Zenon DEF CommandAt, HeadAt, Before
    <2>2. UnscopedAddress(c.addr) = UnscopedAddress(d.addr)
      BY <1>0, <1>4, <2>1, UnscopedFields, OneAddress, ZenonT(40)
    <2>c. Unscoped(c) = [type |-> "packet", assoc_id |-> c.assoc_id,
                         len |-> c.len,
                         addr |-> UnscopedAddress(c.addr)]
      BY <1>0, <1>4, UnscopedFields, Zenon
    <2>d. Unscoped(d) = [type |-> "packet", assoc_id |-> d.assoc_id,
                         len |-> d.len,
                         addr |-> UnscopedAddress(d.addr)]
      BY <1>0, <1>4, UnscopedFields, Zenon
    <2> QED BY <2>1, <2>2, <2>c, <2>d, Zenon
  <1>5. CASE c.type = "dissociate"
    <2>1. c.assoc_id = d.assoc_id
      BY <1>0, <1>5 DEF CommandAt, HeadAt
    <2>c. Unscoped(c) = [type |-> "dissociate", assoc_id |-> c.assoc_id]
      BY <1>0, <1>5, UnscopedFields, Zenon
    <2>d. Unscoped(d) = [type |-> "dissociate", assoc_id |-> d.assoc_id]
      BY <1>0, <1>5, UnscopedFields, Zenon
    <2> QED BY <2>1, <2>c, <2>d, Zenon
  <1>6. CASE c.type = "heartbeat"
    BY <1>0, <1>6, UnscopedFields, ZenonT(40)
  <1> QED BY <1>0, <1>1, <1>2, <1>3, <1>4, <1>5, <1>6

\* What begins with the encoding of a command is spelled as CommandAt says.
LEMMA EncodingSpelled ==
  ASSUME NEW c, IsCommand(c), NEW s \in Seq(Byte)
  PROVE  CommandAt(WriteToBuf(c) \o s, c)
  <1> DEFINE e == WriteToBuf(c)
             n == SerializedLen(c)
             w == e \o s
  <1>1. OfLen(e, n)
    BY SerializedLength, Zenon
  <1>2. e \in Seq(Byte) /\ Len(e) = n
    BY <1>1, Zenon DEF OfLen
  <1> HIDE DEF e, n
  <1>3. \A i \in 1..n : w[0 + i] = e[i] /\ e[i] \in Byte
    BY <1>2
  <1> HIDE DEF w
  <1>4. HasBytes(w, 0, n) /\ Spells(w, 0, e)
    BY <1>2, <1>3, Zenon DEF HasBytes, Spells
  <1> QED BY <1>4, SpellsCommand, Zenon DEF e, n, w

\* The encoding is unambiguous: bytes that begin with the encodings of two
\* commands begin with those of one, but for the scope of an IPv6 address,
\* which is not on the wire.  So a reader that knows where a command begins
\* needs nothing else to know which one it is and where it ends.
THEOREM Unambiguous ==
  ASSUME NEW c, IsCommand(c), NEW d, IsCommand(d),
         NEW s \in Seq(Byte), NEW t \in Seq(Byte),
         WriteToBuf(c) \o s = WriteToBuf(d) \o t
  PROVE  Unscoped(c) = Unscoped(d)
  <1>1. /\ CommandAt(WriteToBuf(c) \o s, c)
        /\ CommandAt(WriteToBuf(c) \o s, d)
    BY EncodingSpelled, Zenon
  <1> QED BY <1>1, OneCommand, Zenon

-----------------------------------------------------------------------------
(***************************************************************************)
(* The bytes that read_from has seen at each of its reads.                 *)
(***************************************************************************)

Seen ==
    /\ at \notin {"version", "error"} => wire[1] = TUIC_PROTOCOL_VERSION
    /\ at = "response" => wire[2] = 255
    /\ at = "digest" => wire[2] = 0
    /\ at = "packet" => wire[2] = 2
    /\ at = "dissociate" => wire[2] = 3
    /\ at \in {"addr_type", "domain_len", "domain", "v4", "v6"}
          => HeadAt(wire, got)
    /\ at \in {"domain_len", "domain"} => wire[Before(got) + 1] = 0
    /\ at = "v4" => wire[Before(got) + 1] = 1
    /\ at = "v6" => wire[Before(got) + 1] = 2
    /\ at = "domain" => wire[Before(got) + 2] = want
    /\ at = "ok" => CommandAt(wire, got) /\ got = Unscoped(got)

\* read_exact gives the bytes that come next.
LEMMA SubSeqSpelled ==
  ASSUME TypeOK, NEW n \in Nat, arrived - pos >= n
  PROVE  Spells(wire, pos, SubSeq(wire, pos + 1, pos + n))
  <1>1. pos \in Nat
    BY DEF TypeOK
  <1>2. Len(SubSeq(wire, pos + 1, pos + n)) = n
    BY Taken DEF OfLen
  <1>3. \A i \in 1..n : SubSeq(wire, pos + 1, pos + n)[i] = wire[pos + i]
    <2>1. SubSeq(wire, pos + 1, pos + n)
            = [i \in 1..(pos + n - (pos + 1) + 1) |-> wire[pos + 1 + i - 1]]
      BY <1>1, SMT
    <2>2. pos + n - (pos + 1) + 1 = n
      BY <1>1
    <2>3. \A i \in 1..n : pos + 1 + i - 1 = pos + i
      BY <1>1
    <2> QED BY <2>1, <2>2, <2>3, ZenonT(40)
  <1> QED BY <1>2, <1>3, Zenon DEF Spells

\* A command whose last missing part, its address, has been read.
LEMMA CompleteSeen ==
  ASSUME NEW w, NEW g, Partial(g), NEW a, UnscopedAddress(a) = a,
         IsAddress(a), w[1] = TUIC_PROTOCOL_VERSION, HeadAt(w, g),
         AddressAt(w, Before(g), a)
  PROVE  /\ CommandAt(w, [g EXCEPT !.addr = a])
         /\ [g EXCEPT !.addr = a] = Unscoped([g EXCEPT !.addr = a])
  <1> DEFINE c == [g EXCEPT !.addr = a]
  <1>0. IsCommand(c)
    BY Complete
  <1>1. CASE g = [type |-> "connect", addr |-> NoAddress]
    <2>1. c = [type |-> "connect", addr |-> a]
      BY <1>1
    <2>2. c.type = "connect" /\ c.addr = a /\ Before(c) = 2
      BY <2>1 DEF Before
    <2>3. w[2] = 1 /\ AddressAt(w, 2, a)
      BY <1>1 DEF HeadAt, Before
    <2> HIDE DEF c
    <2>4. CommandAt(w, c)
      BY <2>2, <2>3, Zenon DEF CommandAt, HeadAt
    <2>5. Unscoped(c) = [type |-> "connect", addr |-> UnscopedAddress(c.addr)]
      BY <1>0, <2>2, UnscopedFields, Zenon
    <2>6. Unscoped(c) = c
      BY <2>1, <2>2, <2>5, Zenon
    <2> QED BY <2>4, <2>6 DEF c
  <1>2. ASSUME NEW id \in U32, NEW n \in U16,
               g = [type |-> "packet", assoc_id |-> id, len |-> n,
                    addr |-> NoAddress]
        PROVE  CommandAt(w, c) /\ c = Unscoped(c)
    <2>1. c = [type |-> "packet", assoc_id |-> id, len |-> n, addr |-> a]
      BY <1>2
    <2>2. /\ c.type = "packet" /\ c.addr = a /\ c.assoc_id = id /\ c.len = n
          /\ Before(c) = 8
      BY <2>1 DEF Before
    <2>3. g.type = "packet" /\ g.assoc_id = id /\ g.len = n /\ Before(g) = 8
      BY <1>2 DEF Before
    <2>4. /\ w[2] = 2 /\ AddressAt(w, 8, a)
          /\ id = <<U16At(w, 2), U16At(w, 4)>> /\ n = U16At(w, 6)
      <3>1. AddressAt(w, 8, a)
        BY <2>3, Zenon
      <3>2. "packet" # "connect"
        OBVIOUS
      <3>3. w[2] = 2 /\ id = <<U16At(w, 2), U16At(w, 4)>> /\ n = U16At(w, 6)
        BY <2>3, <3>2, Zenon DEF HeadAt
      <3> QED BY <3>1, <3>3
    <2> HIDE DEF c
    <2>5. CommandAt(w, c)
      BY <2>2, <2>4, ZenonT(40) DEF CommandAt, HeadAt
    <2>6. Unscoped(c) = [type |-> "packet", assoc_id |-> c.assoc_id,
                         len |-> c.len, addr |-> UnscopedAddress(c.addr)]
      BY <1>0, <2>2, UnscopedFields, Zenon
    <2>7. Unscoped(c) = c
      BY <2>1, <2>2, <2>6, Zenon
    <2> QED BY <2>5, <2>7
  <1> QED BY <1>1, <1>2 DEF Partial

\* The reads of Command::read_from keep Seen.
LEMMA ReadCommandSeen ==
  ASSUME IInv, Seen,
         \/ ReadVersion \/ ReadType \/ ReadResponse \/ ReadDigest
         \/ ReadPacket \/ ReadDissociate
  PROVE  Seen'
  <1>0. TypeOK /\ Position
    BY DEF IInv
  <1>1. CASE ReadVersion
    <2>1. pos = 0 /\ Byte1 = wire[pos + 1] /\ wire' = wire
      BY <1>0, <1>1, Zenon DEF ReadVersion, Take, Position, Byte1
    <2>2. Byte1 = wire[1]
      BY <2>1
    <2>3. \/ at' = "type" /\ wire[1] = TUIC_PROTOCOL_VERSION
          \/ at' = "error"
      BY <1>1, <2>2, Zenon DEF ReadVersion, Then
    <2> QED BY <2>1, <2>3, Zenon DEF Seen
  <1>2. CASE ReadType
    <2>1. /\ pos = 1 /\ wire' = wire /\ wire[1] = TUIC_PROTOCOL_VERSION
          /\ Byte1 = wire[pos + 1]
      BY <1>0, <1>2, Zenon DEF ReadType, Take, Position, Seen, Byte1
    <2>2. Byte1 = wire[2]
      BY <2>1
    <2>3. \/ at' = "response" /\ wire[2] = 255
          \/ at' = "digest" /\ wire[2] = 0
          \/ at' = "packet" /\ wire[2] = 2
          \/ at' = "dissociate" /\ wire[2] = 3
          \/ at' = "error"
          \/ /\ at' = "addr_type" /\ wire[2] = 1
             /\ got' = [type |-> "connect", addr |-> NoAddress]
          \/ at' = "ok" /\ wire[2] = 4 /\ got' = [type |-> "heartbeat"]
      BY <1>2, <2>2, ZenonT(40) DEF ReadType, Then
    <2>4. CASE at' \in {"response", "digest", "packet", "dissociate", "error"}
      BY <2>1, <2>3, <2>4 DEF Seen
    <2>5. CASE /\ at' = "addr_type" /\ wire[2] = 1
               /\ got' = [type |-> "connect", addr |-> NoAddress]
      <3>1. HeadAt(wire, got')
        BY <2>5 DEF HeadAt
      <3> QED BY <2>1, <2>5, <3>1, Zenon DEF Seen
    <2>6. CASE at' = "ok" /\ wire[2] = 4 /\ got' = [type |-> "heartbeat"]
      <3>1. CommandAt(wire, got') /\ got' = Unscoped(got')
        BY <2>1, <2>6 DEF CommandAt, Unscoped
      <3> QED BY <2>1, <2>6, <3>1, Zenon DEF Seen
    <2> QED BY <2>3, <2>4, <2>5, <2>6
  <1>3. CASE ReadResponse
    <2>1. /\ pos = 2 /\ wire' = wire /\ wire[1] = TUIC_PROTOCOL_VERSION
          /\ Byte1 = wire[pos + 1] /\ wire[2] = 255
      BY <1>0, <1>3, Zenon DEF ReadResponse, Take, Position, Seen, Byte1
    <2>2. Byte1 = wire[3]
      BY <2>1
    <2>3. \/ at' = "error"
          \/ /\ at' = "ok" /\ wire[3] \in {0, 255}
             /\ got' = [type |-> "response", ok |-> wire[3] = 0]
      BY <1>3, <2>2, Zenon DEF ReadResponse, Then
    <2>4. CASE at' = "error"
      BY <2>4, Zenon DEF Seen
    <2>5. CASE /\ at' = "ok" /\ wire[3] \in {0, 255}
               /\ got' = [type |-> "response", ok |-> wire[3] = 0]
      <3>1. got'.type = "response" /\ got'.ok = (wire[3] = 0)
        BY <2>5
      <3>2. wire[3] = IF got'.ok THEN 0 ELSE 255
        BY <2>5, <3>1, Zenon
      <3>3. CommandAt(wire, got')
        BY <2>1, <3>1, <3>2, Zenon DEF CommandAt
      <3>4. got' = Unscoped(got')
        BY <3>1 DEF Unscoped
      <3> QED BY <2>1, <2>5, <3>3, <3>4, Zenon DEF Seen
    <2> QED BY <2>3, <2>4, <2>5
  <1>4. CASE ReadDigest
    <2> DEFINE d == SubSeq(wire, pos + 1, pos + 32)
    <2>1. /\ pos = 2 /\ wire' = wire /\ wire[1] = TUIC_PROTOCOL_VERSION
          /\ wire[2] = 0 /\ Need = 32 /\ arrived - pos >= Need
      BY <1>0, <1>4, Needs, Zenon DEF ReadDigest, Take, Position, Seen
    <2>2. at' = "ok" /\ got' = [type |-> "authenticate", digest |-> d]
      BY <1>4 DEF ReadDigest, Then
    <2>3. Spells(wire, 2, d)
      <3>1. Spells(wire, pos, d)
        BY <1>0, <2>1, SubSeqSpelled, SmallSums, Zenon
      <3> QED BY <2>1, <3>1, Zenon
    <2> HIDE DEF d
    <2>4. got'.type = "authenticate" /\ got'.digest = d
      BY <2>2
    <2>5. CommandAt(wire, got')
      BY <2>1, <2>3, <2>4, Zenon DEF CommandAt
    <2>6. got' = Unscoped(got')
      BY <2>4 DEF Unscoped
    <2> QED BY <2>1, <2>2, <2>5, <2>6, Zenon DEF Seen
  <1>5. ASSUME pos = 2
        PROVE  /\ ReadU16(1) = U16At(wire, 2) /\ ReadU16(3) = U16At(wire, 4)
               /\ ReadU16(5) = U16At(wire, 6)
    BY <1>5 DEF ReadU16, U16At
  <1>6. CASE ReadPacket
    <2>1. /\ pos = 2 /\ wire' = wire /\ wire[1] = TUIC_PROTOCOL_VERSION
          /\ wire[2] = 2
      BY <1>0, <1>6, Zenon DEF ReadPacket, Take, Position, Seen
    <2>2. /\ at' = "addr_type"
          /\ got' = [type |-> "packet",
                     assoc_id |-> <<U16At(wire, 2), U16At(wire, 4)>>,
                     len |-> U16At(wire, 6), addr |-> NoAddress]
      BY <1>5, <1>6, <2>1, Zenon DEF ReadPacket, Then
    <2>3. HeadAt(wire, got')
      <3> HIDE DEF U16At
      <3>1. /\ got'.type = "packet" /\ got'.len = U16At(wire, 6)
            /\ got'.assoc_id = <<U16At(wire, 2), U16At(wire, 4)>>
        BY <2>2
      <3> QED BY <2>1, <3>1, Zenon DEF HeadAt
    <2> QED BY <2>1, <2>2, <2>3, Zenon DEF Seen
  <1>7. CASE ReadDissociate
    <2>1. /\ pos = 2 /\ wire' = wire /\ wire[1] = TUIC_PROTOCOL_VERSION
          /\ wire[2] = 3
      BY <1>0, <1>7, Zenon DEF ReadDissociate, Take, Position, Seen
    <2>2. /\ at' = "ok"
          /\ got' = [type |-> "dissociate",
                     assoc_id |-> <<U16At(wire, 2), U16At(wire, 4)>>]
      BY <1>5, <1>7, <2>1, Zenon DEF ReadDissociate, Then
    <2>3. /\ got'.type = "dissociate"
          /\ got'.assoc_id = <<U16At(wire, 2), U16At(wire, 4)>>
      BY <2>2
    <2>4. CommandAt(wire, got')
      BY <2>1, <2>3, Zenon DEF CommandAt
    <2>5. got' = Unscoped(got')
      BY <2>3 DEF Unscoped
    <2> QED BY <2>1, <2>2, <2>4, <2>5, Zenon DEF Seen
  <1> QED BY <1>1, <1>2, <1>3, <1>4, <1>6, <1>7

\* The reads of Address::read_from keep Seen.
LEMMA ReadAddressSeen ==
  ASSUME IInv, Seen,
         ReadAddrType \/ ReadDomainLen \/ ReadDomain \/ ReadV4 \/ ReadV6
  PROVE  Seen'
  <1> DEFINE k == Before(got)
  <1>0. TypeOK /\ Position /\ want \in Nat /\ k \in Nat
    BY DEF IInv, TypeOK, Byte, Before
  <1>w. wire' = wire
    BY Zenon DEF ReadAddrType, ReadDomainLen, ReadDomain, ReadV4, ReadV6, Take
  <1>h. /\ wire[1] = TUIC_PROTOCOL_VERSION
        /\ HeadAt(wire, got) /\ Partial(got)
    <2>1. at \in {"addr_type", "domain_len", "domain", "v4", "v6"}
      BY Zenon
      DEF ReadAddrType, ReadDomainLen, ReadDomain, ReadV4, ReadV6, Take
    <2>2. at \notin {"version", "error"}
      BY <2>1
    <2> QED BY <1>0, <2>1, <2>2, Zenon DEF Seen, Position
  <1> HIDE DEF k
  <1>1. CASE ReadAddrType
    <2>1. pos = k /\ Byte1 = wire[k + 1] /\ got' = got
      BY <1>0, <1>1, Zenon DEF ReadAddrType, Take, Position, Byte1, Then, k
    <2>2. \/ at' = "domain_len" /\ wire[k + 1] = 0
          \/ at' = "v4" /\ wire[k + 1] = 1
          \/ at' = "v6" /\ wire[k + 1] = 2
          \/ at' = "error"
      <3>1. \/ at' = "domain_len" /\ Byte1 = 0
            \/ at' = "v4" /\ Byte1 = 1
            \/ at' = "v6" /\ Byte1 = 2
            \/ at' = "error"
        BY <1>1 DEF ReadAddrType, Then
      <3> QED BY <2>1, <3>1, Zenon
    <2> QED BY <1>w, <1>h, <2>1, <2>2, Zenon DEF Seen, k
  <1>2. CASE ReadDomainLen
    <2>1. /\ pos = k + 1 /\ Byte1 = wire[(k + 1) + 1] /\ got' = got
          /\ at' = "domain" /\ want' = Byte1 /\ wire[k + 1] = 0
      BY <1>0, <1>2, Zenon
      DEF ReadDomainLen, Take, Position, Byte1, Then, Seen, k
    <2>2. want' = wire[k + 2]
      <3>1. (k + 1) + 1 = k + 2
        BY <1>0
      <3> QED BY <2>1, <3>1, Zenon
    <2> QED BY <1>w, <1>h, <2>1, <2>2, Zenon DEF Seen, k
  <1>3. ASSUME NEW a, UnscopedAddress(a) = a, AddressAt(wire, k, a),
               at' = "ok", got' = [got EXCEPT !.addr = a]
        PROVE  Seen'
    <2>1. IsCommand(got')
      BY <1>3, ReadAddressInv DEF IInv, TypeOK
    <2>2. got'.addr = a /\ got'.type \in {"connect", "packet"}
      BY <1>h, <1>3 DEF Partial
    <2>3. IsAddress(a)
      <3>1. CASE got'.type = "connect"
        BY <2>1, <2>2, <3>1, UnscopedFields, Zenon
      <3>2. CASE got'.type = "packet"
        BY <2>1, <2>2, <3>2, UnscopedFields, Zenon
      <3> QED BY <2>2, <3>1, <3>2
    <2>4. CommandAt(wire, got') /\ got' = Unscoped(got')
      <3> DEFINE c == [got EXCEPT !.addr = a]
      <3>1. AddressAt(wire, Before(got), a)
        BY <1>3 DEF k
      <3>2. CommandAt(wire, c) /\ c = Unscoped(c)
        BY <1>h, <1>3, <2>3, <3>1, CompleteSeen, ZenonT(40)
      <3> HIDE DEF c
      <3>3. got' = c
        BY <1>3 DEF c
      <3> QED BY <3>2, <3>3, Zenon
    <2> QED BY <1>w, <1>h, <1>3, <2>4, Zenon DEF Seen
  <1>4. ASSUME NEW i \in Nat
        PROVE  ReadU16(i + 1) = U16At(wire, pos + i)
    <2>1. pos \in Nat
      BY <1>0 DEF TypeOK
    <2>2. pos + (i + 1) = (pos + i) + 1 /\ pos + (i + 1) + 1 = (pos + i) + 2
      BY <2>1
    <2> QED BY <2>2 DEF ReadU16, U16At
  <1>5. CASE ReadDomain
    <2> DEFINE host == SubSeq(wire, pos + 1, pos + want)
               a == [type |-> "domain", host |-> host,
                     port |-> ReadU16(want + 1)]
    <2>1. /\ pos = k + 2 /\ Need = want + 2 /\ arrived - pos >= Need
          /\ wire[k + 1] = 0 /\ wire[k + 2] = want
      BY <1>0, <1>5, Needs, Zenon DEF ReadDomain, Take, Position, Seen, k
    <2>2. \/ at' = "error"
          \/ at' = "ok" /\ got' = [got EXCEPT !.addr = a]
      BY <1>5, Zenon DEF ReadDomain, Then
    <2>3. Spells(wire, k + 2, host) /\ OfLen(host, want)
      <3>1. arrived \in Nat /\ pos \in Nat
        BY <1>0 DEF TypeOK
      <3>2. arrived - pos >= want /\ want \in 0..want
        BY <1>0, <2>1, <3>1
      <3>3. Spells(wire, pos, host) /\ OfLen(host, want)
        BY <1>0, <3>2, SubSeqSpelled, Taken, Zenon
      <3> QED BY <2>1, <3>3, Zenon
    <2>4. ReadU16(want + 1) = U16At(wire, k + (2 + want))
      <3>1. pos + want = k + (2 + want)
        BY <1>0, <2>1
      <3> QED BY <1>0, <1>4, <3>1, Zenon
    <2> HIDE DEF host
    <2>5. CASE at' = "error"
      BY <2>5, Zenon DEF Seen
    <2>6. CASE at' = "ok" /\ got' = [got EXCEPT !.addr = a]
      <3>1. /\ a.type = "domain" /\ a.host = host
            /\ a.port = U16At(wire, k + (2 + want))
        BY <2>4
      <3>3. Len(a.host) = want
        BY <2>3, <3>1, Zenon DEF OfLen
      <3>4. AddressAt(wire, k, a)
        BY <2>1, <2>3, <3>1, <3>3, Zenon DEF AddressAt
      <3>5. UnscopedAddress(a) = a
        BY <3>1 DEF UnscopedAddress
      <3> QED BY <1>3, <2>6, <3>4, <3>5, Zenon
    <2> QED BY <2>2, <2>5, <2>6
  <1>6. CASE ReadV4
    <2> DEFINE ip == SubSeq(wire, pos + 1, pos + 4)
               a == [type |-> "v4", ip |-> ip, port |-> ReadU16(4 + 1)]
    <2>1. /\ pos = k + 1 /\ Need = 6 /\ arrived - pos >= Need
          /\ wire[k + 1] = 1
      BY <1>0, <1>6, Needs, Zenon DEF ReadV4, Take, Position, Seen, k
    <2>2. at' = "ok" /\ got' = [got EXCEPT !.addr = a]
      <3>1. 4 + 1 = 5
        OBVIOUS
      <3> QED BY <1>6, <3>1, Zenon DEF ReadV4, Then
    <2>3. Spells(wire, k + 1, ip)
      <3>1. arrived \in Nat /\ pos \in Nat
        BY <1>0 DEF TypeOK
      <3>2. arrived - pos >= 4
        BY <2>1, <3>1
      <3>3. Spells(wire, pos, ip)
        BY <1>0, <3>2, SubSeqSpelled, SmallSums, Zenon
      <3> QED BY <2>1, <3>3, Zenon
    <2>4. ReadU16(4 + 1) = U16At(wire, k + (1 + 4))
      <3>1. pos + 4 = k + (1 + 4)
        BY <1>0, <2>1
      <3> QED BY <1>4, <3>1, SmallSums, Zenon
    <2> HIDE DEF ip
    <2>5. /\ a.type = "v4" /\ a.ip = ip
          /\ a.port = U16At(wire, k + (1 + 4))
      BY <2>4
    <2>6. AddressAt(wire, k, a)
      BY <2>1, <2>3, <2>5, Zenon DEF AddressAt
    <2>7. UnscopedAddress(a) = a
      BY <2>5 DEF UnscopedAddress
    <2> QED BY <1>3, <2>2, <2>6, <2>7, Zenon
  <1>7. CASE ReadV6
    <2> DEFINE ip == [i \in 1..8 |-> ReadU16(2 * i - 1)]
               a == [type |-> "v6", ip |-> ip, port |-> ReadU16(16 + 1),
                     scope |-> 0]
    <2>1. pos = k + 1 /\ wire[k + 1] = 2
      BY <1>0, <1>7, Zenon DEF ReadV6, Take, Position, Seen, k
    <2>2. at' = "ok" /\ got' = [got EXCEPT !.addr = a]
      <3>1. 16 + 1 = 17
        OBVIOUS
      <3> QED BY <1>7, <3>1, Zenon DEF ReadV6, Then
    <2>3. ASSUME NEW j \in 1..8
          PROVE  ip[j] = U16At(wire, k + 1 + 2 * j - 2)
      <3>1. /\ 2 * j - 2 \in Nat /\ (2 * j - 2) + 1 = 2 * j - 1
            /\ (k + 1) + (2 * j - 2) = k + 1 + 2 * j - 2
        BY <1>0
      <3>2. ReadU16((2 * j - 2) + 1) = U16At(wire, pos + (2 * j - 2))
        BY <1>4, <3>1, Zenon
      <3>3. ip[j] = ReadU16(2 * j - 1)
        OBVIOUS
      <3> HIDE DEF ip
      <3> QED BY <2>1, <3>1, <3>2, <3>3, Zenon
    <2>4. ReadU16(16 + 1) = U16At(wire, k + (1 + 16))
      <3>1. pos + 16 = k + (1 + 16) /\ 16 \in Nat
        BY <1>0, <2>1
      <3> QED BY <1>4, <3>1, Zenon
    <2> HIDE DEF ip
    <2>5. /\ a.type = "v6" /\ a.ip = ip
          /\ a.port = U16At(wire, k + (1 + 16))
      BY <2>4
    <2>6. AddressAt(wire, k, a)
      BY <2>1, <2>3, <2>5, Zenon DEF AddressAt
    <2>7. UnscopedAddress(a) = a
      BY DEF UnscopedAddress
    <2> QED BY <1>3, <2>2, <2>6, <2>7, Zenon
  <1> QED BY <1>1, <1>2, <1>5, <1>6, <1>7

\* Every step keeps what has been seen of the stream.
LEMMA StepSeen == IInv /\ Seen /\ [Next]_vars => Seen'
  <1> SUFFICES ASSUME IInv, Seen, [Next]_vars
               PROVE  Seen'
    OBVIOUS
  <1>1. CASE Deliver \/ Finish \/ UNCHANGED vars
    <2>1. wire' = wire /\ at' = at /\ got' = got /\ want' = want
      BY <1>1 DEF Deliver, Finish, vars
    <2> QED BY <2>1, ZenonT(40) DEF Seen
  <1>2. CASE ReadFrom
    BY <1>2, ReadCommandSeen, ReadAddressSeen, Zenon DEF ReadFrom
  <1>3. CASE UnexpectedEof
    BY <1>3 DEF UnexpectedEof, Seen
  <1> QED BY <1>1, <1>2, <1>3 DEF Next

\* While its address is read, a command that is on the wire and what was read
\* of it agree on where the address begins.
LEMMA AddressAwaited ==
  ASSUME IInv, Seen, CommandAt(wire, sent),
         at \in {"addr_type", "domain_len", "domain", "v4", "v6"}
  PROVE  /\ IsAddress(sent.addr)
         /\ AddressAt(wire, Before(got), sent.addr)
         /\ SerializedLen(sent) = Before(got) + AddressLen(sent.addr)
         /\ AddressLen(sent.addr) \in 4..259
         /\ Before(got) \in Nat
  <1>1. IsCommand(sent) /\ HeadAt(wire, got)
    BY CodecAssumption, Zenon DEF IInv, TypeOK, Seen
  <1>2. /\ sent.type = got.type /\ got.type \in {"connect", "packet"}
        /\ AddressAt(wire, Before(sent), sent.addr)
    BY <1>1 DEF CommandAt, HeadAt
  <1>3. Before(sent) = Before(got) /\ Before(got) \in Nat
    BY <1>2 DEF Before
  <1>4. IsAddress(sent.addr)
    BY <1>1, <1>2, UnscopedFields, Zenon
  <1>5. AddressLen(sent.addr) \in 4..259
    BY <1>4, AddressLength, Zenon
  <1> DEFINE A == AddressLen(sent.addr)
  <1>6. SerializedLen(sent) = Before(got) + A
    <2>1. CASE got.type = "connect"
      <3>1. SerializedLen(sent) = 2 + A /\ Before(got) = 2
        BY <1>2, <2>1 DEF SerializedLen, Before
      <3> QED BY <3>1, Zenon
    <2>2. CASE got.type = "packet"
      <3>1. SerializedLen(sent) = 2 + (6 + A) /\ Before(got) = 8
        BY <1>2, <2>2, Zenon DEF SerializedLen, Before
      <3>2. A \in Nat
        BY <1>5
      <3> HIDE DEF A
      <3>3. 2 + (6 + A) = 8 + A
        BY <3>2
      <3> QED BY <3>1, <3>3, Zenon
    <2> QED BY <1>2, <2>1, <2>2
  <1> QED BY <1>2, <1>3, <1>4, <1>5, <1>6, Zenon

\* read_from never waits for bytes that are not of the command on the wire.
LEMMA Awaited ==
  ASSUME IInv, Seen, CommandAt(wire, sent), at \notin {"ok", "error"}
  PROVE  pos + Need <= SerializedLen(sent)
  <1> DEFINE n == SerializedLen(sent)
  <1>0. /\ IsCommand(sent) /\ TypeOK /\ Position /\ want \in Nat
        /\ at \in Stage
    BY CodecAssumption DEF IInv, TypeOK, Byte
  <1>1. CASE at \in {"version", "type"}
    <2>1. pos \in {0, 1} /\ Need = 1
      BY <1>0, <1>1, Needs DEF Position
    <2>2. n \in Nat /\ n >= 2
      <3>1. ASSUME IsAddress(sent.addr) PROVE AddressLen(sent.addr) \in Nat
        BY <3>1, AddressLength, CommandSums, Zenon
      <3> QED BY <1>0, <3>1 DEF IsCommand, SerializedLen
    <2> HIDE DEF n
    <2> QED BY <2>1, <2>2 DEF n
  <1>2. CASE at = "response"
    <2>1. pos = 2 /\ Need = 1 /\ wire[2] = 255
      BY <1>0, <1>2, Needs, Zenon DEF Position, Seen
    <2>2. n = 2 + 1
      BY <2>1 DEF CommandAt, HeadAt, SerializedLen
    <2> QED BY <2>1, <2>2
  <1>3. CASE at = "digest"
    <2>1. pos = 2 /\ Need = 32 /\ wire[2] = 0
      BY <1>0, <1>3, Needs, Zenon DEF Position, Seen
    <2>2. n = 2 + 32
      BY <2>1 DEF CommandAt, HeadAt, SerializedLen
    <2> QED BY <2>1, <2>2
  <1>4. CASE at = "packet"
    <2>1. pos = 2 /\ Need = 6 /\ wire[2] = 2
      BY <1>0, <1>4, Needs, Zenon DEF Position, Seen
    <2>2. sent.type = "packet"
      BY <2>1 DEF CommandAt, HeadAt
    <2>3. n = 2 + (6 + AddressLen(sent.addr))
      BY <2>2, Zenon DEF SerializedLen
    <2>4. AddressLen(sent.addr) \in Nat
      BY <1>0, <2>2, UnscopedFields, AddressLength, CommandSums, Zenon
    <2> QED BY <2>1, <2>3, <2>4
  <1>5. CASE at = "dissociate"
    <2>1. pos = 2 /\ Need = 4 /\ wire[2] = 3
      BY <1>0, <1>5, Needs, Zenon DEF Position, Seen
    <2>2. n = 2 + 4
      BY <2>1 DEF CommandAt, HeadAt, SerializedLen
    <2> QED BY <2>1, <2>2
  <1>6. CASE at \in {"addr_type", "domain_len", "domain", "v4", "v6"}
    <2> DEFINE a == sent.addr
               k == Before(got)
               A == AddressLen(a)
    <2>1. /\ IsAddress(a) /\ AddressAt(wire, k, a) /\ n = k + A
          /\ A \in 4..259 /\ k \in Nat
      BY <1>6, AddressAwaited, Zenon
    <2> HIDE DEF n, k
    <2>2. CASE at = "addr_type"
      <3>1. pos = k /\ Need = 1
        BY <1>0, <2>2, Needs, Zenon DEF Position, k
      <3> HIDE DEF A
      <3> QED BY <2>1, <3>1 DEF n
    <2>3. CASE at = "domain_len"
      <3>1. pos = k + 1 /\ Need = 1
        BY <1>0, <2>3, Needs, Zenon DEF Position, k
      <3> HIDE DEF A
      <3> QED BY <2>1, <3>1 DEF n
    <2>4. CASE at = "domain"
      <3>1. /\ pos = k + 2 /\ Need = want + 2
            /\ wire[k + 1] = 0 /\ wire[k + 2] = want
        BY <1>0, <2>4, Needs, ZenonT(40) DEF Position, Seen, k
      <3>2. a.type = "domain" /\ Len(a.host) = want
        BY <2>1, <3>1 DEF AddressAt
      <3>3. A = 1 + (1 + want + 2)
        BY <3>2, Zenon DEF AddressLen
      <3> HIDE DEF A
      <3> QED BY <1>0, <2>1, <3>1, <3>3 DEF n
    <2>5. CASE at = "v4"
      <3>1. pos = k + 1 /\ Need = 6 /\ wire[k + 1] = 1
        BY <1>0, <2>5, Needs, ZenonT(40) DEF Position, Seen, k
      <3>2. a.type = "v4"
        BY <2>1, <3>1 DEF AddressAt
      <3>3. A = 1 + 6
        BY <3>2, Zenon DEF AddressLen
      <3> HIDE DEF A
      <3> QED BY <2>1, <3>1, <3>3 DEF n
    <2>6. CASE at = "v6"
      <3>1. pos = k + 1 /\ Need = 18 /\ wire[k + 1] = 2
        BY <1>0, <2>6, Needs, ZenonT(40) DEF Position, Seen, k
      <3>2. a.type = "v6"
        BY <2>1, <3>1 DEF AddressAt
      <3>3. A = 1 + 18
        BY <3>2, Zenon DEF AddressLen
      <3> HIDE DEF A
      <3> QED BY <2>1, <3>1, <3>3 DEF n
    <2> QED BY <1>6, <2>2, <2>3, <2>4, <2>5, <2>6
  <1> QED BY <1>0, <1>1, <1>2, <1>3, <1>4, <1>5, <1>6 DEF Stage

\* read_from rejects no byte of the command on the wire.
LEMMA NothingRejected ==
  ASSUME IInv, Seen, CommandAt(wire, sent), ReadFrom
  PROVE  at' # "error"
  <1>0. IsCommand(sent) /\ TypeOK /\ Position /\ want \in Nat
    BY CodecAssumption DEF IInv, TypeOK, Byte
  <1>1. CASE ReadVersion
    <2>1. pos = 0 /\ Byte1 = wire[pos + 1]
      BY <1>0, <1>1, Zenon DEF ReadVersion, Take, Position, Byte1
    <2>2. Byte1 = wire[1]
      BY <2>1
    <2>3. wire[1] = TUIC_PROTOCOL_VERSION
      BY Zenon DEF CommandAt
    <2>4. at' = "type"
      BY <1>1, <2>2, <2>3, Zenon DEF ReadVersion, Then
    <2> QED BY <2>4
  <1>2. CASE ReadType
    <2>1. pos = 1 /\ Byte1 = wire[pos + 1]
      BY <1>0, <1>2, Zenon DEF ReadType, Take, Position, Byte1
    <2>2. Byte1 = wire[2]
      BY <2>1
    <2>3. wire[2] \in {0, 1, 2, 3, 4, 255}
      BY DEF CommandAt, HeadAt
    <2>4. at' \in {"response", "digest", "addr_type", "packet", "dissociate",
                   "ok"}
      BY <1>2, <2>2, <2>3, Zenon DEF ReadType, Then
    <2> QED BY <2>4
  <1>3. CASE ReadResponse
    <2>1. pos = 2 /\ Byte1 = wire[pos + 1] /\ wire[2] = 255
      BY <1>0, <1>3, Zenon DEF ReadResponse, Take, Position, Byte1, Seen
    <2>2. Byte1 = wire[3]
      BY <2>1
    <2>3. wire[3] \in {0, 255}
      BY <2>1 DEF CommandAt, HeadAt
    <2>4. at' = "ok"
      BY <1>3, <2>2, <2>3, Zenon DEF ReadResponse, Then
    <2> QED BY <2>4
  <1>4. CASE ReadDigest \/ ReadPacket \/ ReadDissociate
    BY <1>4 DEF ReadDigest, ReadPacket, ReadDissociate, Then
  <1> DEFINE a == sent.addr
             k == Before(got)
  <1>5. ASSUME at \in {"addr_type", "domain_len", "domain", "v4", "v6"}
        PROVE  IsAddress(a) /\ AddressAt(wire, k, a)
    BY <1>5, AddressAwaited, Zenon
  <1>6. CASE ReadAddrType
    <2>1. at = "addr_type" /\ pos = k /\ Byte1 = wire[k + 1]
      BY <1>0, <1>6, ZenonT(40) DEF ReadAddrType, Take, Position, Byte1
    <2>2. wire[k + 1] \in {0, 1, 2}
      BY <1>5, <2>1 DEF AddressAt
    <2>3. at' \in {"domain_len", "v4", "v6"}
      BY <1>6, <2>1, <2>2 DEF ReadAddrType, Then
    <2> QED BY <2>3
  <1>7. CASE ReadDomainLen \/ ReadV4 \/ ReadV6
    BY <1>7 DEF ReadDomainLen, ReadV4, ReadV6, Then
  <1>8. CASE ReadDomain
    <2> DEFINE host == SubSeq(wire, pos + 1, pos + want)
    <2>1. /\ at = "domain" /\ pos = k + 2 /\ Need = want + 2
          /\ arrived - pos >= Need
          /\ wire[k + 1] = 0 /\ wire[k + 2] = want
      BY <1>0, <1>8, Needs, Zenon DEF ReadDomain, Take, Position, Seen
    <2>2. IsAddress(a) /\ AddressAt(wire, k, a)
      BY <1>5, <2>1
    <2>3. /\ a.type = "domain"
          /\ Len(a.host) = want
          /\ Spells(wire, k + 2, a.host)
      BY <2>1, <2>2 DEF AddressAt
    <2>4. a.host \in Seq(Byte) /\ Utf8(a.host)
      BY <2>2, <2>3 DEF IsAddress
    <2>5. Spells(wire, k + 2, host) /\ OfLen(host, want)
      <3>1. arrived \in Nat /\ pos \in Nat
        BY <1>0 DEF TypeOK
      <3>2. arrived - pos >= want /\ want \in 0..want
        BY <1>0, <2>1, <3>1
      <3>3. Spells(wire, pos, host) /\ OfLen(host, want)
        BY <1>0, <3>2, SubSeqSpelled, Taken, Zenon
      <3> QED BY <2>1, <3>3, Zenon
    <2> HIDE DEF host
    <2>6. host = a.host
      <3>1. OfLen(a.host, want)
        BY <2>3, <2>4, Zenon DEF OfLen
      <3> QED BY <1>0, <2>3, <2>5, <3>1, SpellsOneSequence, Zenon
    <2>7. Utf8(host)
      BY <2>4, <2>6, Zenon
    <2>8. at' = "ok"
      BY <1>8, <2>7, Zenon DEF ReadDomain, Then, host
    <2> QED BY <2>8
  <1> QED BY <1>1, <1>2, <1>3, <1>4, <1>6, <1>7, <1>8 DEF ReadFrom

\* An error on a command that is on the wire is a stream that ended inside it.
ErrorExplained ==
    at = "error" /\ CommandAt(wire, sent)
        => eof /\ arrived < SerializedLen(sent)

\* read_from reports an error on a command only when the stream ends short of
\* the length of that command.
LEMMA StepErrorExplained ==
  IInv /\ Seen /\ ErrorExplained /\ [Next]_vars => ErrorExplained'
  <1> SUFFICES ASSUME IInv, Seen, ErrorExplained, [Next]_vars,
                      at' = "error", CommandAt(wire', sent')
               PROVE  eof' /\ arrived' < SerializedLen(sent')
    BY DEF ErrorExplained
  <1>1. wire' = wire /\ sent' = sent
    BY DEF Next, Deliver, Finish, ReadFrom, ReadVersion, ReadType,
       ReadResponse, ReadDigest, ReadPacket, ReadDissociate, ReadAddrType,
       ReadDomainLen, ReadDomain, ReadV4, ReadV6, Take, UnexpectedEof, vars
  <1>2. CommandAt(wire, sent)
    BY <1>1
  <1>3. CASE Deliver
    BY <1>1, <1>2, <1>3 DEF Deliver, ErrorExplained
  <1>4. CASE Finish \/ UNCHANGED vars
    BY <1>1, <1>2, <1>4 DEF Finish, vars, ErrorExplained
  <1>5. CASE ReadFrom
    BY <1>2, <1>5, NothingRejected
  <1>6. CASE UnexpectedEof
    <2>1. /\ at \notin {"ok", "error"} /\ eof' /\ arrived' = arrived
          /\ arrived - pos < Need
      BY <1>6 DEF UnexpectedEof
    <2>2. pos + Need <= SerializedLen(sent)
      BY <1>2, <2>1, Awaited
    <2>3. arrived \in Nat /\ pos \in Nat /\ Need \in Nat
      <3>1. want + 2 \in Nat
        BY DEF IInv, TypeOK, Byte
      <3> QED BY <3>1 DEF IInv, TypeOK, Need
    <2>4. SerializedLen(sent) \in Nat
      <3>1. IsCommand(sent)
        BY CodecAssumption DEF IInv, TypeOK
      <3>2. OfLen(WriteToBuf(sent), SerializedLen(sent))
        BY <3>1, SerializedLength, Zenon
      <3> QED BY <3>2, BytesLen, Zenon DEF OfLen
    <2> QED BY <1>1, <2>1, <2>2, <2>3, <2>4
  <1> QED BY <1>3, <1>4, <1>5, <1>6 DEF Next

\* The bytes read at each read of read_from, and what follows: why a command
\* that was read is the one on the wire, and why none is rejected.
SeenInv == IInv /\ Seen /\ ErrorExplained

\* In every reachable state read_from has seen in the stream exactly the fields
\* it holds, and an error on a stream that starts with a command means that the
\* stream ended too early.
THEOREM SeenInvariant == Spec => []SeenInv
  <1>1. Init => SeenInv
    <2>1. Init => Seen /\ ErrorExplained
      BY DEF Init, Seen, ErrorExplained
    <2> QED BY <2>1, InitInv DEF SeenInv
  <1>2. SeenInv /\ [Next]_vars => SeenInv'
    BY StepInv, StepSeen, StepErrorExplained, Zenon DEF SeenInv
  <1> HIDE DEF SeenInv
  <1> QED BY <1>1, <1>2, PTL DEF Spec

\* Whatever bytes arrive, those that read_from accepts are the one encoding of
\* the command that it returns.
THEOREM DecodesSafe == Spec => []DecodesEncodings
  <1>1. SeenInv => DecodesEncodings
    <2> SUFFICES ASSUME SeenInv, at = "ok"
                 PROVE  SubSeq(wire, 1, pos) = WriteToBuf(got)
      BY DEF DecodesEncodings
    <2> DEFINE e == WriteToBuf(got)
               s == SubSeq(wire, 1, pos)
    <2>1. /\ TypeOK /\ IsCommand(got) /\ pos = SerializedLen(got)
          /\ CommandAt(wire, got)
      BY Zenon DEF SeenInv, IInv, TypeOK, Position, Seen
    <2>2. pos \in Nat /\ \A i \in 1..pos : wire[0 + i] = wire[i]
      BY <2>1 DEF TypeOK
    <2>3. \A i \in 1..pos : wire[i] \in Byte
      <3> DEFINE L == Len(wire)
      <3>1. wire \in Seq(Byte) /\ L \in Nat /\ arrived \in 0..L
            /\ pos \in 0..arrived
        BY <2>1 DEF TypeOK
      <3>2. \A i \in 1..L : wire[i] \in Byte
        BY <3>1
      <3> HIDE DEF L
      <3>3. \A i \in 1..pos : i \in 1..L
        BY <3>1
      <3> QED BY <3>2, <3>3
    <2>4. HasBytes(wire, 0, pos)
      BY <2>2, <2>3, Zenon DEF HasBytes
    <2>5. Spells(wire, 0, e) /\ OfLen(e, pos)
      BY <2>1, <2>4, SpellsCommand, SerializedLength, Zenon
    <2>6. Spells(wire, 0, s) /\ OfLen(s, pos)
      <3>1. s = [i \in 1..pos |-> wire[i]]
        BY <2>2, SMT
      <3>2. s \in [1..pos -> Byte] /\ \A i \in 1..pos : s[i] = wire[i]
        BY <2>3, <3>1, ZenonT(40)
      <3> HIDE DEF s
      <3>3. OfLen(s, pos)
        BY <2>2, <3>2, FunctionLen, Zenon
      <3>4. Spells(wire, 0, s)
        BY <2>2, <3>2, <3>3, Zenon DEF Spells, OfLen
      <3> QED BY <3>3, <3>4
    <2> HIDE DEF e, s
    <2>7. s = e
      BY <2>2, <2>5, <2>6, SpellsOneSequence, Zenon
    <2> QED BY <2>7 DEF e, s
  <1> QED BY <1>1, SeenInvariant, PTL

\* A command that is written, and arrives, is read back as it was written, and
\* reading it fails only if the stream ends inside it.
THEOREM RoundTripSafe == Spec => []RoundTrip
  <1>1. SeenInv => RoundTrip
    <2> SUFFICES ASSUME SeenInv, wire = WriteToBuf(sent) \o Payload
                 PROVE  /\ at = "ok" => got = Unscoped(sent)
                        /\ at = "error" => eof /\ arrived < SerializedLen(sent)
      BY DEF RoundTrip
    <2>1. IsCommand(sent) /\ Payload \in Seq(Byte)
      BY CodecAssumption DEF SeenInv, IInv, TypeOK
    <2>2. CommandAt(wire, sent)
      BY <2>1, EncodingSpelled, Zenon
    <2>3. ASSUME at = "ok" PROVE got = Unscoped(sent)
      <3>1. IsCommand(got) /\ CommandAt(wire, got) /\ got = Unscoped(got)
        BY <2>3, Zenon DEF SeenInv, IInv, TypeOK, Seen
      <3>2. Unscoped(got) = Unscoped(sent)
        BY <2>1, <2>2, <3>1, OneCommand, Zenon
      <3> QED BY <3>1, <3>2, Zenon
    <2>4. at = "error" => eof /\ arrived < SerializedLen(sent)
      BY <2>2, Zenon DEF SeenInv, ErrorExplained
    <2> QED BY <2>3, <2>4
  <1> QED BY <1>1, SeenInvariant, PTL

\* The scope, which is not on the wire, does not count in serialized_len.
LEMMA UnscopedLength ==
  ASSUME NEW c, IsCommand(c), c.type = "packet"
  PROVE  /\ SerializedLen(Unscoped(c)) = SerializedLen(c)
         /\ Unscoped(c).len = c.len
  <1> DEFINE a == c.addr
             u == UnscopedAddress(a)
             d == Unscoped(c)
  <1>1. /\ d = [type |-> "packet", assoc_id |-> c.assoc_id, len |-> c.len,
                addr |-> u]
        /\ IsAddress(a)
    BY UnscopedFields, Zenon
  <1>2. AddressLen(u) = AddressLen(a)
    <2>1. CASE a.type = "v6"
      <3>1. u.type = "v6"
        BY <1>1, <2>1 DEF IsAddress, UnscopedAddress
      <3> QED BY <2>1, <3>1, Zenon DEF AddressLen
    <2>2. CASE a.type # "v6"
      BY <2>2 DEF UnscopedAddress
    <2> QED BY <2>1, <2>2
  <1> HIDE DEF u, d
  <1>3. d.type = "packet" /\ d.addr = u /\ d.len = c.len
    BY <1>1
  <1>4. /\ SerializedLen(d) = 2 + (6 + AddressLen(u))
        /\ SerializedLen(c) = 2 + (6 + AddressLen(a))
    BY <1>3, Zenon DEF SerializedLen
  <1> QED BY <1>2, <1>3, <1>4, Zenon DEF d

\* The bytes that follow the first n are what was put behind them.
LEMMA Behind ==
  ASSUME NEW e, NEW n \in Nat, OfLen(e, n), NEW p \in Seq(Byte)
  PROVE  /\ SubSeq(e \o p, n + 1, n + Len(p)) = p
         /\ Len(e \o p) = n + Len(p)
  <1> DEFINE w == e \o p
             m == Len(p)
  <1>1. e \in Seq(Byte) /\ Len(e) = n /\ m \in Nat
    BY DEF OfLen
  <1>2. Len(w) = n + m /\ w \in Seq(Byte)
    BY <1>1
  <1>3. \A i \in 1..m : w[n + i] = p[i]
    BY <1>1
  <1>4. p = [i \in 1..m |-> p[i]]
    OBVIOUS
  <1> HIDE DEF w, m
  <1>5. SubSeq(w, n + 1, n + m)
          = [i \in 1..(n + m - (n + 1) + 1) |-> w[n + 1 + i - 1]]
    BY <1>1, <1>2, SMT
  <1>6. n + m - (n + 1) + 1 = m /\ \A i \in 1..m : n + 1 + i - 1 = n + i
    BY <1>1
  <1>7. SubSeq(w, n + 1, n + m) = [i \in 1..m |-> p[i]]
    BY <1>3, <1>5, <1>6
  <1> QED BY <1>2, <1>4, <1>7 DEF w, m

\* The payload that is taken out of a packet, on either way and at either end,
\* is the payload that was put in.
THEOREM PayloadSafe == Spec => []PayloadFound
  <1>1. SeenInv /\ RoundTrip => PayloadFound
    <2> SUFFICES ASSUME SeenInv, RoundTrip, at = "ok", sent.type = "packet",
                        sent.len = Len(Payload),
                        wire = WriteToBuf(sent) \o Payload
                 PROVE  /\ FromStream = Payload
                        /\ FromDatagram = Payload
                        /\ ClientFromDatagram = Payload
      BY DEF PayloadFound
    <2> DEFINE e == WriteToBuf(sent)
               n == SerializedLen(sent)
    <2>1. IsCommand(sent) /\ Payload \in Seq(Byte) /\ pos = SerializedLen(got)
      BY CodecAssumption, Zenon DEF SeenInv, IInv, TypeOK, Position
    <2>2. got = Unscoped(sent)
      BY Zenon DEF RoundTrip
    <2>3. SerializedLen(got) = n /\ got.len = Len(Payload)
      BY <2>1, <2>2, UnscopedLength, Zenon
    <2>4. OfLen(e, n)
      BY <2>1, SerializedLength, Zenon
    <2>5. n \in Nat
      BY <2>4, BytesLen, Zenon DEF OfLen
    <2>6. wire = e \o Payload
      OBVIOUS
    <2> HIDE DEF e, n
    <2>7. /\ SubSeq(wire, n + 1, n + Len(Payload)) = Payload
          /\ Len(wire) = n + Len(Payload)
      <3>1. /\ SubSeq(e \o Payload, n + 1, n + Len(Payload)) = Payload
            /\ Len(e \o Payload) = n + Len(Payload)
        BY <2>1, <2>4, <2>5, Behind
      <3> QED BY <2>6, <3>1, Zenon
    <2> QED BY <2>1, <2>3, <2>7, Zenon
            DEF FromStream, FromDatagram, ClientFromDatagram
  <1> QED BY <1>1, SeenInvariant, RoundTripSafe, PTL
=============================================================================
