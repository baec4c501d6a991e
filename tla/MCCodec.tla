------------------------------- MODULE MCCodec -------------------------------
(***************************************************************************)
(* Instances of Codec for TLC.                                             *)
(***************************************************************************)
EXTENDS Codec

\* A byte of 128 or more among ASCII ones is never UTF-8.
Ascii(s) == \A i \in DOMAIN s : s[i] < 128

Host(n) == [i \in 1..n |-> 97 + (i % 26)]

\* Addresses of each type; domain names of length zero, one and two.
Addresses ==
    {[type |-> "domain", host |-> Host(n), port |-> 443] : n \in 0..2}
        \cup {[type |-> "v4", ip |-> <<127, 0, 2, 255>>, port |-> 65535],
              [type |-> "v6", ip |-> <<8193, 3512, 0, 0, 0, 0, 255, 1>>,
               port |-> 258, scope |-> 7]}

Longest ==
    [type |-> "packet", assoc_id |-> <<0, 1>>, len |-> 513, addr |->
        [type |-> "domain", host |-> Host(255), port |-> 1]]

Commands ==
    {[type |-> "response", ok |-> b] : b \in BOOLEAN}
        \cup {[type |-> "authenticate", digest |-> [i \in 1..32 |-> i + 200]],
              [type |-> "dissociate", assoc_id |-> <<65279, 4>>],
              [type |-> "heartbeat"]}
        \cup {[type |-> "connect", addr |-> a] : a \in Addresses}
        \cup {[type |-> "packet", assoc_id |-> <<1, 65534>>, len |-> 3,
               addr |-> a] : a \in Addresses}
        \cup {Longest}

SomePayload == <<4, 0, 1>>

\* Smaller than what is subtracted and than some headers, about as large as
\* the largest, larger, and as large as it can be.
Sizes == {0, 4, 5, 20, 263, 268, 300, 65535}

\* Every byte of the header and of a short address replaced by each of these.
EveryDamage == {<<i, b>> : i \in 0..12, b \in {0, 1, 2, 3, 4, 5, 254, 255}}
=============================================================================
