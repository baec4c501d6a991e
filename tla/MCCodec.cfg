SPECIFICATION Spec
CONSTANTS
    Sent <- Commands
    Utf8 <- Ascii
    Payload <- SomePayload
    PacketSize <- Sizes
    Usize = 65536
    Damage <- EveryDamage
INVARIANTS
    RoundTrip
    DecodesEncodings
    HeaderLength
    PayloadFound
    FitsDatagram
CHECK_DEADLOCK FALSE
