SPECIFICATION Spec
CONSTANTS
    st1 = st1  st2 = st2
    a1 = a1
    Interval = 2
    MaxIdle = 4
    Stream = {st1, st2}
    Assoc = {a1}
INVARIANTS
    KeptAlive
PROPERTIES
    UnusedIsLetGo
    HeartbeatEnds
CHECK_DEADLOCK FALSE
