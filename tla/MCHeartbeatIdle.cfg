SPECIFICATION Spec
CONSTANTS
    st1 = st1  st2 = st2
    a1 = a1
    Interval = 2
    MaxIdle = 3
    Stream = {st1}
    Assoc = {a1}
PROPERTY
    NotIdledOut
CHECK_DEADLOCK FALSE
