SPECIFICATION MCSpec
INVARIANT
    RepeatedIsAccepted
CHECK_DEADLOCK FALSE
