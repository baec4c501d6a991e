SPECIFICATION MCSpec
INVARIANTS
    Precedence
    UnwrapSafe
    MissingIsMissing
    NothingOverlooked
CHECK_DEADLOCK FALSE
