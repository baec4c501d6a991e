SPECIFICATION Spec
CONSTANTS
    a1 = a1
    s1 = s1  s2 = s2
    t1 = t1  t2 = t2  t3 = t3
    Assoc = {a1}
    Session = {s1, s2}
    Task = {t1, t2, t3}
    None = None
INVARIANTS
    ModeKnown
    DropsOnlyOnFailure
    OneRelayMode
PROPERTIES
    ImplementsTable
CHECK_DEADLOCK FALSE
