SPECIFICATION ServerSpec
CONSTANTS
    t1 = t1
    t2 = t2
    t3 = t3
    a1 = a1
    s1 = s1
    Task = {t1, t2}
    Handle = Handle
    Arrivals <- MixedArrivals
    Assoc = {a1}
    Session = {s1}
    None = None
INVARIANTS
    NothingBeforeAuthentication
    ServerTypeOK
    SocketsAreAuthenticated
PROPERTIES
    CloseCodeExplained
    ImplementsGate
    RegisteredWaitersProceed
    UnauthenticatedIsClosed
    ReleasedUnlessStuck
CHECK_DEADLOCK FALSE
