SPECIFICATION Spec
CONSTANTS
    r1 = r1  r2 = r2
    Req = {r1, r2}
    Manager = Manager
    Free = Free
    MaxConn = 2
INVARIANTS
    GuardInside
    UnwrapSafe
    OneConnection
PROPERTIES
    ManagerRegainsLock
    RegisteredCloseIsNoticed
    RegisteredWaitIsWoken
CHECK_DEADLOCK FALSE
