SPECIFICATION Spec
CONSTANTS
    r1 = r1  r2 = r2
    Req = {r1}
    Manager = Manager
    Free = Free
    MaxConn = 2
PROPERTY
    CloseIsNoticed
CHECK_DEADLOCK FALSE
