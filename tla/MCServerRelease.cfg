SPECIFICATION ServerSpec
CONSTANTS
    t1 = t1
    t2 = t2
    t3 = t3
    a1 = a1
    s1 = s1
    Task = {t1, t2, t3}
    Handle = Handle
    Arrivals <- PacketArrivals
    Assoc = {a1}
    Session = {s1}
    None = None
PROPERTY
    ConnectionReleases
CHECK_DEADLOCK FALSE
