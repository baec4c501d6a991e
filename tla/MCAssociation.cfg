SPECIFICATION Spec
CONSTANTS
    x1 = x1  x2 = x2
    i1 = i1  i2 = i2
    Assoc = {x1, x2}
    Id = {i1, i2}
    None = None
    MaxPkt = 1
INVARIANTS
    DroppedForAReason
    RepliesFollowPackets
PROPERTIES
    EndedIsForgotten
    TimeoutIsTold
    DissociatedUnlessOvertaken
CHECK_DEADLOCK FALSE
