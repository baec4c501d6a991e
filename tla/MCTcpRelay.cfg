SPECIFICATION Spec
CONSTANTS
    MaxData = 2
INVARIANTS
    SucceededMeansConnected
    OrderlyIsComplete
    CutForAReason
PROPERTIES
    RequestIsAnswered
    EndIsPassedOn
CHECK_DEADLOCK FALSE
