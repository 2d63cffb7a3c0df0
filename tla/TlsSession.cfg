SPECIFICATION Spec
CONSTANTS
    MaxRecords = 5
    MaxHandshake = 5
    MaxMessages = 4
    Reorder = FALSE
    MaxSkip = 3
INVARIANTS
    PlaintextOnly
    HandledAsSent
    NegotiationReported
    ConclusionsAreTrue
CHECK_DEADLOCK FALSE
