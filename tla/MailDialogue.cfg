SPECIFICATION Spec
CONSTANTS
    MaxEvents = 6
    MaxBody = 1
    MaxLines = 7
    MaxFaults = 1
    MaxOutstanding = 2
INVARIANTS
    AcceptedIsTrue
    RejectedIsTrue
    TouchedNeverClaimed
    RequestNotMissed
    ConfirmedIsRight
CHECK_DEADLOCK FALSE
