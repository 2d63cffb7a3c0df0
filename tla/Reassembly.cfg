SPECIFICATION Spec
CONSTANTS
    Modulus = 8
    Isn = 6
    Positions <- MCPositions
    Payloads <- MCPayloads
    AckPositions = {5}
    CutTails = {0, 1}
    OtherTakes = {3}
    MaxPackets = 3
    MaxSegments = 3
    MaxGaps = 2
    SessionLimit = 4
    GlobalLimit = 5
    None = None
INVARIANTS
    InPlace
    OneHolder
    FirstObservedWins
    NothingLost
    WithinLimits
    GapReasonsAreTrue
    LaterBytesReported
