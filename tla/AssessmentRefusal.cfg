SPECIFICATION Spec
CONSTANTS
    MinimumVersion = 3
    MinimumBits <- MCMinimumBits
    DeprecatedHashes = {"md5", "sha1"}
    CoverageFloor = 50
    MaxChain = 2
    Now = 5
    MaxEvents = 40
    MaxBody = 2
    MaxRecords = 9
    MaxHandshake = 9
    MaxMessages = 9
    MaxLines = 7
    MaxFaults = 1
CHECK_DEADLOCK FALSE
INVARIANT RefusalIsJudgedRight
