SPECIFICATION IngestionSpec
CONSTANTS
    Keys = {k1, k2}
    MaxConnections = 2
    MaxPackets = 4
    MaxConcurrent = 1
    MaxTotal = 2
    MaxTags = 3
    Links = {"ETHERNET", "UNSUPPORTED"}
    MaxRecords <- MCMaxRecords
    MaxOdd = 1
    PacketLimit = 4
SYMMETRY KeySymmetry
VIEW WithoutHistory
CHECK_DEADLOCK FALSE
INVARIANTS
    NeverMerged
    NeverSplit
    MidstreamIsReal
    NothingSilentlyDiscarded
    PacketsAreTakenAsSent
