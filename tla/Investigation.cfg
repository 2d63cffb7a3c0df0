SPECIFICATION Spec
CONSTANTS
    e1 = e1
    e2 = e2
    c1 = c1
    c2 = c2
    Endpoints = {e1, e2}
    Captures = {c1, c2}
    Configs <- MCConfigs
    InitialConfig <- First
    Traffic <- MCTraffic
    Batches <- MCBatches
    ContentOf <- MCContentOf
    KeyOf <- MCKeyOf
    Absent = Absent
    Unreadable = Unreadable
    MaxSessions = 3
    MaxChanges = 1
CONSTRAINT FirstSessionAtE1
CHECK_DEADLOCK FALSE
INVARIANTS
    ChangesAreExplained
    SameFilesSameInvestigation
    LimitsAreReported
