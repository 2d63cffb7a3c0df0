SPECIFICATION FairSpec
CONSTANTS
    Processes = {p1}
    Investigations = {i1, i2}
    Jobs = {j1, j2, j3}
    NoJob = NoJob
    NoProcess = NoProcess
    NoInvestigation = NoInvestigation
    MaxWorkers = 2
    DatabaseFaults = TRUE
INVARIANTS
    NoTwoWriters
    NoStaleJob
    CompletedHasResults
    CompletedIsSettled
PROPERTIES
    TerminalIsFinal
    ImplementsLifecycle
    JobsFinishUnlessRaised
