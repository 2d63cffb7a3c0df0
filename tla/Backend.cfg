SPECIFICATION BackendSpec
CONSTANTS
    Processes = {p1}
    Investigations = {i1}
    Jobs = {j1, j2}
    NoJob = NoJob
    NoProcess = NoProcess
    NoInvestigation = NoInvestigation
    MaxWorkers = 1
    DatabaseFaults = FALSE
    c1 = c1
    c2 = c2
    Captures = {c1, c2}
    StorageIds = {s1, s2}
    Settings = {old, new}
    NoCapture = NoCapture
    NoFile = NoFile
    NoDocument = NoDocument
    EmptyCaptures = {c2}
    Selections <- TwoCaptures
    NoSelection = NoSelection
SYMMETRY BackendSymmetry
INVARIANTS
    CompletedIsExportable
    OneConfiguration
    RowNamesItsBytes
    FilesAccounted
