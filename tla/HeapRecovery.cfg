SPECIFICATION Spec
CONSTANTS
    MaxTxn = 2
    MaxLsn = 6
    MaxPages = 2
    MaxCrashes = 2
    MaxFaults = 1
    MaxCheckpoints = 1
    MaxWrites = 2
    MaxOpen = 1
CHECK_DEADLOCK FALSE
INVARIANTS
    PagesAreCommitted
    ReportedCommitsSurvive
    RefusalIsGroupGrowth
    WritersAreKnown
    WriteAhead
