CONSTANTS
    MaxKey = 2
    Batches <- MCBatches
    MaxTxn = 3
    MaxSeq = 3
    MaxSst = 4
    MaxGen = 3
    Reservation = 2
    FlushThreshold = 1
    L0Trigger = 2
    MaxLevel = 2
    MaxWork = 4
    MaxFaults = 1
SPECIFICATION Spec
INVARIANTS
    ReadExact
    PreparedSurvives
    OpenNeverRefuses
CHECK_DEADLOCK FALSE
