CONSTANTS
    MaxTxn = 2
    MaxFaults = 2
    MaxCrashes = 2
SPECIFICATION Spec
INVARIANTS
    EveryCrashScans
    CheckpointSparesUnresolved
PROPERTIES
    ImplementsDecisionLog
CHECK_DEADLOCK FALSE
