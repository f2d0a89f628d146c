SPECIFICATION Spec
CONSTANTS
    Txns = {t1, t2}
    Storages = {1, 2}
    Lsm = {2}
    Structural = {t2}
    NoTxn = NoTxn
    MaxFaults = 2
    MaxCrashes = 2
CHECK_DEADLOCK FALSE
INVARIANTS Atomicity DecisionGoverns AcknowledgedOutcome RefusalIsRecycling SnapshotShowsSettled
PROPERTIES SequenceFixed SnapshotGrows OpenSettlesDecisions
