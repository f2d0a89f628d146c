SPECIFICATION Spec
CONSTANTS
    Txns = {t1, t2}
    Storages = {1, 2, 3}
    Lsm = {}
    Structural = {}
    NoTxn = NoTxn
    MaxFaults = 1
    MaxCrashes = 0
SYMMETRY Symmetry
CHECK_DEADLOCK FALSE
INVARIANTS SnapshotUntorn

