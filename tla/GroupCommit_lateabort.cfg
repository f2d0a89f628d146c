SPECIFICATION Spec
CONSTANTS
    Txns = {t1, t2}
    Storages = {1, 2}
    NoTxn = NoTxn
    Readers = {}
    StatusFaults = TRUE
    LateAbort = TRUE
    MaxFaults = 1
    MaxCrashes = 1
SYMMETRY TxnSymmetry
INVARIANT
    NoRollbackOnceDecided
CHECK_DEADLOCK FALSE
