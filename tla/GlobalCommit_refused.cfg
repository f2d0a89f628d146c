SPECIFICATION Spec
CONSTANTS
    Txns = {t1}
    Storages = {1, 2}
    Lsm = {2}
    Structural = {}
    NoTxn = NoTxn
    MaxFaults = 0
    MaxCrashes = 1
CHECK_DEADLOCK FALSE
INVARIANTS RecoveryNeverRefuses
