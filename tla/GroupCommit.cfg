SPECIFICATION Spec
CONSTANTS
    Txns = {t1, t2}
    Storages = {1, 2}
    NoTxn = NoTxn
    Readers = {1}
    StatusFaults = TRUE
    LateAbort = FALSE
    MaxFaults = 2
    MaxCrashes = 1
SYMMETRY TxnSymmetry
CHECK_DEADLOCK FALSE
INVARIANTS GroupAtomicity GroupDecisionGoverns RefusalIsRecycling GroupVisibleWhole ReportedOutcome
