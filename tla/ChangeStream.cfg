SPECIFICATION Spec
CONSTANTS
  MaxTxns = 3
  MaxGen = 2
  MaxTroubles = 2
INVARIANTS HistoryExact
PROPERTIES ReopenKeepsStream ImplementsHistory
CHECK_DEADLOCK FALSE
