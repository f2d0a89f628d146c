SPECIFICATION Spec
CONSTANTS
    Rows = {r1, r2, r3}
    ViewIds = {v1, v2}
    Loaded = {r1}
    Modes = {TRUE, FALSE}
    MaxTxn = 4
    MaxCommand = 2
    MaxSeq = 4
    MaxOpen = 2
SYMMETRY Symmetry
CHECK_DEADLOCK FALSE
INVARIANTS ViewExact IndexCoversViews RepeatableSnapshot
PROPERTIES SeenStays
