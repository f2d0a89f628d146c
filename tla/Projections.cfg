CONSTANTS
    locA = locA
    locB = locB
    Locs = {locA, locB}
    Modes = {"Snapshot", "Incremental"}
    HotKeys = {1}
    MaxId = 2
    MaxVersion = 2
    MaxGen = 2
    MaxStreamGen = 2
    MaxFaults = 1
    MaxStops = 2
    MaxWork = 4
SPECIFICATION Spec
INVARIANTS ShownExact RetentionCovers AcknowledgedOpens PendingResolves
SYMMETRY Symmetric
CHECK_DEADLOCK FALSE
