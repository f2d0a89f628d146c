SPECIFICATION FairSpec
CONSTANTS
    MaxSessions = 2
    MaxConnections = 2
    MaxFaults = 1
    MaxWork = 2
INVARIANTS SessionsOwned QueueBounded ResultTruthful
PROPERTIES ServerStops DisconnectResolves
