SPECIFICATION StoreFairSpec
CONSTANTS
    Jobs = {j1, j2, j3}
    Start = 5
    Batching = TRUE
    MaxChanges = 2
    MaxLost = 1
    MaxCrashes = 1
    Deltas <- QuotaDeltas
INVARIANTS
    Conserved
PROPERTIES
    StaleEnds
