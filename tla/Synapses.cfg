SPECIFICATION MirrorFairSpec
CONSTANTS
    Nodes <- MCNodes
    Edges <- MCEdges
    Increment = 1
    Fresh = 2
    ReplayWeight = 2
    ReplayGain = 2
    Full = 3
    Keep = 50
    Threshold = 1
    Requests <- MCRequests
    MaxBatches = 2
    MaxReplays = 2
    MaxFaults = 1
INVARIANTS
    EdgesKeepNodes
    CountsBracketed
    DecaysOncePerInterval
    MirrorKeepsUp
PROPERTIES
    Forgets
CHECK_DEADLOCK FALSE
