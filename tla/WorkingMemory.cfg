SPECIFICATION FairSpec
\* No fragment comes any more and no row is sure: nothing is left to do.
CHECK_DEADLOCK FALSE
CONSTANTS
    e1 = e1
    e2 = e2
    p1 = p1
    p2 = p2
    None = None
    Edges <- TwoEdges
    Replays <- TwoReplays
    TopPercent = 30
    MaxEdges = 2
    MaxIngests = 3
    MaxAborts = 1
INVARIANTS
    NeverForgotten
    OncePerReplay
PROPERTIES
    Drains
