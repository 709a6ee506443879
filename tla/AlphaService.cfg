SPECIFICATION ServiceSpec
CONSTANTS
    a = a
    b = b
    c = c
    d = d
    e = e
    is = is
    has = has
    Nodes <- MCNodes
    Relations <- MCRelations
    Edges <- MCEdges
    MaxDepth = 2
    MaxNodes = 4
    MaxEdges = 4
    SeedLimit = 2
    LeastRows = 3
    MaxActive = 2
    FanOut = 1
    Commits <- MCCommits
    MaxWrites = 1
    Calls = {r1, r2}
    Nobody = Nobody
INVARIANTS
    QuestionsApart
    RunningIsTrue
    SearchBounded
    FoundNearby
    CompleteUnlessCut
CHECK_DEADLOCK FALSE
