SPECIFICATION FairSpec
\* Every input is indexed and nobody asks for a build: nothing is left to do.
CHECK_DEADLOCK FALSE
CONSTANTS
    i1 = i1
    i2 = i2
    t1 = t1
    t2 = t2
    r1 = r1
    Daemon = Daemon
    None = None
    Items <- TwoItems
    Terms <- TwoTerms
    Mentions <- MentionsOfTwo
    Requests <- OneRequest
    FlushAfter = 2
    MaxRequests = 2
    MaxFailures = 1
INVARIANTS
    FinishedIsThere
PROPERTIES
    StaysCompleted
    IndexCatchesUp
    IndexIsRepaired
