SPECIFICATION Spec
CONSTANTS
    Requests = {r1, r2}
    Peers <- MCPeers
    MaxTrust = 3
    Penalty = 2
    MaxRejections <- MCMaxRejections
    MaxFailures = 1
    Hints <- MCHints
    Offers <- MCOffers
    Transports <- MCTransports
    Place <- MCPlace
    Http <- MCHttp
    FallbackToServer = TRUE
    MaxHints = 2
    None = None
INVARIANTS
    BestFirst
    FallsBack
    NeverOverpunished
    ExactWhereApart
PROPERTIES
    Answers
CHECK_DEADLOCK FALSE
