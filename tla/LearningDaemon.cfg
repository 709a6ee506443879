SPECIFICATION FairSpec
CONSTANTS
    c1 = c1
    c2 = c2
    w1 = w1
    w2 = w2
    None = None
    Clients <- TwoClients
    Workers <- TwoWorkers
    Autostart = TRUE
    MaxRounds = 2
INVARIANTS
    AtMostOneWorker
    CountsAgree
    DesiredHasWorker
PROPERTIES
    StopIsNotRevoked
    StopTakesEffect
    RequestsReturn
    ImplementsLease
