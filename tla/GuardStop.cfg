SPECIFICATION FairSpec
CONSTANTS
    c1 = c1
    c2 = c2
    w1 = w1
    w2 = w2
    None = None
    Clients <- OneClient
    Workers <- TwoWorkers
    Autostart = TRUE
    MaxRounds = 1
PROPERTY GuardStopsDaemon
