SPECIFICATION FairSpec
CONSTANTS
    d1 = d1
    d2 = d2
    None = None
    Docs <- OneDoc
    Rows = 1
    FlushRows = 2
    FlushFiles = 2
    MaxDrops = 1
    MaxFaults = 1
PROPERTY DroppedIsPotentiated
