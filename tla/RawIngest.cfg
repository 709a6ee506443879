SPECIFICATION FairSpec
CONSTANTS
    d1 = d1
    d2 = d2
    None = None
    Docs <- TwoDocs
    Rows = 3
    FlushRows = 2
    FlushFiles = 2
    MaxDrops = 3
    MaxFaults = 2
INVARIANTS
    RecordedIsPotentiated
    PotentiatedOnce
PROPERTIES
    MemoryCatchesUp
