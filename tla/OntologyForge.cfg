SPECIFICATION Spec
\* All runs have been made: nothing is left to do.
CHECK_DEADLOCK FALSE
CONSTANTS
    l1 = l1
    l2 = l2
    c1 = c1
    c2 = c2
    c3 = c3
    c4 = c4
    d = d
    r1 = r1
    r2 = r2
    memory = memory
    ontology = ontology
    None = None
    Labels <- TwoLabels
    Ids <- FourIds
    Runs <- AllRuns
    Stores <- TwoStores
    StoreOf <- StoreOfRun
    MaxRuns = 3
    MaxFailures = 1
SYMMETRY Symmetry
INVARIANTS
    OneConceptWhereAlone
    CountsWhereAlone
    NeverOvercounts
    FilesNameConcepts
