\* The system may stop: the posts are bounded, and the network may lose all.
CONSTANTS
    MaxBatches = 2
    Points = 2
    MaxWaiting = 2
    MaxRetransmit = 1
    MaxRestarts = 1
SPECIFICATION FairSpec
INVARIANTS
    TypeOK
    SuccessMeansStored
    DuplicatesOnlyAfterRestart
PROPERTIES
    ImplementsStore
    EveryPostResolves
    
CHECK_DEADLOCK FALSE
