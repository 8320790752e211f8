\* The number of requests is bounded.
CONSTANTS
    Blocks <- Served
    LongPaths <- TooLong
    CliPaths <- Asked
    ConnectPaths <- AskedInTurn
    MaxWaiting = 2
    MaxTransfers = 2
    CountModulus = 2
SPECIFICATION FairSpec
INVARIANTS
    TypeOK
    
    CountIsAccounted
PROPERTIES
    TransfersEnd
CHECK_DEADLOCK FALSE
