\* The system may stop: the posts are bounded, and the network may lose all.
CONSTANTS
    MaxBatches = 3
    Points = 2
    MaxWaiting = 2
    MaxRetransmit = 1
    MaxRestarts = 1
SPECIFICATION Spec
INVARIANT EveryBatchTransmitted
CHECK_DEADLOCK FALSE
