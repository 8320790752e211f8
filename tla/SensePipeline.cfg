\* The system may stop: the reset may fail, and the batches are bounded.
CONSTANTS
    Readings <- TwoReadings
    Window = 2
    Batch = 2
    BufferSize = 20
    MaxBatches = 2
    MaxWaiting = 2
    MaxRetransmit = 0
    MaxRestarts = 1
    MaxReadings = 5
SPECIFICATION PipelineSpec
INVARIANTS
    StoredIsMeasured
    NoWindowIsMissing
    SuccessMeansMeasured
CHECK_DEADLOCK FALSE
