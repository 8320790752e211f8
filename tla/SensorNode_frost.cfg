\* The system may stop: main() returns when the sensor's reset fails.
CONSTANTS
    Readings <- FrostReadings
    Window = 2
    Batch = 2
    BufferSize = 20
SPECIFICATION FairSpec
PROPERTY ParityLoopEnds
CHECK_DEADLOCK FALSE
