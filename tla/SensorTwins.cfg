\* The system may stop: the sensor's reset fails, or an average is negative.
CONSTANTS
    Readings <- MixedReadings
    Window = 3
    Batch = 2
    BufferSize = 19
SPECIFICATION TwinsSpec
INVARIANTS
    TypeOK
    BufferFits
    EveryValueIsWindowAverage
    AveragesAreNearest
    ParityIsOdd
    TwinsAgree
PROPERTIES
    ImplementsReports
    PostsForever
CHECK_DEADLOCK FALSE
