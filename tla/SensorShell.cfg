CONSTANTS
    Sensors = {"lsm", "l3g"}
    Reads <- Readings
SPECIFICATION FairSpec
INVARIANTS
    TypeOK
    StoppedMeansSilent
    BusIsConsistent
PROPERTIES
    StartedIsRead
