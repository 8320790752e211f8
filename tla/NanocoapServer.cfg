\* The number of activities is bounded.
CONSTANTS
    c1 = c1
    c2 = c2
    Clients = {c1, c2}
    Plans <- AllPlans
    BlockSize = 2
    MaxActivities = 2
    MaxRetransmit = 1
    ValueModulus = 256
SPECIFICATION Spec
SYMMETRY Symmetric
INVARIANTS
    TypeOK
    SingleBlockIsRight
    QuietUploadIsRight
    VersionIsWhole
    QuietValueStays
CHECK_DEADLOCK FALSE
