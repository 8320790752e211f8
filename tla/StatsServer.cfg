CONSTANTS
    Payloads <- AllKinds
    MaxSends = 3
    CountModulus = 65536
SPECIFICATION Spec
INVARIANTS
    TypeOK
    CountIsExact
    ObserverKnowsCount
\* The shell may wait for a command for ever.
CHECK_DEADLOCK FALSE
