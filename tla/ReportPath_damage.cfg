CONSTANTS
    Values <- SomeValues
    MessageSize = 3
    MaxHits = 2
SPECIFICATION PathSpec
INVARIANTS
    PathTypeOK
    
