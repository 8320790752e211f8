CONSTANTS
    Values <- FewValues
    MessageSize = 3
    MaxHits = 1
SPECIFICATION PathSpec
INVARIANT AveragedOut
