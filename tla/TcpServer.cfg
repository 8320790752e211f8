\* The number of clients is bounded, and the thread may die.
CONSTANTS
    MaxMessages = 3
    Backlog = 2
    MaxClients = 6
    Readers = {r1}
    Deeds = {"text", "junk", "closed", "reset"}
SPECIFICATION FairSpec
INVARIANTS
    TypeOK
    MessagesAreLatest
    PageIsOrdered
    
PROPERTIES
    QueuedIsAccepted
CHECK_DEADLOCK FALSE
