SPECIFICATION FairSpec
CONSTANTS
    QueueLen = 2
    MaxPosts = 5
INVARIANTS
    TypeOK
    InOrder
    OneFate
    PostNeverWaits
PROPERTIES
    QueueDrains
    HandoverKept
