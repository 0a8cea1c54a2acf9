SPECIFICATION Spec
CONSTANTS
    QueueLen = 2
    MaxPosts = 3
INVARIANT SendsToQueue
