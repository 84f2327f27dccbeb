\* The instance of MC_shared_cache.cfg without requests that are called off.
CONSTANTS
    a = a
    b = b
    c = c
    Line = {a, b, c}
    Message <- Messages
    Contents <- OneModified
    Ways = 1
    QueueSize = 4
    Reserve = 1
    MemQueueSize = 2
    MaxRequests = 3
    MaxAnnulled = 0
SPECIFICATION Spec
CHECK_DEADLOCK FALSE
INVARIANT OneRequestOfALine
