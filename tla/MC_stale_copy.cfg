\* Three L2 caches, one line that two of them share, and one WRITE.
CONSTANTS
    a = a
    b = b
    NumCaches = 3
    Line = {a}
    Ways = 1
    Message <- OneWriter
    Contents <- TwoReaders
    Uppers = 1
    QueueSize = 12
    LocalReserve = 4
    SnoopReserve = 3
    ActReserve = 2
    BusQueueSize = 1
    BusPendingSize = 2
    LowerSize = 2
    MaxRequests = 1
SPECIFICATION Spec
CHECK_DEADLOCK FALSE
INVARIANT CoherentWhenQuiet
