\* One frame, which holds a modified line, a queue of four entries of which the
\* bus may fill three, and a memory queue of two.  The bus may stop asking: no
\* deadlock check.
CONSTANTS
    a = a
    b = b
    c = c
    Line = {a, b, c}
    Message <- Messages
    Contents <- OneModified
    Ways = 1
    QueueSize = 4
    Reserve = 1
    MemQueueSize = 2
    MaxRequests = 3
    MaxAnnulled = 1
SPECIFICATION FairSpec
CHECK_DEADLOCK FALSE
INVARIANTS
    TypeOK
    EveryReturnFindsAnEntry
    EveryWaiterHasAWaker
PROPERTIES
    DirtyLinesAreKept
    CacheKeepsPort
    EverythingSettles
