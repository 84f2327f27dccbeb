\* Two L2 caches with one frame each, two lines, two requests.  The reserves
\* are scaled down with the queue so that broadcasts are held back and given up.
CONSTANTS
    a = a
    b = b
    NumCaches = 2
    Line = {a, b}
    Ways = 1
    Message <- Contended
    Contents <- TwoCaches
    Uppers = 1
    QueueSize = 7
    LocalReserve = 5
    SnoopReserve = 4
    ActReserve = 2
    BusQueueSize = 1
    BusPendingSize = 2
    LowerSize = 1
    MaxRequests = 2
SPECIFICATION FairSpec
CHECK_DEADLOCK FALSE
INVARIANTS
    TypeOK
    DataBusNeverSleeps
    AnswersAreAwaited
    NoAssertFails
    CoherentWhenQuiet
PROPERTIES
    CachesKeepPort
    EverythingSettles
