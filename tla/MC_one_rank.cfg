\* The timing of ini/ST-1.2x.ini and the policies of system.ini.example, one
\* rank of two banks, with queues short enough to fill and to overflow into
\* pendingTransactions.  A data packet holds its bus for two cycles.
CONSTANTS
    NUM_RANKS = 1
    NUM_BANKS = 2
    TRANS_QUEUE_DEPTH = 1
    CMD_QUEUE_DEPTH = 2
    RL = 2
    WL = 7
    BL = 4
    AL = 0
    tCCD = 4
    tWTR = 6
    tRTRS = 1
    tCMD = 1
    queuingStructure = "PerRank"
    schedulingPolicy = "RankThenBankRoundRobin"
    rowBufferPolicy = "ClosePage"
    Address = {0, 1}
    addressMapping <- OneRank
    MaxTransactions = 4
    MaxPending = 1
SPECIFICATION Spec
INVARIANTS
    TypeOK
    NoFatalError
    CountdownsStaggered
    NothingLostOrDuplicated
    ReadsCreditedInOrder
    ReadsSeeOlderWrites
    ReadNeverOvertakesWrite
    DataBusExclusive
    WriteDataSpaced
PROPERTIES
    WritesLandInOrder
