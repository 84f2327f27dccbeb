\* The timing of ini/STT-MRAM.ini, two ranks, one command queue per bank and
\* bank-then-rank round robin.
CONSTANTS
    NUM_RANKS = 2
    NUM_BANKS = 2
    TRANS_QUEUE_DEPTH = 2
    CMD_QUEUE_DEPTH = 1
    RL = 2
    WL = 7
    BL = 1
    AL = 1
    tCCD = 4
    tWTR = 4
    tRTRS = 1
    tCMD = 1
    queuingStructure = "PerRankPerBank"
    schedulingPolicy = "BankThenRankRoundRobin"
    rowBufferPolicy = "ClosePage"
    Address = {0, 1, 2}
    addressMapping <- RankAndBank
    MaxTransactions = 3
    MaxPending = 1
SPECIFICATION FairSpec
INVARIANTS
    NoFatalError
    ReadsSeeOlderWrites
PROPERTIES
    WritesLandInOrder
    EveryTransactionCompletes
    ChannelKeepsPort
