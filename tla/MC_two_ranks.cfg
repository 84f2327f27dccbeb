\* Two ranks with bursts of four: the delay between ranks is never imposed.
CONSTANTS
    NUM_RANKS = 2
    NUM_BANKS = 2
    TRANS_QUEUE_DEPTH = 1
    CMD_QUEUE_DEPTH = 2
    RL = 2
    WL = 7
    BL = 4
    AL = 1
    tCCD = 4
    tWTR = 4
    tRTRS = 1
    tCMD = 1
    queuingStructure = "PerRank"
    schedulingPolicy = "RankThenBankRoundRobin"
    rowBufferPolicy = "ClosePage"
    Address = {0, 1}
    addressMapping <- TwoRanks
    MaxTransactions = 2
    MaxPending = 1
SPECIFICATION Spec
INVARIANTS
    NoDataBusCollision
