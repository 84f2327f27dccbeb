\* Four channels; addresses 1 and 5 share one of them.
CONSTANTS
    NUM_CHANS_LOG = 2
    NUM_RANKS_LOG = 0
    NUM_BANKS_LOG = 1
    NUM_ROWS_LOG = 1
    NUM_COLS_LOG = 1
    JEDEC_DATA_BUS_BITS_LOG = 0
    BL_LOG = 0
    Deployments <- SoundDeployments
    TRANS_QUEUE_DEPTH = 1
    Address = {1, 2, 5}
    MaxCount = 7
SPECIFICATION Spec
INVARIANTS
    TypeOK
    PromisedRoomExists
    OneChannelPerAddress
    DealtEvenly
