\* 4 channels, 2 ranks, 2 banks, 4 rows, 4 columns, bursts of two.
CONSTANTS
    NUM_CHANS_LOG = 2
    NUM_RANKS_LOG = 1
    NUM_BANKS_LOG = 1
    NUM_ROWS_LOG = 2
    NUM_COLS_LOG = 2
    JEDEC_DATA_BUS_BITS_LOG = 2
    BL_LOG = 1
SPECIFICATION SweepSpec
INVARIANT MappingFollowsTheComments
