--------------------------- MODULE AddressMapping ---------------------------
(***************************************************************************)
(* addressMapping of the eMRAM simulator (AddressMapping.cpp): the channel,*)
(* rank, bank, row and column an address belongs to, under each of the     *)
(* eight schemes.  Every scheme shifts the bits of its fields out of the   *)
(* address, least significant first; `tempA ^ tempB' keeps the low bits.   *)
(***************************************************************************)
EXTENDS Integers, Sequences

CONSTANTS
    NUM_CHANS_LOG, NUM_RANKS_LOG, NUM_BANKS_LOG, NUM_ROWS_LOG, NUM_COLS_LOG,
    JEDEC_DATA_BUS_BITS_LOG,    \* dramsim_log2(JEDEC_DATA_BUS_BITS)
    BL_LOG                      \* dramsim_log2(BL)

\* A column must be wide enough for a burst, or colHighBitWidth wraps around.
ASSUME WidthAssumption ==
    /\ NUM_CHANS_LOG \in Nat /\ NUM_RANKS_LOG \in Nat /\ NUM_BANKS_LOG \in Nat
    /\ NUM_ROWS_LOG \in Nat /\ NUM_COLS_LOG \in Nat
    /\ JEDEC_DATA_BUS_BITS_LOG \in Nat /\ BL_LOG \in Nat
    /\ BL_LOG <= NUM_COLS_LOG

NUM_CHANS         == 2 ^ NUM_CHANS_LOG
BYTE_OFFSET_WIDTH == JEDEC_DATA_BUS_BITS_LOG
THROW_AWAY_BITS   == JEDEC_DATA_BUS_BITS_LOG + BL_LOG
COL_LOW_BIT_WIDTH == THROW_AWAY_BITS - BYTE_OFFSET_WIDTH

Fields  == {"chan", "rank", "bank", "row", "col"}
Schemes == 1 .. 8

\* colHighBitWidth for the column
BitWidth(f) ==
    CASE f = "chan" -> NUM_CHANS_LOG
      [] f = "rank" -> NUM_RANKS_LOG
      [] f = "bank" -> NUM_BANKS_LOG
      [] f = "row"  -> NUM_ROWS_LOG
      [] f = "col"  -> NUM_COLS_LOG - COL_LOW_BIT_WIDTH

\* The fields in the order they are shifted out.
ShiftOrder(scheme) ==
    CASE scheme = 1 -> <<"bank", "col", "row", "rank", "chan">>
      [] scheme = 2 -> <<"rank", "bank", "col", "row", "chan">>
      [] scheme = 3 -> <<"row", "col", "bank", "rank", "chan">>
      [] scheme = 4 -> <<"col", "row", "bank", "rank", "chan">>
      [] scheme = 5 -> <<"bank", "rank", "col", "row", "chan">>
      [] scheme = 6 -> <<"col", "rank", "bank", "row", "chan">>
      [] scheme \in {7, 8} -> <<"chan", "bank", "rank", "col", "row">>

\* Fault: the low column bits are not shifted out first.
ShiftedOutKeepingLow(scheme) ==
    LET bits[k \in 1 .. 5] ==
            IF k = 1 THEN BYTE_OFFSET_WIDTH
                     ELSE bits[k - 1] + BitWidth(ShiftOrder(scheme)[k - 1])
    IN  bits
\* Bits shifted out before the k-th field.
ShiftedOut(scheme) ==
    LET bits[k \in 1 .. 5] ==
            IF k = 1 THEN BYTE_OFFSET_WIDTH + COL_LOW_BIT_WIDTH
                     ELSE bits[k - 1] + BitWidth(ShiftOrder(scheme)[k - 1])
    IN  bits

addressMapping(physicalAddress, scheme, transaction_count) ==
    [f \in Fields |->
        IF f = "chan" /\ scheme = 8 /\ transaction_count # 0
        THEN transaction_count % NUM_CHANS
        ELSE LET k == CHOOSE k \in 1 .. 5 : ShiftOrder(scheme)[k] = f
             IN  (physicalAddress \div 2 ^ ShiftedOut(scheme)[k]) % 2 ^ BitWidth(f)]
=============================================================================
