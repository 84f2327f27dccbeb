-------------------------- MODULE MCAddressMapping --------------------------
(* A sweep over every address of a small memory under every scheme, checked  *)
(* against the layout that the comment of each scheme names.                 *)
EXTENDS AddressMapping

VARIABLES sweptScheme, sweptAddress

AddressBits == THROW_AWAY_BITS + NUM_CHANS_LOG + NUM_RANKS_LOG + NUM_BANKS_LOG
               + NUM_ROWS_LOG + (NUM_COLS_LOG - COL_LOW_BIT_WIDTH)
Capacity    == 2 ^ AddressBits

SweepInit == sweptScheme \in Schemes /\ sweptAddress = 0
SweepNext == sweptAddress' = (sweptAddress + 1) % Capacity /\ UNCHANGED sweptScheme
SweepSpec == SweepInit /\ [][SweepNext]_<<sweptScheme, sweptAddress>>

Location == addressMapping(sweptAddress, sweptScheme, 0)

\* The layout in the comment above each scheme, most significant field first.
Documented ==
    <<<<"chan", "rank", "row", "col", "bank">>,
      <<"chan", "row", "col", "bank", "rank">>,
      <<"chan", "rank", "bank", "col", "row">>,
      <<"chan", "rank", "bank", "row", "col">>,
      <<"chan", "row", "col", "rank", "bank">>,
      <<"chan", "row", "bank", "rank", "col">>,
      <<"row", "col", "rank", "bank", "chan">>,
      <<"row", "col", "rank", "bank", "chan">>>>

\* The number of the transaction-sized block at a location, read off the
\* documented layout by Horner's rule.
BlockNumber(loc) ==
    LET names == Documented[sweptScheme]
        upTo[k \in 0 .. 5] ==
            IF k = 0 THEN 0
            ELSE upTo[k - 1] * 2 ^ BitWidth(names[k]) + loc[names[k]]
    IN  upTo[5]

\* addressMapping is the bijection its comments describe: the block of an
\* address can be recovered from its location, so that no two blocks of the
\* memory share a location and none lies outside of it.
MappingFollowsTheComments == BlockNumber(Location) = sweptAddress \div 2 ^ THROW_AWAY_BITS
=============================================================================
