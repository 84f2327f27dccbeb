--------------------------- MODULE MCMramChannel ---------------------------
(* Small instances of MramChannel: the workload's addresses and where the   *)
(* address mapping puts them.                                               *)
EXTENDS MramChannel

\* One rank: two banks, one address in each.
OneRank == [a \in Address |-> [rank |-> 0, bank |-> a % NUM_BANKS, row |-> 0]]

\* Two ranks: one address in each.
TwoRanks == [a \in Address |-> [rank |-> a % NUM_RANKS, bank |-> 0, row |-> 0]]

\* Two ranks, two banks: address 2 shares its rank with 0 and its bank with 1.
RankAndBank ==
    [a \in Address |-> [rank |-> a % NUM_RANKS,
                        bank |-> IF a = 0 THEN 0 ELSE 1, row |-> 0]]
=============================================================================
