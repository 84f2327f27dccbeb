---------------------------- MODULE MCRacerChip ----------------------------
(* Small instances of RacerChip: two clusters of two compute units, every    *)
(* program of up to MaxLength instructions over a small repertoire.          *)
EXTENDS RacerChip

CONSTANT MaxLength

\* SETBULK 0 2 2 and 1 2 2 select one unit in each cluster.
MaskInstructions ==
    {[op |-> "SETALL", args |-> <<>>], [op |-> "UNSETALL", args |-> <<>>],
     [op |-> "SET", args |-> <<1>>],   [op |-> "UNSET", args |-> <<1>>],
     [op |-> "SETBULK", args |-> <<0, 2, 2>>],
     [op |-> "UNSETBULK", args |-> <<0, 2, 1>>]}

\* ADD16 is pipelined, MUX16 is not; LOADs and STOREs are in no cost table.
ComputeInstructions ==
    {[op |-> "ADD16", args |-> <<2, 1>>], [op |-> "MUX16", args |-> <<1, 1>>],
     [op |-> "SHIFT", args |-> <<1, 2>>], [op |-> "PROP", args |-> <<1, 2>>]}
BusInstructions ==
    {[op |-> "SLLOAD", args |-> <<1, 1, 1>>], [op |-> "STORE", args |-> <<1, 1, 1>>]}

ProgramsOver(instrs) == UNION {[1 .. n -> instrs] : n \in 0 .. MaxLength}

\* Every program over the repertoire, and longer ones of what the shipped
\* programs are made of: one instruction more makes room for two epochs.
ShippedInstructions == {[op |-> "SETBULK", args |-> <<0, 2, 2>>],
                        [op |-> "UNSETALL", args |-> <<>>],
                        [op |-> "ADD16", args |-> <<2, 1>>],
                        [op |-> "MUX16", args |-> <<1, 1>>],
                        [op |-> "SHIFT", args |-> <<1, 2>>]}
AllPrograms == ProgramsOver(MaskInstructions \cup ComputeInstructions
                                \cup BusInstructions)
                   \cup [1 .. MaxLength + 1 -> ShippedInstructions]

Cost(e, l, we, wl) == [energyCost |-> e, latency |-> l,
                       warmupEnergy |-> we, warmupLatency |-> wl]

\* As in updatedOperationCosts.csv: both warm-up costs are zero, or neither is.
UpdatedCosts == [op \in {"ADD16", "MUX16"} |->
                    IF op = "ADD16" THEN Cost(2, 1, 1, 2) ELSE Cost(3, 2, 0, 0)]
=============================================================================
