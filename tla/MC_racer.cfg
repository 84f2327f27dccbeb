\* Every program of up to four instructions and two-epoch programs of five, with
\* costs like the shipped table.
CONSTANTS
    Programs <- AllPrograms
    NumClusters = 2
    ClusterSize = 2
    opTab <- UpdatedCosts
    hopLatCost = 3
    hopEnergyCost = 2
    propLatCost = 1
    propEnergyCost = 1
    dynamicPower = 1
    MaxLength = 4
SPECIFICATION FairSpec
INVARIANTS
    TypeOK
    SequencesSplitTheMask
    SequencesAreMaximal
    ChargedOncePerUnit
PROPERTY WellFormedProgramsFinish
