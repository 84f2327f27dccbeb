\* Every pair of frequencies up to 12: ratios below, at and above one.
CONSTANT Frequencies = {1, 2, 3, 4, 5, 6, 7, 8, 9, 10, 11, 12}
SPECIFICATION Spec
INVARIANTS
    MemoryKeepsPace
    IndInv
