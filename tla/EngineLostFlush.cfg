\* A MANIFEST append fails inside AddTableMeta during a flush.
CONSTANTS
    k1 = k1
    k2 = k2
    Keys <- MCKeys
    MaxWrites = 4
    MemTableSize = 1
    MaxFaults = 2
    Faults = {"manifestError"}
    CloseEnabled = FALSE
    EntrySizes = {1}
    NumCompactors = 1
    GetsEnabled = FALSE
SYMMETRY MCSymmetry
SPECIFICATION Spec
INVARIANTS
    DurableAcked
