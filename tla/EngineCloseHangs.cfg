\* StartCompacter then LSM.Close: the counter closer.Close() waits on.
CONSTANTS
    k1 = k1
    k2 = k2
    Keys <- MCKeys
    MaxWrites = 2
    MemTableSize = 2
    MaxFaults = 0
    Faults = {}
    CloseEnabled = TRUE
    EntrySizes = {1}
    NumCompactors = 2
    GetsEnabled = FALSE
SYMMETRY MCSymmetry
SPECIFICATION Spec
INVARIANTS
    CloserCountsWorkers
