\* Every fault, entries larger than a memtable, the compaction pool, LSM.Close
\* and restarts: reads see the newest write, and new fids are fresh.
CONSTANTS
    k1 = k1
    k2 = k2
    Keys <- MCKeys
    MaxWrites = 4
    MemTableSize = 2
    MaxFaults = 2
    Faults = {"crash", "flushError", "manifestError", "walError"}
    CloseEnabled = TRUE
    EntrySizes = {1, 3}
    NumCompactors = 2
    GetsEnabled = FALSE
SYMMETRY MCSymmetry
SPECIFICATION Spec
INVARIANTS
    TypeOK
    FreshestGet
    FreshFid
