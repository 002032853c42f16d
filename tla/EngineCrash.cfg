\* Crashes, failed flushes and WAL writes, entries larger than a memtable,
\* a Get beside the Sets, no Close: acknowledged writes survive, only empty
\* WALs are left behind, and a concurrent Get is never stale.
CONSTANTS
    k1 = k1
    k2 = k2
    Keys <- MCKeys
    MaxWrites = 4
    MemTableSize = 1
    MaxFaults = 1
    Faults = {"crash", "flushError", "walError"}
    CloseEnabled = FALSE
    EntrySizes = {1, 2}
    NumCompactors = 1
    GetsEnabled = TRUE
SYMMETRY MCSymmetry
SPECIFICATION Spec
INVARIANTS
    DurableAcked
    WalsHeld
    ConcurrentGetFresh
