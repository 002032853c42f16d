\* Violation: after a failed AddChanges a later successful one makes MANIFEST unreadable.
CONSTANTS
    TableIds <- MCTableIds
    LevelNums <- MCLevelNums
    DeletionsRewriteThreshold = 0
    DeletionsRatio = 1
    MaxChanges = 2
    MaxCalls = 3
    MaxFaults = 1
    Faults = {"ioerror"}
    CallersValid = TRUE
INIT MCInitStore
NEXT Next
INVARIANTS
    AckedManifestReplayable
