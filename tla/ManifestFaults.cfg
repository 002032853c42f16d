\* Every fault and any ChangeSet: the in-memory Manifest stays well formed.
CONSTANTS
    TableIds <- MCTableIds
    LevelNums <- MCLevelNums
    DeletionsRewriteThreshold = 0
    DeletionsRatio = 1
    MaxChanges = 2
    MaxCalls = 3
    MaxFaults = 1
    Faults = {"crash", "ioerror"}
    CallersValid = FALSE
SPECIFICATION Spec
INVARIANTS
    TypeOK
    LevelsAgree
