\* Violation: a crash tearing an appended frame's payload makes OpenManifestFile fail.
CONSTANTS
    TableIds <- MCTableIds
    LevelNums <- MCLevelNums
    DeletionsRewriteThreshold = 0
    DeletionsRatio = 1
    MaxChanges = 2
    MaxCalls = 2
    MaxFaults = 1
    Faults = {"crash"}
    CallersValid = TRUE
SPECIFICATION Spec
INVARIANTS
    TornTailTolerated
