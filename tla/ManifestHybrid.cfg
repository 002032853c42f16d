\* Violation: a REWRITEMANIFEST left by a crash is appended to by the next rewrite.
CONSTANTS
    TableIds <- MCTableIds
    LevelNums <- MCLevelNums
    DeletionsRewriteThreshold = 0
    DeletionsRatio = 1
    MaxChanges = 2
    MaxCalls = 2
    MaxFaults = 1
    Faults = {"crash"}
    CallersValid = TRUE
SPECIFICATION Spec
INVARIANTS
    NoHybridManifest
