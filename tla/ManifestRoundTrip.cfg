\* Crashes at every step, callers pass ChangeSets that apply: MANIFEST replays
\* to the in-memory Manifest, and the log implements ManifestAbstract.
CONSTANTS
    TableIds <- MCTableIds
    LevelNums <- MCLevelNums
    DeletionsRewriteThreshold = 1
    DeletionsRatio = 1
    MaxChanges = 1
    MaxCalls = 5
    MaxFaults = 2
    Faults = {"crash"}
    CallersValid = TRUE
SPECIFICATION Spec
INVARIANTS
    ReopenIdentical
PROPERTY
    ManifestRefinement
