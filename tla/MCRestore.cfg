\* Restores any step of which may crash or fail, its undoing included, run again
\* with or without a server start in between.
CONSTANTS
    k1 = k1
    k2 = k2
    Key = {k1, k2}
    NoKey = NoKey
    NoFile = NoFile
    NoJournal = NoJournal
    MaxRestores = 3
    MaxCrashes = 2
    MaxErrors = 2
SPECIFICATION Spec
SYMMETRY Symmetry
CHECK_DEADLOCK FALSE
INVARIANTS
    WorkspaceWithinReach
    StartsAfterAFault
    SafetyBackupFirst
