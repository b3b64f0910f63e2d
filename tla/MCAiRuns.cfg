CONSTANTS
    Job = {j1}
    MaxAttempts = 2
    Transaction = {t1, t2}
    home = home
    cloud = cloud
    Local <- Local1
    Remote <- Remote1
    Form <- Forms
    Selection <- All
    Secret = {k1, k2}
    MaxChanges = 4
    MaxSaves = 2
    MaxRuns = 2
    MaxFaults = 1
    None = None
SYMMETRY Symmetry
SPECIFICATION Spec
INVARIANTS
    RequestAsSaved
    ShownIsCurrent
    RunsAccountedFor
CHECK_DEADLOCK FALSE
