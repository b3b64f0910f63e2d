\* A crash, then the command is run again, and fails, before a server start.
CONSTANTS
    k1 = k1
    k2 = k2
    Key = {k1, k2}
    NoKey = NoKey
    NoFile = NoFile
    NoJournal = NoJournal
    MaxRestores = 2
    MaxCrashes = 1
    MaxErrors = 1
SPECIFICATION Spec
SYMMETRY Symmetry
CHECK_DEADLOCK FALSE
PROPERTY
    JournalKeptUntilOpen
