\* Two calls in the server and one in the command line tool, interleaving at
\* every await.
CONSTANTS
    c1 = c1
    c2 = c2
    c3 = c3
    server = server
    cli = cli
    Call = {c1, c2, c3}
    Process = {server, cli}
    Host <- HostDef
    Server = server
    NoLock = NoLock
SPECIFICATION MaintenanceLiveSpec
CHECK_DEADLOCK FALSE
INVARIANTS
    SerialMutualExclusion
    WorkerPaused
    NoOrphanLock
PROPERTIES
    WorkerResumes
