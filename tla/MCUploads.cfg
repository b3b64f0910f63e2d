SPECIFICATION UploadsSpec
CONSTANTS
    r1 = r1
    r2 = r2
    Request = {r1, r2}
    Null = Null
    File <- Sends
    MaxPieces = 2
    MaxPages = 2
    MaxFaults = 1
INVARIANTS
    ReadAsPrinted
    OneImportPerFile
    TemporaryFilesGo
CHECK_DEADLOCK FALSE
