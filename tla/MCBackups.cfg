SPECIFICATION BackupsLiveSpec
CONSTANTS
    Daily = 1
    Weekly = 2
    Monthly = 2
    DaysPerWeek = 2
    DaysPerMonth = 4
    Slots = 3
    UtcAhead = 1
    MaxTime = 12
    MaxManual = 1
    MaxFaults = 1
    MaxRelease = 2
INVARIANTS ScheduledBackupsKept FilesAccountedFor
PROPERTIES WayBack DueBackupIsMade
CHECK_DEADLOCK FALSE
