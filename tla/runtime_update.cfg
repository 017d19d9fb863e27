CONSTANTS
    RepairLimit = 1
    MaxFaults   = 2
    MaxCrashes  = 2
    SmapiFaults = 3
    SmapiStops  = 3
    Targets       = 2
    InstallFaults = 2
    InstallStops  = 1
SPECIFICATION UpdatesSpec
INVARIANTS
    UpdatesTypeOK
    OutcomeTrue
    SmapiOutcome
    ShownIsTrue
PROPERTIES
    BootNeverStarts
    CrashSettles
    DownloadKept
\* no job runs, the user is content and the bounds are used up
CHECK_DEADLOCK FALSE
