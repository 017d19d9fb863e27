SPECIFICATION Spec
CONSTANTS
    ImportFaults   = 3
    ImportCrashes  = 3
    Worlds         = 2
    LifetimeFaults = 2
    LifetimeStops  = 1
    GroupSize      = 2
    GroupFaults    = 2
    GroupStops     = 2
    Plans          = 1
    UpgradeFaults  = 2
    UpgradeStops   = 1
    Names          = {u1, u2, u3}
    Requests       = {q1, q2}
    Day            = 3
    Grace          = 1
    Horizon        = 7
    Disturbances   = 2
    PlayerRoles    = {r1, r2}
    UpdateSize     = 1
    RoleKeys       = 2
    CredentialFaults = 1
INVARIANTS TypesOK CommandsOnce FailedChangesNothing
           ServedAsRecorded WholeOrNothing ClaimsExcludeJobs
           GroupAccounted ReportsTrue Administered ScheduleKept FilesAgree
PROPERTIES OthersKept WritersSaved GroupsNeedConsent AdminsGranted NeverReopened
\* every component comes to rest for good when its operations are over and its bounds used up
CHECK_DEADLOCK FALSE
