SPECIFICATION InstanceSpec
CONSTANTS
    Jobs            = {j1, j2}
    None            = None
    Saves           = {s1, s2}
    NoSave          = NoSave
    MaxFaults       = 2
    MaxCrashes      = 1
    GameSaves       = 2
    LibraryRequests = 3
    LibraryFaults   = 1
    LibraryStops    = 1
    ModRequests     = 3
    ModFaults       = 1
    ModStops        = 1
    Commands        = {c1}
    Readers         = {r1, r2}
    GameDeaths      = 1
INVARIANTS InstanceTypesOK OwnerExclusive JobsApart PostedOnce Decided WorldKept ModsKept StartsAsProfiled CutNeverRetried OutcomesReachReaders
PROPERTIES ProgressIsNeverUndone ImplementsOutcome
\* an instance with a deletion record accepts nothing more, and the bounds run out
CHECK_DEADLOCK FALSE
