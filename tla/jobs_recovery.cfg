SPECIFICATION FairSpec
CONSTANTS
    Jobs = {j1, j2, j3}
    Instances = {i1}
    Keys = {k1}
    None = None
    Faults = {}
    MaxCrashes = 2
INVARIANTS TypeOK InstallPhaseOwned
PROPERTIES AuthGivesBack EveryJobEnds
