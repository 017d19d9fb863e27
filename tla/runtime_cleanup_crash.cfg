CONSTANTS
    RepairLimit = 2
    MaxFaults = 0
    MaxCrashes = 1
SPECIFICATION Spec
INVARIANTS
    SessionRestored
CHECK_DEADLOCK FALSE
