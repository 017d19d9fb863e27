CONSTANTS
    Saves = {s1}
    NoSave = NoSave
    MaxFaults = 1
    MaxCrashes = 1
SPECIFICATION NewGameSpec
PROPERTIES
    StoppedBeforeRestore
CHECK_DEADLOCK FALSE
