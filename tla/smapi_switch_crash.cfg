CONSTANTS
    SmapiFaults = 0
    SmapiStops = 1
SPECIFICATION SmapiSpec
INVARIANTS
    SwitchUndone
CHECK_DEADLOCK FALSE
