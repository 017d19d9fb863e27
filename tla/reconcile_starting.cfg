SPECIFICATION Spec
CONSTANTS
    Jobs = {j1, j2}
    None = None
PROPERTY ReconcileLeavesStarting
CHECK_DEADLOCK FALSE
