SPECIFICATION Spec
CONSTANTS
    Jobs = {j1, j2}
    None = None
INVARIANT UnfinishedImportAlone
CHECK_DEADLOCK FALSE
