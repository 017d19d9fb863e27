SPECIFICATION Spec
CONSTANTS
    Jobs = {j1, j2}
    Instances = {i1, i2}
    Keys = {k1}
    None = None
    Faults = {"db", "panic", "cancel"}
    MaxCrashes = 1
SYMMETRY Symmetric
INVARIANTS SingleInstall
