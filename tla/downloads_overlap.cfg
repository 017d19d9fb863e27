CONSTANTS
    Targets = 1
    InstallFaults = 1
    InstallStops = 0
SPECIFICATION InstallerSpec
INVARIANTS
    OneDownload
CHECK_DEADLOCK FALSE
