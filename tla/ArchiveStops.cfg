SPECIFICATION FairSpec
CONSTANTS
    Workspaces = {w1}
    Cap = 1
    MaxStartRetries = 1
    Operations = {}
    OutsideStatuses = {"Missing", "Stopped", "Running"}
    MaxEnv = 3
    MaxFaults = 0
PROPERTY ArchiveStops
