SPECIFICATION FairSpec
CONSTANTS
    Workspaces = {w1}
    Cap = 1
    MaxStartRetries = 1
    Operations = {"reset-docker", "rebuild"}
    OutsideStatuses = {"Missing", "Stopped", "Running"}
    MaxEnv = 1
    MaxFaults = 1
PROPERTY Converges
