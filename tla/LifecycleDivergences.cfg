SPECIFICATION Spec
CONSTANTS
    Workspaces = {w1}
    Cap = 1
    MaxStartRetries = 1
    Operations = {"reset-docker"}
    OutsideStatuses = {"Missing", "Stopped", "Running"}
    MaxEnv = 4
    MaxFaults = 0
PROPERTIES
    ArchivedNeverStarted
    FailedStopNotRetried
    OperationIsCleared
    ConnectWins
