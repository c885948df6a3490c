SPECIFICATION Spec
CONSTANTS
    Workspaces = {w1}
    Cap = 1
    MaxStartRetries = 1
    Operations = {"reset-docker", "rebuild", "replace-home"}
    OutsideStatuses = {"Missing", "Stopped", "Running", "Other"}
    MaxEnv = 2
    MaxFaults = 1
INVARIANTS
    OneCallAtATime
    PickedStayFree
    RowAgreesWithInstance
    AgentHoldsRowToken
PROPERTIES
    WishToRunSurvives
