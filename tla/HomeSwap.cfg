SPECIFICATION SwapSpec
CONSTANTS
    MaxOps = 2
    MaxTime = 3
    MaxFaults = 3
    MaxDeletes = 1
    Troubles = {{}, {"fail"}, {"fail", "delete"}, {"fail", "late"}}
PROPERTIES
    ReplacedIsSwapped
    WholeHomeUntouched
    RetriesFinishTheSwap
    OperationEnds
CHECK_DEADLOCK FALSE
