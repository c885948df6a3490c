SPECIFICATION FairSpec
CONSTANTS
    a1 = a1
    a2 = a2
    None = None
    Attachments <- MCAttachments
    Helpers <- MCHelpers
    Rooms = {1, 2}
    MaxPending = 1
    MaxInput = 2
INVARIANTS
    ClosedHoldsNothing
    InputInOrder
PROPERTIES
    ExitIsTold
CHECK_DEADLOCK FALSE
