SPECIFICATION FairSpec
CONSTANTS
    a1 = a1
    a2 = a2
    None = None
    Attachments <- MCAttachments
    Helpers <- MCNoHelpers
    Rooms = {2}
    MaxPending = 1
    MaxInput = 2
CHECK_DEADLOCK FALSE
INVARIANT HolderIsLatest
