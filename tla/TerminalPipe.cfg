SPECIFICATION PipeFairSpec
CONSTANTS
    MaxFrames = 3
    MaxQueued = 1
CHECK_DEADLOCK FALSE
INVARIANT ToldBeforeClose
PROPERTIES RevokedCloses GivesBack
