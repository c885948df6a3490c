SPECIFICATION FairSpec
CONSTANTS
    Workspaces = {w1, w2, w3, w4}
    Cap = 2
INVARIANTS
    SlotsAccountedFor
PROPERTIES
    QueuedCallRuns
    ImplementsCallPool
