SPECIFICATION GuardSpec
CONSTANT Worlds <- MCDivergences
CHECK_DEADLOCK FALSE
INVARIANTS
    StopLifts
    RebootNeverHides
PROPERTIES
    AlwaysFresh
    OnlySinceTheRestart
