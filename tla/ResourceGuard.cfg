SPECIFICATION GuardSpec
CONSTANT Worlds <- MCWorlds
CHECK_DEADLOCK FALSE
INVARIANTS
    HeldExactly
    NeverHides
PROPERTIES
    ThrottleIsFresh
    FlagOfThisRun
