SPECIFICATION Spec
CONSTANTS
    Sockets = {s1}
    Ttl = 1
    Warning = 2
    WriteInterval = 1
    Graces = {0, 2}
    Idles = {0, 2}
    Caps = {0, 2}
    Holds = {2}
    MaxSweep = 1
    MaxTime = 6
    MaxEnv = 2
    EnvUntil = 5
PROPERTY
    SteadySocketHoldsUp
    GraceRestartsAtHoldEnd
    SeenHoldHoldsUp
    HeldNotIdleStopped
    IdleStopNotRightAfterActivity
CHECK_DEADLOCK FALSE
