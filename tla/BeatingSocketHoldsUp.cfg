SPECIFICATION Spec
CONSTANTS
    Sockets = {s1}
    Ttl = 1
    Warning = 2
    WriteInterval = 1
    Graces = {2}
    Idles = {0}
    Caps = {2}
    Holds = {2}
    MaxSweep = 1
    MaxTime = 6
    MaxEnv = 2
    EnvUntil = 6
PROPERTY BeatingSocketHoldsUp
CHECK_DEADLOCK FALSE
