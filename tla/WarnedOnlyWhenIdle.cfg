SPECIFICATION Spec
CONSTANTS
    Sockets = {}
    Ttl = 1
    Warning = 2
    WriteInterval = 1
    Graces = {0}
    Idles = {2}
    Caps = {2}
    Holds = {2}
    MaxSweep = 1
    MaxTime = 4
    MaxEnv = 2
    EnvUntil = 4
PROPERTY WarnedOnlyWhenIdle
CHECK_DEADLOCK FALSE
