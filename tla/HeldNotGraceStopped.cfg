SPECIFICATION Spec
CONSTANTS
    Sockets = {}
    Ttl = 1
    Warning = 2
    WriteInterval = 1
    Graces = {1}
    Idles = {0}
    Caps = {2}
    Holds = {2}
    MaxSweep = 1
    MaxTime = 3
    MaxEnv = 2
    EnvUntil = 3
PROPERTY HeldNotGraceStopped
CHECK_DEADLOCK FALSE
