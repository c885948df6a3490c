SPECIFICATION Spec
CONSTANTS
    Sockets = {s1}
    Ttl = 9
    Warning = 2
    WriteInterval = 1
    Graces = {3}
    Idles = {0}
    Caps = {2}
    Holds = {2}
    MaxSweep = 1
    MaxTime = 6
    MaxEnv = 3
    EnvUntil = 6
PROPERTIES
    ReconnectCancels
    NoConnectionIsStopped
CHECK_DEADLOCK FALSE
