SPECIFICATION Spec
CONSTANTS
    Terminals = {t1, t2, t3}
    MaxTerminals = 2
    Projects = {p1}
    p1 = p1
    NoProject = NoProject
    CustomNames = {custom}
    custom = custom
    Worlds <- MCWorlds
SYMMETRY Symmetry
CHECK_DEADLOCK FALSE
INVARIANTS
    NoOrphanSession
    StoppedHasNoOpen
    NamesNeverShared
