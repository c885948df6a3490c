SPECIFICATION FairSpec
CONSTANTS
    Copies = {"copy"}
    Backups = {"import"}
    SetDeletes = {"set"}
    VmDeletes = {"kept"}
    PresenceTtl = 2
    ClaimTimeout = 2
    Worlds <- MCWorlds
    MaxFaults = 2
INVARIANTS
    InterruptedIsLost
    CopyHeld
    OnceOnly
PROPERTY RequestsEnd
