SPECIFICATION Spec
CONSTANTS
    Copies = {"copy"}
    Backups = {"import"}
    SetDeletes = {"set"}
    VmDeletes = {"kept"}
    PresenceTtl = 2
    ClaimTimeout = 2
    Worlds <- MCWorlds
    MaxFaults = 0
INVARIANT CopyAlwaysHeld
