--------------------------- MODULE MCBackupChannel ---------------------------
(* BackupChannel for TLC.  A copy beside a delete in the VM, whose loop skips
   a round; a copy alone, whose row may expire; two jobs of the host, one of
   which may be followed by the other in the same run. *)
EXTENDS BackupChannel

MCWorlds ==
    {[asks |-> {"copy", "kept"}, skips |-> 1],
     [asks |-> {"copy"}, skips |-> 2],
     [asks |-> {"import", "set"}, skips |-> 0]}
=============================================================================
