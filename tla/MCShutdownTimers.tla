-------------------------- MODULE MCShutdownTimers --------------------------
(* ShutdownTimers for TLC.  Nothing tells one socket from another. *)
EXTENDS ShutdownTimers, TLC

Symmetry == Permutations(Sockets)
=============================================================================
