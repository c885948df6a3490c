------------------------ MODULE MCWorkspaceLifecycle ------------------------
(* WorkspaceLifecycle for TLC.  Workspaces are told apart by nothing but their
   name, so they may be permuted (only used where no liveness is checked). *)
EXTENDS WorkspaceLifecycle, TLC

Symmetry == Permutations(Workspaces)
=============================================================================
