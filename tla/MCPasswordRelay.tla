--------------------------- MODULE MCPasswordRelay ---------------------------
(* PasswordRelay for TLC.  Posts are told apart by nothing but their name, nor
   are accounts. *)
EXTENDS PasswordRelay, TLC

Symmetry == Permutations(Posts) \cup Permutations(Accounts)
=============================================================================
