----------------------------- MODULE MCHomeSwap -----------------------------
(* HomeSwap for TLC: the bounds are in the configurations. *)
EXTENDS HomeSwap
=============================================================================
