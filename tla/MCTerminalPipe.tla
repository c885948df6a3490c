--------------------------- MODULE MCTerminalPipe ---------------------------
(* TerminalPipe for TLC: the bounds are in the configuration. *)
EXTENDS TerminalPipe
=============================================================================
