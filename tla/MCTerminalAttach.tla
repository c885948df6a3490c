-------------------------- MODULE MCTerminalAttach --------------------------
(* TerminalAttach for TLC: a student's browser and a helper's, or two
   students. *)
EXTENDS TerminalAttach

CONSTANTS a1, a2

MCAttachments == {a1, a2}
MCHelpers == {a2}
MCNoHelpers == {}
=============================================================================
