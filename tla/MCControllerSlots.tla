------------------------- MODULE MCControllerSlots -------------------------
(* Four workspaces and two slots: two calls can wait at once, so hand-over,
   queueing order and new submissions during a hand-over all happen. *)
EXTENDS ControllerSlots
=============================================================================
