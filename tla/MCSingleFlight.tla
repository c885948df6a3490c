--------------------------- MODULE MCSingleFlight ---------------------------
(* Three requests at once, so that one can park behind two that left, and two
   can be resumed in turn; two runs, so that an overlap would show. *)
EXTENDS SingleFlight
=============================================================================
