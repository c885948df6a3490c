------------------------------ MODULE CallPool ------------------------------
(***************************************************************************)
(* What the worker's background-call bookkeeping promises, with the queue  *)
(* and the slot counter hidden (apps/worker/src/lifecycle.ts, SPEC.md      *)
(* section 6.5, ADR 0034): a workspace has at most one call at a time, at  *)
(* most Cap creates, starts and operations run at once, and stops are      *)
(* outside the cap.                                                        *)
(***************************************************************************)
EXTENDS Integers, FiniteSets

CONSTANTS
    Workspaces,  \* workspace ids
    Cap          \* CONTROLLER_CONCURRENCY

VARIABLES
    waiting,     \* workspaces whose call waits for a slot
    running,     \* workspaces whose call holds a slot
    stopping,    \* workspaces whose stop is being made
    ending       \* workspaces whose call has ended but is still recorded

vars == <<waiting, running, stopping, ending>>

Recorded == waiting \union running \union stopping \union ending

Init ==
    /\ waiting = {}
    /\ running = {}
    /\ stopping = {}
    /\ ending = {}

(* A create, start or operation is accepted, and begins at once if there is
   room. *)
Submit(w) ==
    /\ w \notin Recorded
    /\ \/ /\ waiting' = waiting \union {w}
          /\ UNCHANGED running
       \/ /\ Cardinality(running) < Cap
          /\ running' = running \union {w}
          /\ UNCHANGED waiting
    /\ UNCHANGED <<stopping, ending>>

(* A waiting call begins: only when fewer than Cap calls run. *)
Admit(w) ==
    /\ w \in waiting
    /\ Cardinality(running) < Cap
    /\ waiting' = waiting \ {w}
    /\ running' = running \union {w}
    /\ UNCHANGED <<stopping, ending>>

(* A stop begins at once, however many calls run. *)
SubmitStop(w) ==
    /\ w \notin Recorded
    /\ stopping' = stopping \union {w}
    /\ UNCHANGED <<waiting, running, ending>>

End(w) ==
    /\ w \in running \union stopping
    /\ running' = running \ {w}
    /\ stopping' = stopping \ {w}
    /\ ending' = ending \union {w}
    /\ UNCHANGED waiting

Forget(w) ==
    /\ w \in ending
    /\ ending' = ending \ {w}
    /\ UNCHANGED <<waiting, running, stopping>>

(* The worker exits: every call is abandoned. *)
Exit ==
    /\ waiting' = {}
    /\ running' = {}
    /\ stopping' = {}
    /\ ending' = {}

Next ==
    \/ \E w \in Workspaces :
         Submit(w) \/ Admit(w) \/ SubmitStop(w) \/ End(w) \/ Forget(w)
    \/ Exit

Spec == Init /\ [][Next]_vars
=============================================================================
