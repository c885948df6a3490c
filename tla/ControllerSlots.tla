-------------------------- MODULE ControllerSlots --------------------------
(***************************************************************************)
(* The worker's in-memory record of background controller calls: track,    *)
(* withSlot, runInBackground and stopInBackground of                       *)
(* apps/worker/src/lifecycle.ts.                                           *)
(*                                                                         *)
(* JavaScript runs one turn at a time, so each action below is the code    *)
(* between two awaits.  The interesting gap is between `next()`, which     *)
(* resolves a waiter's promise, and the turn in which that waiter goes on: *)
(* other turns, new submissions included, run in between.                  *)
(***************************************************************************)
EXTENDS Integers, Sequences, FiniteSets

CONSTANTS
    Workspaces,  \* workspace ids
    Cap          \* CONTROLLER_CONCURRENCY

ASSUME CapAssumption == Cap \in Nat \ {0}
ASSUME WorkspacesAssumption == IsFiniteSet(Workspaces)

VARIABLES
    inFlight,        \* keys of the inFlight map
    activeCalls,     \* slots taken
    waitingForSlot,  \* resolvers of the calls that wait, oldest first
    woken,           \* calls whose resolver was called and that have not gone on
    calling,         \* calls past withSlot's wait
    stops            \* stops, which never enter withSlot

vars == <<inFlight, activeCalls, waitingForSlot, woken, calling, stops>>

Queued == {waitingForSlot[i] : i \in 1..Len(waitingForSlot)}

Init ==
    /\ inFlight = {}
    /\ activeCalls = 0
    /\ waitingForSlot = <<>>
    /\ woken = {}
    /\ calling = {}
    /\ stops = {}

(* runInBackground: track records the id, and withSlot runs up to its first
   await in the same turn. *)
RunInBackground(w) ==
    /\ w \notin inFlight
    /\ inFlight' = inFlight \union {w}
    /\ IF activeCalls < Cap
       THEN /\ activeCalls' = activeCalls + 1
            /\ calling' = calling \union {w}
            /\ UNCHANGED waitingForSlot
       ELSE /\ waitingForSlot' = Append(waitingForSlot, w)
            /\ UNCHANGED <<activeCalls, calling>>
    /\ UNCHANGED <<woken, stops>>

(* stopInBackground: tracked, but outside the cap. *)
StopInBackground(w) ==
    /\ w \notin inFlight
    /\ inFlight' = inFlight \union {w}
    /\ stops' = stops \union {w}
    /\ UNCHANGED <<activeCalls, waitingForSlot, woken, calling>>

(* The awaited promise of a woken waiter continues. *)
Resume(w) ==
    /\ w \in woken
    /\ woken' = woken \ {w}
    /\ calling' = calling \union {w}
    /\ UNCHANGED <<inFlight, activeCalls, waitingForSlot, stops>>

(* Faulty variants of ReleaseSlot, for testing the properties: the first drops
   the waiter's slot and leaves the waiter to take it again; the second wakes
   the newest waiter first. *)
ReleaseSlotDips(w) ==
    /\ w \in calling
    /\ calling' = calling \ {w}
    /\ activeCalls' = activeCalls - 1
    /\ IF waitingForSlot # <<>>
       THEN /\ woken' = woken \union {Head(waitingForSlot)}
            /\ waitingForSlot' = Tail(waitingForSlot)
       ELSE UNCHANGED <<woken, waitingForSlot>>
    /\ UNCHANGED <<inFlight, stops>>

ReleaseSlotNewestFirst(w) ==
    /\ w \in calling
    /\ calling' = calling \ {w}
    /\ IF waitingForSlot # <<>>
       THEN /\ woken' = woken \union {waitingForSlot[Len(waitingForSlot)]}
            /\ waitingForSlot' = SubSeq(waitingForSlot, 1, Len(waitingForSlot) - 1)
            /\ UNCHANGED activeCalls
       ELSE /\ activeCalls' = activeCalls - 1
            /\ UNCHANGED <<woken, waitingForSlot>>
    /\ UNCHANGED <<inFlight, stops>>

(* withSlot's finally block: the call ended, well or badly. *)
ReleaseSlot(w) ==
    /\ w \in calling
    /\ calling' = calling \ {w}
    /\ IF waitingForSlot # <<>>
       THEN /\ woken' = woken \union {Head(waitingForSlot)}
            /\ waitingForSlot' = Tail(waitingForSlot)
            /\ UNCHANGED activeCalls
       ELSE /\ activeCalls' = activeCalls - 1
            /\ UNCHANGED <<woken, waitingForSlot>>
    /\ UNCHANGED <<inFlight, stops>>

EndStop(w) ==
    /\ w \in stops
    /\ stops' = stops \ {w}
    /\ UNCHANGED <<inFlight, activeCalls, waitingForSlot, woken, calling>>

(* track's finally: a later turn than the slot's release. *)
Settle(w) ==
    /\ w \in inFlight
    /\ w \notin Queued \union woken \union calling \union stops
    /\ inFlight' = inFlight \ {w}
    /\ UNCHANGED <<activeCalls, waitingForSlot, woken, calling, stops>>

(* The worker exits and starts again with empty maps. *)
Restart ==
    /\ inFlight' = {}
    /\ activeCalls' = 0
    /\ waitingForSlot' = <<>>
    /\ woken' = {}
    /\ calling' = {}
    /\ stops' = {}

Next ==
    \/ \E w \in Workspaces :
         \/ RunInBackground(w)
         \/ StopInBackground(w)
         \/ Resume(w)
         \/ ReleaseSlot(w)
         \/ EndStop(w)
         \/ Settle(w)
    \/ Restart

Spec == Init /\ [][Next]_vars

(* What the event loop and the controller client's timeouts give: a resolved
   promise continues, a call ends, and its record is dropped. *)
Fairness ==
    \A w \in Workspaces :
        /\ WF_vars(Resume(w))
        /\ WF_vars(ReleaseSlot(w))
        /\ WF_vars(Settle(w))

FairSpec == Spec /\ Fairness

-----------------------------------------------------------------------------
TypeOK ==
    /\ inFlight \subseteq Workspaces
    /\ activeCalls \in 0..Cap
    /\ waitingForSlot \in Seq(Workspaces)
    /\ woken \subseteq Workspaces
    /\ calling \subseteq Workspaces
    /\ stops \subseteq Workspaces

(* Every slot counted in activeCalls belongs to exactly one call that runs or
   is about to, although the hand-over to a waiter and its going on are two
   turns: the count neither dips below the calls nor leaks a slot. *)
SlotsAccountedFor ==
    /\ Cardinality(calling) + Cardinality(woken) = activeCalls
    /\ calling \intersect woken = {}

(* A workspace is in at most one stage of one call, once in the queue, and
   recorded in inFlight until it has left them all. *)
OneCallEach ==
    /\ \A i, j \in 1..Len(waitingForSlot) :
         waitingForSlot[i] = waitingForSlot[j] => i = j
    /\ Queued \intersect (woken \union calling \union stops) = {}
    /\ stops \intersect (woken \union calling) = {}
    /\ Queued \union woken \union calling \union stops \subseteq inFlight

(* No call waits while a slot is free (CONTROLLER_CONCURRENCY is used in
   full): a wake-up is never lost. *)
NoIdleSlot == waitingForSlot # <<>> => activeCalls = Cap

(* A queued call gets a slot or is abandoned by a restart, even when new
   calls keep arriving. *)
QueuedCallRuns ==
    \A w \in Workspaces : (w \in Queued) ~> (w \notin Queued)

(* The detailed bookkeeping keeps the promise of CallPool: a woken waiter
   still counts as waiting there, so its going on must find room. *)
Pool == INSTANCE CallPool WITH
    waiting <- Queued \union woken,
    running <- calling,
    stopping <- stops,
    ending <- inFlight \ (Queued \union woken \union calling \union stops)

ImplementsCallPool == Pool!Spec
=============================================================================
