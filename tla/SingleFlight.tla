---------------------------- MODULE SingleFlight ----------------------------
(***************************************************************************)
(* The workspace controller's singleFlight and join                        *)
(* (apps/workspace-controller/src/server.ts), for one key: the requests to *)
(* create, start, stop, rebuild or reset one instance share one run of the *)
(* work, a run that everyone has left is aborted, and a request that finds *)
(* an aborted run waits until it has wound down.                           *)
(*                                                                         *)
(* A turn of the event loop is a request that arrives, a caller that hangs *)
(* up or whose budget runs out, or work that settles.  What a settled      *)
(* promise sets off (forget, the answers, the callers parked on `settled`) *)
(* runs before the next turn: the parked callers go on one by one while    *)
(* `resuming` is not empty.  Every route passes a signal, so a caller      *)
(* without one is left out.                                                *)
(***************************************************************************)
EXTENDS Naturals, Sequences, FiniteSets

CONSTANTS
    Callers,   \* requests that may be open at once
    Flights,   \* identities of runs, used again once settled
    NoFlight

ASSUME CallersAssumption == IsFiniteSet(Callers)
ASSUME NoFlightAssumption == NoFlight \notin Flights

VARIABLES
    entry,     \* inflight.get(key)
    running,   \* runs whose work has not settled
    aborted,   \* runs whose signal is aborted
    waiters,   \* Flight.waiters
    phase,     \* of a caller: idle, waiting on a run, or parked on `settled`
    on,        \* the run a caller waits on
    gone,      \* callers whose own signal is aborted
    parked,    \* callers parked on a run's `settled`, in order
    resuming   \* parked callers whose run has settled, in order

vars == <<entry, running, aborted, waiters, phase, on, gone, parked, resuming>>

Waiting(f) == {c \in Callers : phase[c] = "waiting" /\ on[c] = f}

Init ==
    /\ entry = NoFlight
    /\ running = {}
    /\ aborted = {}
    /\ waiters = [f \in Flights |-> 0]
    /\ phase = [c \in Callers |-> "idle"]
    /\ on = [c \in Callers |-> NoFlight]
    /\ gone = {}
    /\ parked = [f \in Flights |-> <<>>]
    /\ resuming = <<>>

(* join, for a caller that has not left and for one that has. *)
join(f, c) ==
    \/ /\ c \notin gone'
       /\ waiters' = [waiters EXCEPT ![f] = @ + 1]
       /\ phase' = [phase EXCEPT ![c] = "waiting"]
       /\ on' = [on EXCEPT ![c] = f]
       /\ UNCHANGED aborted
    \/ /\ c \in gone'
       /\ aborted' = IF waiters[f] = 0 THEN aborted \union {f} ELSE aborted
       /\ phase' = [phase EXCEPT ![c] = "idle"]
       /\ UNCHANGED <<waiters, on>>

(* Faulty variants of singleFlight, for testing: the first starts a fresh run
   beside one that winds down, the second lets the newest parked caller go on
   first. *)
singleFlightOverlaps(c) ==
    \E f \in IF entry = NoFlight \/ entry \in aborted
             THEN Flights \ running ELSE {entry} :
        /\ entry' = f
        /\ running' = running \union {f}
        /\ join(f, c)
        /\ UNCHANGED parked

singleFlightNewestFirst(c) ==
    \/ /\ entry \in aborted
       /\ parked' = [parked EXCEPT ![entry] = <<c>> \o @]
       /\ phase' = [phase EXCEPT ![c] = "parked"]
       /\ UNCHANGED <<entry, running, aborted, waiters, on>>
    \/ /\ entry \notin aborted
       /\ \E f \in IF entry = NoFlight THEN Flights \ running ELSE {entry} :
            /\ entry' = f
            /\ running' = running \union {f}
            /\ join(f, c)
       /\ UNCHANGED parked

singleFlight(c) ==
    \/ /\ entry \in aborted
       /\ parked' = [parked EXCEPT ![entry] = Append(@, c)]
       /\ phase' = [phase EXCEPT ![c] = "parked"]
       /\ UNCHANGED <<entry, running, aborted, waiters, on>>
    \/ /\ entry \notin aborted
       /\ \E f \in IF entry = NoFlight THEN Flights \ running ELSE {entry} :
            /\ entry' = f
            /\ running' = running \union {f}
            /\ join(f, c)
       /\ UNCHANGED parked

(* A request arrives.  Its signal is new. *)
Arrive(c) ==
    /\ resuming = <<>>
    /\ phase[c] = "idle"
    /\ gone' = gone \ {c}
    /\ singleFlight(c)
    /\ UNCHANGED resuming

(* A faulty HangUp, for testing: the caller leaves and is still counted. *)
HangUpUncounted(c) ==
    /\ resuming = <<>>
    /\ phase[c] # "idle"
    /\ c \notin gone
    /\ gone' = gone \union {c}
    /\ phase' = [phase EXCEPT ![c] = IF @ = "waiting" THEN "idle" ELSE @]
    /\ UNCHANGED <<entry, running, aborted, waiters, on, parked, resuming>>

(* The caller's signal aborts: callerSignal's timer or its close handler, and
   onAbort.  A parked caller has no listener yet. *)
HangUp(c) ==
    /\ resuming = <<>>
    /\ phase[c] # "idle"
    /\ c \notin gone
    /\ gone' = gone \union {c}
    /\ \/ /\ phase[c] = "waiting"
          /\ waiters' = [waiters EXCEPT ![on[c]] = @ - 1]
          /\ aborted' = IF waiters[on[c]] = 1 THEN aborted \union {on[c]} ELSE aborted
          /\ phase' = [phase EXCEPT ![c] = "idle"]
       \/ /\ phase[c] = "parked"
          /\ UNCHANGED <<waiters, aborted, phase>>
    /\ UNCHANGED <<entry, running, on, parked, resuming>>

(* The work settles, well or badly: forget, then the answers. *)
Settle(f) ==
    /\ resuming = <<>>
    /\ f \in running
    /\ running' = running \ {f}
    /\ aborted' = aborted \ {f}
    /\ entry' = IF entry = f THEN NoFlight ELSE entry
    /\ waiters' = [waiters EXCEPT ![f] = 0]
    /\ phase' = [c \in Callers |-> IF c \in Waiting(f) THEN "idle" ELSE phase[c]]
    /\ resuming' = parked[f]
    /\ parked' = [parked EXCEPT ![f] = <<>>]
    /\ UNCHANGED <<on, gone>>

(* settled.then: a parked caller calls singleFlight again. *)
Resume ==
    /\ resuming # <<>>
    /\ UNCHANGED gone
    /\ singleFlight(Head(resuming))
    /\ resuming' = Tail(resuming)

Next ==
    \/ \E c \in Callers : Arrive(c) \/ HangUp(c)
    \/ \E f \in Flights : Settle(f)
    \/ Resume

Spec == Init /\ [][Next]_vars

(* Work settles (every Incus request has a time limit, and an aborted run's
   requests are cancelled), and the event loop runs what it has queued. *)
Fairness ==
    /\ \A f \in Flights : WF_vars(Settle(f))
    /\ WF_vars(Resume)

FairSpec == Spec /\ Fairness

-----------------------------------------------------------------------------
Queued == {resuming[i] : i \in 1..Len(resuming)}
TypeOK ==
    /\ entry \in Flights \union {NoFlight}
    /\ running \in SUBSET Flights
    /\ aborted \in SUBSET Flights
    /\ waiters \in [Flights -> Nat]
    /\ phase \in [Callers -> {"idle", "waiting", "parked"}]
    /\ on \in [Callers -> Flights \union {NoFlight}]
    /\ gone \in SUBSET Callers
    /\ parked \in [Flights -> Seq(Callers)]
    /\ resuming \in Seq(Callers)

(* Two runs of the work never overlap on one instance, not even an aborted
   run that winds down and the fresh one that a later request wants. *)
OneRun == running = IF entry = NoFlight THEN {} ELSE {entry}

(* A run is aborted when, and only when, nobody waits for it any more: no
   caller is refused because of others who left, and no work goes on for
   callers who are all gone. *)
AbortedWhenAbandoned ==
    \A f \in running : f \in aborted <=> Waiting(f) = {}

(* Every request is answered or refused in the end, even if others keep
   arriving and leaving, each time aborting the run it would have shared. *)
EveryCallerReturns ==
    \A c \in Callers : (phase[c] # "idle") ~> (phase[c] = "idle")

(* The comment on singleFlight: "A caller whose signal aborts is rejected at
   once." *)
RejectedAtOnce == \A c \in gone : phase[c] = "idle"
=============================================================================
