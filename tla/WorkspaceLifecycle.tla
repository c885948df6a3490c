------------------------- MODULE WorkspaceLifecycle -------------------------
(***************************************************************************)
(* The life of a workspace: the API writes what is wanted into the         *)
(* workspace's row, the worker's sweep compares rows with wishes and with  *)
(* the controller's list of instances, moves rows between states, and      *)
(* makes controller calls in the background; the controller acts on the    *)
(* Incus instance (apps/worker/src/lifecycle.ts, reconcile.ts,             *)
(* reconcile-drift.ts; apps/api routes; apps/workspace-controller).        *)
(*                                                                         *)
(* Grain of atomicity: one SQL statement or transaction is one step.  The  *)
(* sweep's "select rows, then update them one by one" is two kinds of      *)
(* step, so everything else may happen in between.  So is the one UPDATE   *)
(* whose condition looks at another table and that writes what others      *)
(* write too: under READ COMMITTED the grace stop counts the connections   *)
(* of the statement's start, and tests again only the columns of a row     *)
(* that was changed meanwhile.  (What stampDisconnected and                *)
(* clearDisconnected write nobody else writes: they may be taken to run    *)
(* when they count.)  A call is queued, sent to the controller, answered,  *)
(* and only then written back to the row.                                  *)
(* Moving a row to starting or stopping and recording its call are one     *)
(* step: an exit between the two leaves what an exit right after both      *)
(* leaves, a row in transit that no call is about.                         *)
(*                                                                         *)
(* Time: whether a deadline, an idle warning, a retry wait or a refresh    *)
(* interval is due is a choice made when the sweep looks.                  *)
(***************************************************************************)
EXTENDS WorkspaceRow, FiniteSets

CONSTANTS
    Workspaces,
    Cap,         \* CONTROLLER_CONCURRENCY
    OutsideStatuses,  \* what an outside change may leave an instance in
    MaxEnv,      \* bound: requests made by students and administrators
    MaxFaults    \* bound: worker exits, calls given up, outside changes

ASSUME CapAssumption == Cap \in Nat \ {0}
ASSUME BoundsAssumption == MaxEnv \in Nat /\ MaxFaults \in Nat
ASSUME OutsideAssumption ==
    OutsideStatuses \subseteq {"Missing", "Stopped", "Running", "Other"}
ASSUME WorkspacesAssumption == IsFiniteSet(Workspaces)

VARIABLES
    row,         \* the workspaces table
    tab,         \* presence: the workspace_connections rows of a workspace
    request,     \* a setDesired that has read the row and not yet written it
    inst,        \* the Incus instance
    ctl,         \* controller work under way, whether or not anyone waits
    token,       \* where the row's current agent token is: in the start under
                 \* way, and in the instance's token file
    call,        \* the worker's inFlight map
    pc,          \* the sweep's next statement
    picked,      \* rows selected by the current step and not yet acted on
    heldOut,     \* inFlightDuringList
    listed,      \* the answer of list()
    seen,        \* the tracked rows as they were read after list()
    doubleCall,  \* track found the workspace already in flight and threw
    adopted,     \* a create found the instance up and kept it as it was, and
                 \* no start or stop was answered since (only properties)
    disturbed,   \* the instance was changed by no call of this worker's, or
                 \* a call of its was given up, since row and instance agreed
    stopGaveUp,  \* a stop failed, and nobody has asked for anything since
    env, faults  \* steps counted against MaxEnv and MaxFaults

apiVars    == <<tab, request>>
ctlVars    == <<inst, ctl, token, adopted>>
sweepVars  == <<pc, picked, heldOut, listed, seen>>
ghostVars  == <<doubleCall, disturbed, stopGaveUp>>
boundVars  == <<env, faults>>
vars == <<row, apiVars, ctlVars, call, sweepVars, ghostVars, boundVars>>

Statuses == {"Missing", "Stopped", "Running", "Other"}
Kinds == {"create", "start", "stop", "operate"}

(* queued: waits for a slot; active: begun, not yet accepted by the
   controller; sent: the controller works on it; the rest are answers that
   have not been written to the row. *)
Phases == {"queued", "active", "sent", "ok", "failed", "full"}
NoCall == [kind |-> "none", phase |-> "none", from |-> "none", operation |-> "none"]
Call == [kind : Kinds, phase : Phases, from : States, operation : PendingOperations]
            \union {NoCall}

(* Controller work: a start checks, then sets up, then boots the instance. *)
StartWork == {"start", "prepared", "booted"}
Work == {"create", "stop", "operate"} \union StartWork
WorkOf(kind) == IF kind = "start" THEN StartWork ELSE {kind}

(* Presence: no row; inserted, with desired_state not yet written; open; or
   left behind by a socket or an API process that died. *)
TabStates == {"closed", "inserted", "open", "lost"}
Requests == DesiredStates \union {"none"}

TokenPlaces == {"start", "file"}

Seen == [state : States, desired : DesiredStates, errorCode : ErrorCodes]
NotSeen == [state |-> "none", desired |-> "stopped", errorCode |-> "none"]

InFlight == {w \in Workspaces : call[w].kind # "none"}
Connected(w) == tab[w] # "closed"

Init ==
    /\ row = [w \in Workspaces |-> NoRow]
    /\ tab = [w \in Workspaces |-> "closed"]
    /\ request = [w \in Workspaces |-> "none"]
    /\ inst = [w \in Workspaces |-> "Missing"]
    /\ ctl = [w \in Workspaces |-> {}]
    /\ token = [w \in Workspaces |-> {}]
    /\ call = [w \in Workspaces |-> NoCall]
    /\ pc = "expire"
    /\ picked = {}
    /\ heldOut = {}
    /\ listed = [w \in Workspaces |-> "Missing"]
    /\ seen = [w \in Workspaces |-> NotSeen]
    /\ doubleCall = FALSE
    /\ adopted = [w \in Workspaces |-> FALSE]
    /\ disturbed = [w \in Workspaces |-> FALSE]
    /\ stopGaveUp = [w \in Workspaces |-> FALSE]
    /\ env = 0
    /\ faults = 0

-----------------------------------------------------------------------------
(* Helpers *)

(* casUpdate: the row changes only if its state is still `from`. *)
casUpdate(w, from, new) ==
    row' = IF row[w].state = from THEN [row EXCEPT ![w] = new] ELSE row

(* The call the sweep hands to track.  A stop is outside the cap, so it is
   begun at once. *)
NewCall(kind, from, op) ==
    [kind |-> kind, phase |-> IF kind = "stop" THEN "active" ELSE "queued",
     from |-> from, operation |-> op]

(* track, for every workspace of S at once; it throws on one in flight. *)
track(S, c) ==
    /\ call' = [w \in Workspaces |->
                  IF w \in S /\ w \notin InFlight THEN c[w] ELSE call[w]]
    /\ doubleCall' = (doubleCall \/ S \intersect InFlight # {})

(* One workspace's call leaves the map. *)
CallEnds(w) == call' = [call EXCEPT ![w] = NoCall]

(* Nothing left to act on: the sweep goes on to its next step. *)
Acted(w, next) ==
    /\ picked' = picked \ {w}
    /\ pc' = IF picked = {w} THEN next ELSE pc

Select(S, act, next) ==
    /\ picked' = S
    /\ pc' = IF S = {} THEN next ELSE act

-----------------------------------------------------------------------------
(* Sweep, steps 1 and 2: presence and deadlines *)

expireConnections ==
    /\ pc = "expire"
    /\ \E stale \in SUBSET {w \in Workspaces : tab[w] = "lost"} :
         tab' = [w \in Workspaces |-> IF w \in stale THEN "closed" ELSE tab[w]]
    /\ pc' = "stamp"
    /\ UNCHANGED <<row, request, ctlVars, call, picked, heldOut, listed, seen,
                   ghostVars, boundVars>>

stampDisconnected ==
    /\ pc = "stamp"
    /\ row' = [w \in Workspaces |->
                 IF row[w].state = "running" /\ ~Connected(w)
                 THEN [row[w] EXCEPT !.disconnected = TRUE] ELSE row[w]]
    /\ pc' = "clear"
    /\ UNCHANGED <<apiVars, ctlVars, call, picked, heldOut, listed, seen,
                   ghostVars, boundVars>>

clearDisconnected ==
    /\ pc = "clear"
    /\ row' = [w \in Workspaces |->
                 IF row[w].state = "running" /\ Connected(w)
                 THEN [row[w] EXCEPT !.disconnected = FALSE, !.deadline = FALSE]
                 ELSE row[w]]
    /\ pc' = "arm"
    /\ UNCHANGED <<apiVars, ctlVars, call, picked, heldOut, listed, seen,
                   ghostVars, boundVars>>

(* A grace period of zero or a keep-running hold leaves no deadline. *)
armDeadlines ==
    /\ pc = "arm"
    /\ \E armed \in SUBSET Workspaces :
         row' = [w \in Workspaces |->
                   IF row[w].state = "running" /\ row[w].disconnected
                   THEN [row[w] EXCEPT !.deadline = (w \in armed)] ELSE row[w]]
    /\ pc' = "create"
    /\ UNCHANGED <<apiVars, ctlVars, call, picked, heldOut, listed, seen,
                   ghostVars, boundVars>>

-----------------------------------------------------------------------------
(* Sweep, step 3: state transitions *)

(* The select and the calls it starts are one step: nothing is written
   before a queued call begins, and that is a step of its own. *)
createProvisioning ==
    /\ pc = "create"
    /\ track({w \in Workspaces \ InFlight : row[w].state = "provisioning"},
             [w \in Workspaces |-> NewCall("create", "provisioning", "none")])
    /\ pc' = "start"
    /\ UNCHANGED <<row, apiVars, ctlVars, picked, heldOut, listed, seen,
                   disturbed, stopGaveUp, boundVars>>

startStopped ==
    /\ pc = "start"
    /\ Select({w \in Workspaces \ InFlight : toStart(row[w])}, "start act", "stop")
    /\ UNCHANGED <<row, apiVars, ctlVars, call, heldOut, listed, seen,
                   ghostVars, boundVars>>

(* startInBackground: the compare-and-set checks the state alone. *)
startInBackground(w, from, next) ==
    /\ w \in picked
    /\ casUpdate(w, from, moveToStarting(row[w], from))
    /\ track(IF row[w].state = from THEN {w} ELSE {},
             [v \in Workspaces |-> NewCall("start", "starting", "none")])
    /\ Acted(w, next)
    /\ UNCHANGED <<apiVars, ctlVars, heldOut, listed, seen, disturbed, stopGaveUp, boundVars>>

startStoppedAct(w) == pc = "start act" /\ startInBackground(w, "stopped", "stop")

stopRunning ==
    /\ pc = "stop"
    /\ Select({w \in Workspaces \ InFlight : toStopExplicit(row[w])},
              "stop act", "stop for operation")
    /\ UNCHANGED <<row, apiVars, ctlVars, call, heldOut, listed, seen,
                   ghostVars, boundVars>>

stopInBackground(w, next) ==
    /\ w \in picked
    /\ casUpdate(w, "running", [row[w] EXCEPT !.state = "stopping"])
    /\ track(IF row[w].state = "running" THEN {w} ELSE {},
             [v \in Workspaces |-> NewCall("stop", "stopping", "none")])
    /\ Acted(w, next)
    /\ UNCHANGED <<apiVars, ctlVars, heldOut, listed, seen, disturbed, stopGaveUp, boundVars>>

stopRunningAct(w) == pc = "stop act" /\ stopInBackground(w, "stop for operation")

stopForOperation ==
    /\ pc = "stop for operation"
    /\ Select({w \in Workspaces \ InFlight : toStopForOperation(row[w])},
              "operation act", "deadline")
    /\ UNCHANGED <<row, apiVars, ctlVars, call, heldOut, listed, seen,
                   ghostVars, boundVars>>

(* rebuildPointsDone says no: the recovery loop has not tried every project. *)
waitForPoints(w) ==
    /\ pc = "operation act"
    /\ w \in picked
    /\ row[w].operation # "reset-docker"
    /\ Acted(w, "deadline")
    /\ UNCHANGED <<row, apiVars, ctlVars, call, heldOut, listed, seen,
                   ghostVars, boundVars>>

stopForOperationAct(w) == pc = "operation act" /\ stopInBackground(w, "deadline")

(* One UPDATE: the rows it finds due, whose connections it counts as they are
   when it starts, ... *)
stopAfterGrace ==
    /\ pc = "deadline"
    /\ \E due \in SUBSET {w \in Workspaces \ InFlight :
                            /\ row[w].state = "running"
                            /\ row[w].deadline
                            /\ ~Connected(w)} :
         Select(due, "deadline act", "idle warn")
    /\ UNCHANGED <<row, apiVars, ctlVars, call, heldOut, listed, seen,
                   ghostVars, boundVars>>

(* ... and its write of one of them, which looks again at the row and not at
   its connections. *)
stopAfterGraceAct(w) ==
    /\ pc = "deadline act"
    /\ w \in picked
    /\ LET due == row[w].state = "running" /\ row[w].deadline
       IN  /\ row' = IF due THEN [row EXCEPT ![w] = stopUnwanted(@)] ELSE row
           /\ track(IF due THEN {w} ELSE {},
                    [v \in Workspaces |-> NewCall("stop", "stopping", "none")])
    /\ Acted(w, "idle warn")
    /\ UNCHANGED <<apiVars, ctlVars, heldOut, listed, seen, disturbed, stopGaveUp, boundVars>>

(* Withdraw a warning (idle stop off, or a hold), and warn idle workspaces: two
   statements, taken as one because whether each applies to a row is a choice. *)
warnIdle ==
    /\ pc = "idle warn"
    /\ \E withdrawn \in SUBSET {w \in Workspaces : row[w].idleStop},
          idle \in SUBSET {w \in Workspaces : row[w].state = "running"} :
         row' = [w \in Workspaces |->
                   CASE w \in withdrawn -> [row[w] EXCEPT !.idleStop = FALSE]
                     [] w \in idle \ withdrawn -> [row[w] EXCEPT !.idleStop = TRUE]
                     [] OTHER -> row[w]]
    /\ pc' = "idle stop"
    /\ UNCHANGED <<apiVars, ctlVars, call, picked, heldOut, listed, seen,
                   ghostVars, boundVars>>

stopIdle ==
    /\ pc = "idle stop"
    /\ \E due \in SUBSET {w \in Workspaces \ InFlight :
                            row[w].state = "running" /\ row[w].idleStop} :
         /\ row' = [w \in Workspaces |->
                      IF w \in due THEN stopUnwanted(row[w]) ELSE row[w]]
         /\ track(due, [w \in Workspaces |-> NewCall("stop", "stopping", "none")])
    /\ pc' = "retry"
    /\ UNCHANGED <<apiVars, ctlVars, picked, heldOut, listed, seen, disturbed,
                   stopGaveUp, boundVars>>

(* The rows whose wait has passed. *)
retryErrored ==
    /\ pc = "retry"
    /\ \E due \in SUBSET {w \in Workspaces \ InFlight : toRetry(row[w])} :
         Select(due, "retry act", "maintain")
    /\ UNCHANGED <<row, apiVars, ctlVars, call, heldOut, listed, seen,
                   ghostVars, boundVars>>

retryErroredAct(w) == pc = "retry act" /\ startInBackground(w, "error", "maintain")

runMaintenance ==
    /\ pc = "maintain"
    /\ track({w \in Workspaces \ InFlight : toMaintain(row[w])},
             [w \in Workspaces |->
                NewCall("operate", row[w].state, row[w].operation)])
    /\ pc' = "list"
    /\ UNCHANGED <<row, apiVars, ctlVars, picked, heldOut, listed, seen,
                   disturbed, stopGaveUp, boundVars>>

-----------------------------------------------------------------------------
(* Sweep, steps 4 and 5: refreshFromList *)

(* list() failed, or STATUS_REFRESH_SECONDS have not passed since the last
   refresh and it was not asked: either way the sweep ends here. *)
skipRefresh ==
    /\ pc = "listing"
    /\ pc' = "expire"
    /\ heldOut' = {}
    /\ UNCHANGED <<row, apiVars, ctlVars, call, picked, listed, seen,
                   ghostVars, boundVars>>

(* A faulty beginRefresh, for testing: calls in flight are not held out. *)
beginRefreshAll ==
    /\ pc = "list"
    /\ heldOut' = {}
    /\ pc' = "listing"
    /\ UNCHANGED <<row, apiVars, ctlVars, call, picked, listed, seen,
                   ghostVars, boundVars>>

beginRefresh ==
    /\ pc = "list"
    /\ heldOut' = InFlight
    /\ pc' = "listing"
    /\ UNCHANGED <<row, apiVars, ctlVars, call, picked, listed, seen,
                   ghostVars, boundVars>>

listInstances ==
    /\ pc = "listing"
    /\ listed' = inst
    /\ pc' = "read tracked"
    /\ UNCHANGED <<row, apiVars, ctlVars, call, picked, heldOut, seen,
                   ghostVars, boundVars>>

EndRefresh ==
    /\ heldOut' = {}
    /\ listed' = [w \in Workspaces |-> "Missing"]
    /\ seen' = [w \in Workspaces |-> NotSeen]

readTracked ==
    /\ pc = "read tracked"
    /\ LET tracked == {w \in Workspaces \ heldOut :
                         row[w].state \notin {"none", "provisioning"}}
       IN  /\ Select(tracked, "drift", "expire")
           /\ IF tracked = {}
              THEN EndRefresh
              ELSE /\ seen' = [w \in Workspaces |->
                                 IF w \in tracked
                                 THEN [state |-> row[w].state,
                                       desired |-> row[w].desired,
                                       errorCode |-> row[w].errorCode]
                                 ELSE NotSeen]
                   /\ UNCHANGED <<heldOut, listed>>
    /\ UNCHANGED <<row, apiVars, ctlVars, call, ghostVars, boundVars>>

(* One row of reconcileTracked is done. *)
Resolved(w) ==
    /\ pc = "drift"
    /\ w \in picked
    /\ Acted(w, "expire")
    /\ IF picked = {w} THEN EndRefresh ELSE UNCHANGED <<heldOut, listed, seen>>
    /\ UNCHANGED <<apiVars, ctlVars, boundVars>>

(* The row and the list agree, or the list says too little to act. *)
nothingToResolve(w) ==
    /\ Resolved(w)
    /\ \/ listed[w] = "Missing" /\ seen[w].state = "error"
       \/ listed[w] = "Other"
       \/ listed[w] = "Running" /\ seen[w].state = "running"
       \/ listed[w] = "Stopped" /\ seen[w].state \in {"stopped", "error"}
       \/ /\ listed[w] = "Running"
          /\ seen[w].state = "error"
          /\ seen[w].desired # "stopped" \/ seen[w].errorCode = "STOP_FAILED"
    /\ UNCHANGED <<row, call, ghostVars>>

resolveMissingInstance(w) ==
    /\ Resolved(w)
    /\ listed[w] = "Missing"
    /\ seen[w].state # "error"
    /\ casUpdate(w, seen[w].state, instanceMissing(row[w]))
    /\ UNCHANGED <<call, ghostVars>>

resolveObservedStopped(w) ==
    /\ Resolved(w)
    /\ listed[w] = "Stopped"
    /\ seen[w].state = "running"
    /\ casUpdate(w, "running", observedStopped(row[w]))
    /\ UNCHANGED <<call, ghostVars>>

resolveObservedRunning(w) ==
    /\ Resolved(w)
    /\ listed[w] = "Running"
    /\ seen[w].state = "stopped"
    /\ casUpdate(w, "stopped", startedNow(row[w]))
    /\ UNCHANGED <<call, ghostVars>>

(* Stop on an errored workspace: the update checks the wish again. *)
resolveErrored(w) ==
    /\ Resolved(w)
    /\ listed[w] = "Running"
    /\ seen[w].state = "error"
    /\ seen[w].desired = "stopped"
    /\ seen[w].errorCode # "STOP_FAILED"
    /\ LET stopIt == row[w].state = "error" /\ row[w].desired = "stopped"
       IN  /\ row' = IF stopIt THEN [row EXCEPT ![w] = stopErrored(@)] ELSE row
           /\ track(IF stopIt THEN {w} ELSE {},
                    [v \in Workspaces |-> NewCall("stop", "stopping", "none")])
    /\ UNCHANGED <<disturbed, stopGaveUp>>

(* A faulty resolveStarting, for testing: a stopped instance says nothing. *)
resolveStartingIfRunning(w) ==
    /\ Resolved(w)
    /\ seen[w].state = "starting"
    /\ \/ /\ listed[w] = "Running"
          /\ casUpdate(w, "starting", startedNow(row[w]))
       \/ /\ listed[w] = "Stopped"
          /\ UNCHANGED row
    /\ UNCHANGED <<call, ghostVars>>

resolveStarting(w) ==
    /\ Resolved(w)
    /\ seen[w].state = "starting"
    /\ \/ /\ listed[w] = "Running"
          /\ casUpdate(w, "starting", startedNow(row[w]))
       \/ /\ listed[w] = "Stopped"
          /\ casUpdate(w, "starting", failedWith(row[w], "failed"))
    /\ UNCHANGED <<call, ghostVars>>

resolveStopping(w) ==
    /\ Resolved(w)
    /\ seen[w].state = "stopping"
    /\ \/ /\ listed[w] = "Stopped"
          /\ casUpdate(w, "stopping", observedStopped(row[w]))
       \/ /\ listed[w] = "Running"
          /\ casUpdate(w, "stopping", [row[w] EXCEPT !.state = "running"])
    /\ UNCHANGED <<call, ghostVars>>

-----------------------------------------------------------------------------
(* Background calls *)

Slots == Cardinality({w \in InFlight : /\ call[w].kind # "stop"
                                       /\ call[w].phase # "queued"})

(* withSlot lets the call begin; a start first rotates the agent token. *)
BeginCall(w) ==
    /\ call[w].phase = "queued"
    /\ Slots < Cap
    /\ call' = [call EXCEPT ![w].phase = "active"]
    /\ token' = IF call[w].kind = "start" THEN [token EXCEPT ![w] = {}] ELSE token
    /\ UNCHANGED <<row, apiVars, inst, ctl, adopted, sweepVars, ghostVars, boundVars>>

(* A faulty SendCall, for testing: the request carries the token the row held
   before the rotation. *)
SendCallOldToken(w) ==
    /\ call[w].phase = "active"
    /\ ctl[w] \intersect WorkOf(call[w].kind) = {}
    /\ call' = [call EXCEPT ![w].phase = "sent"]
    /\ ctl' = [ctl EXCEPT ![w] = @ \union {call[w].kind}]
    /\ UNCHANGED <<row, apiVars, inst, token, adopted, sweepVars, ghostVars, boundVars>>

(* The controller takes the call.  singleFlight makes it wait while an
   abandoned run of the same kind winds down. *)
SendCall(w) ==
    /\ call[w].phase = "active"
    /\ ctl[w] \intersect WorkOf(call[w].kind) = {}
    /\ call' = [call EXCEPT ![w].phase = "sent"]
    /\ ctl' = [ctl EXCEPT ![w] = @ \union {call[w].kind}]
    /\ token' = IF call[w].kind = "start"
                THEN [token EXCEPT ![w] = @ \union {"start"}] ELSE token
    /\ UNCHANGED <<row, apiVars, inst, adopted, sweepVars, ghostVars, boundVars>>

(* The worker's time budget runs out, or the controller cannot be reached.
   What the controller has begun goes on without anyone waiting for it.
   runReplaceHome leaves everything to the next sweep. *)
GiveUp(w) ==
    /\ faults < MaxFaults
    /\ call[w].phase \in {"active", "sent"}
    /\ call' = [call EXCEPT ![w] = IF @.operation = "replace-home" THEN NoCall
                                   ELSE [@ EXCEPT !.phase = "failed"]]
    /\ disturbed' = [disturbed EXCEPT ![w] = TRUE]
    /\ faults' = faults + 1
    /\ UNCHANGED <<row, apiVars, ctlVars, sweepVars, doubleCall, stopGaveUp, env>>

(* createWorkspace's statement after the answer. *)
createWorkspace(w) ==
    /\ call[w].kind = "create"
    /\ \/ /\ call[w].phase = "ok"
          /\ casUpdate(w, "provisioning", provisioned(row[w]))
       \/ /\ call[w].phase = "full"
          /\ casUpdate(w, "provisioning", createRefused(row[w]))
       \/ /\ call[w].phase = "failed"
          /\ casUpdate(w, "provisioning", failedWith(row[w], "failed"))
    /\ CallEnds(w)
    /\ UNCHANGED <<apiVars, ctlVars, sweepVars, ghostVars, boundVars>>

(* A transient error is tried again after a delay, in the same slot.  The list
   of delays is finite; how long it is does not matter here. *)
createAgain(w) ==
    /\ call[w].kind = "create"
    /\ call[w].phase = "failed"
    /\ call' = [call EXCEPT ![w].phase = "active"]
    /\ UNCHANGED <<row, apiVars, ctlVars, sweepVars, ghostVars, boundVars>>

startInstance(w) ==
    /\ call[w].kind = "start"
    /\ \/ /\ call[w].phase = "ok"
          /\ casUpdate(w, "starting", startedNow(row[w]))
       \/ /\ call[w].phase = "failed"
          /\ casUpdate(w, "starting", failedWith(row[w], "failed"))
    /\ CallEnds(w)
    /\ UNCHANGED <<apiVars, ctlVars, sweepVars, ghostVars, boundVars>>

(* After a stop the guard's marks are cleared whatever became of the row. *)
doStop(w) ==
    /\ call[w].kind = "stop"
    /\ \/ /\ call[w].phase = "ok"
          /\ row' = [row EXCEPT ![w] =
                       clearGuardAtStop(IF @.state = "stopping" THEN stopDone(@)
                                        ELSE @)]
          /\ UNCHANGED stopGaveUp
       \/ /\ call[w].phase = "failed"
          /\ casUpdate(w, "stopping", failedWith(row[w], "STOP_FAILED"))
          /\ stopGaveUp' = [stopGaveUp EXCEPT ![w] = TRUE]
    /\ CallEnds(w)
    /\ UNCHANGED <<apiVars, ctlVars, sweepVars, doubleCall, disturbed, boundVars>>

(* The compare-and-set is from the state the sweep read. *)
runOperation(w) ==
    /\ call[w].kind = "operate"
    /\ call[w].operation # "replace-home"
    /\ \/ /\ call[w].phase = "ok"
          /\ casUpdate(w, call[w].from, operationDone(row[w]))
       \/ /\ call[w].phase = "failed"
          /\ casUpdate(w, call[w].from, operationFailed(row[w]))
    /\ CallEnds(w)
    /\ UNCHANGED <<apiVars, ctlVars, sweepVars, ghostVars, boundVars>>

(* One visit of runReplaceHome that ends before the controller is asked: it
   records or awaits the host's import, or gives the operation up.  Its
   finish checks the operation and not the state. *)
runReplaceHomeEarly(w) ==
    /\ call[w].operation = "replace-home"
    /\ call[w].phase = "active"
    /\ \/ UNCHANGED row
       \/ row' = [row EXCEPT ![w] = IF @.operation = "replace-home"
                                    THEN replaceRefused(@, call[w].from) ELSE @]
    /\ CallEnds(w)
    /\ UNCHANGED <<apiVars, ctlVars, sweepVars, ghostVars, boundVars>>

(* After the controller's answer.  NOT_FOUND with the kept home of an earlier
   swap there (keptSince) counts as "ok"; without one nothing was touched; an
   unreachable or slow controller is asked again at the next sweep. *)
runReplaceHome(w) ==
    /\ call[w].operation = "replace-home"
    /\ call[w].phase \in {"ok", "failed"}
    /\ LET outcomes ==
             IF call[w].phase = "ok" THEN {operationDone(row[w])}
             ELSE {row[w], operationFailed(row[w]), replaceRefused(row[w], call[w].from)}
       IN  \E r \in outcomes :
             row' = [row EXCEPT ![w] = IF @.operation = "replace-home" THEN r ELSE @]
    /\ CallEnds(w)
    /\ UNCHANGED <<apiVars, ctlVars, sweepVars, ghostVars, boundVars>>

-----------------------------------------------------------------------------
(* The controller (apps/workspace-controller) and Incus *)

(* The work `done` ends with `answer`, which reaches the call that waits for
   it, if one still does. *)
Answer(w, kind, done, answer) ==
    /\ ctl' = [ctl EXCEPT ![w] = @ \ done]
    /\ call' = IF call[w].kind = kind /\ call[w].phase = "sent"
               THEN [call EXCEPT ![w].phase = answer] ELSE call
    /\ UNCHANGED <<row, apiVars, sweepVars, doubleCall, stopGaveUp, boundVars>>

Awaited(w, kind) == call[w].kind = kind /\ call[w].phase = "sent"

(* An answer to a start or a stop of ours, with nothing else under way, tells
   how the instance is. *)
Agrees(w, kind) ==
    LET known == Awaited(w, kind) /\ ctl'[w] = {}
    IN  /\ disturbed' = [disturbed EXCEPT ![w] = IF known THEN FALSE ELSE @]
        /\ adopted' = [adopted EXCEPT ![w] = IF known THEN FALSE ELSE @]

(* An instance that exists is adopted, running or not. *)
controllerCreate(w) ==
    /\ "create" \in ctl[w]
    /\ \/ /\ Answer(w, "create", {"create"}, "ok")
          /\ inst' = [inst EXCEPT ![w] = IF @ = "Missing" THEN "Stopped" ELSE @]
          /\ adopted' = [adopted EXCEPT ![w] = @ \/ inst[w] \in {"Running", "Other"}]
       \/ /\ inst[w] = "Missing"
          /\ Answer(w, "create", {"create"}, "full")
          /\ UNCHANGED <<inst, adopted>>
       \/ /\ Answer(w, "create", {"create"}, "failed")
          /\ UNCHANGED <<inst, adopted>>
    /\ UNCHANGED <<token, disturbed>>

(* A running instance is stopped first, then the token file is written. *)
controllerPrepare(w) ==
    /\ "start" \in ctl[w]
    /\ inst[w] # "Missing"
    /\ ctl' = [ctl EXCEPT ![w] = (@ \ {"start"}) \union {"prepared"}]
    /\ inst' = [inst EXCEPT ![w] = IF @ = "Running" THEN "Stopped" ELSE @]
    /\ token' = [token EXCEPT ![w] = IF "start" \in @ THEN @ \union {"file"}
                                     ELSE @ \ {"file"}]
    /\ UNCHANGED <<row, apiVars, adopted, call, sweepVars, ghostVars, boundVars>>

controllerBoot(w) ==
    /\ "prepared" \in ctl[w]
    /\ inst[w] \in {"Stopped", "Running"}
    /\ ctl' = [ctl EXCEPT ![w] = (@ \ {"prepared"}) \union {"booted"}]
    /\ inst' = [inst EXCEPT ![w] = "Running"]
    /\ UNCHANGED <<row, apiVars, token, adopted, call, sweepVars, ghostVars, boundVars>>

(* The agent answers: the start succeeded. *)
controllerStarted(w) ==
    /\ "booted" \in ctl[w]
    /\ inst[w] = "Running"
    /\ Answer(w, "start", StartWork, "ok")
    /\ Agrees(w, "start")
    /\ token' = [token EXCEPT ![w] = @ \ {"start"}]
    /\ UNCHANGED inst

(* A start that fails after the boot tries to force the instance down; one
   that fails before may already have stopped a running instance. *)
controllerStartFails(w) ==
    /\ ctl[w] \intersect StartWork # {}
    /\ Answer(w, "start", StartWork, "failed")
    /\ \/ UNCHANGED inst
       \/ /\ \/ "booted" \in ctl[w] /\ inst[w] \in {"Running", "Other"}
             \/ "start" \in ctl[w] /\ inst[w] = "Running"
          /\ inst' = [inst EXCEPT ![w] = "Stopped"]
    /\ token' = [token EXCEPT ![w] = @ \ {"start"}]
    /\ UNCHANGED <<adopted, disturbed>>

controllerStop(w) ==
    /\ "stop" \in ctl[w]
    /\ \/ /\ inst[w] # "Missing"
          /\ Answer(w, "stop", {"stop"}, "ok")
          /\ inst' = [inst EXCEPT ![w] = "Stopped"]
          /\ Agrees(w, "stop")
       \/ /\ Answer(w, "stop", {"stop"}, "failed")
          /\ UNCHANGED <<inst, adopted, disturbed>>
    /\ UNCHANGED token

(* resetDocker, rebuild and replaceHome refuse an instance that is up. *)
controllerOperate(w) ==
    /\ "operate" \in ctl[w]
    /\ \/ inst[w] = "Stopped" /\ Answer(w, "operate", {"operate"}, "ok")
       \/ Answer(w, "operate", {"operate"}, "failed")
    /\ UNCHANGED <<inst, token, adopted, disturbed>>

-----------------------------------------------------------------------------
(* Faults *)

(* The worker exits and starts again: its calls are abandoned, the rows and
   the controller's work stay. *)
WorkerRestarts ==
    /\ faults < MaxFaults
    /\ faults' = faults + 1
    /\ call' = [w \in Workspaces |-> NoCall]
    /\ disturbed' = [w \in Workspaces |-> disturbed[w] \/ w \in InFlight]
    /\ pc' = "expire"
    /\ picked' = {}
    /\ EndRefresh
    /\ UNCHANGED <<row, apiVars, ctlVars, doubleCall, stopGaveUp, env>>

(* The instance changes by no call of ours: the student powers it off, the
   host reboots, an administrator starts, freezes or deletes it. *)
OutsideChange(w) ==
    /\ faults < MaxFaults
    /\ faults' = faults + 1
    /\ inst[w] # "Missing"
    /\ \E s \in OutsideStatuses \ {inst[w]} : inst' = [inst EXCEPT ![w] = s]
    /\ disturbed' = [disturbed EXCEPT ![w] = TRUE]
    /\ UNCHANGED <<row, apiVars, ctl, token, adopted, call, sweepVars, doubleCall, stopGaveUp, env>>

-----------------------------------------------------------------------------
(* The API: students and administrators *)

(* A request of a student or an administrator about w, counted. *)
Asks(w) ==
    /\ env < MaxEnv
    /\ env' = env + 1
    /\ stopGaveUp' = [stopGaveUp EXCEPT ![w] = FALSE]
Exists(w) == row[w].state # "none"
ApiLeaves == UNCHANGED <<ctlVars, call, sweepVars, doubleCall, disturbed, faults>>

createRow(w) ==
    /\ ~Exists(w)
    /\ row' = [row EXCEPT ![w] = NewRow]
    /\ UNCHANGED <<apiVars, env, stopGaveUp>>
    /\ ApiLeaves

(* setDesired reads the row, answers 409 for an archived one, ... *)
setDesiredRead(w) ==
    /\ Asks(w)
    /\ Exists(w)
    /\ request[w] = "none"
    /\ \E d \in DesiredStates :
         /\ d # "stopped" => ~row[w].archived
         /\ request' = [request EXCEPT ![w] = d]
    /\ UNCHANGED <<row, tab>>
    /\ ApiLeaves

(* ... and writes the wish in a statement that does not look at archived_at. *)
setDesiredWrite(w) ==
    /\ request[w] # "none"
    /\ row' = [row EXCEPT ![w] = setDesired(@, request[w])]
    /\ request' = [request EXCEPT ![w] = "none"]
    /\ UNCHANGED <<tab, env>>
    /\ stopGaveUp' = [stopGaveUp EXCEPT ![w] = FALSE]
    /\ ApiLeaves

(* openPresence's insert, and then its update. *)
openPresenceInsert(w) ==
    /\ Asks(w)
    /\ Exists(w)
    /\ tab[w] = "closed"
    /\ tab' = [tab EXCEPT ![w] = "inserted"]
    /\ UNCHANGED <<row, request>>
    /\ ApiLeaves

openPresenceUpdate(w) ==
    /\ tab[w] = "inserted"
    /\ tab' = [tab EXCEPT ![w] = "open"]
    /\ row' = [row EXCEPT ![w] = presenceOpened(@)]
    /\ UNCHANGED <<request, env>>
    /\ stopGaveUp' = [stopGaveUp EXCEPT ![w] = FALSE]
    /\ ApiLeaves

(* The socket closed, or its set-up failed half-way. *)
dropPresence(w) ==
    /\ tab[w] \in {"inserted", "open"}
    /\ tab' = [tab EXCEPT ![w] = "closed"]
    /\ UNCHANGED <<row, request, env, stopGaveUp>>
    /\ ApiLeaves

(* The API dies with the socket: the row stays until it expires. *)
losePresence(w) ==
    /\ tab[w] \in {"inserted", "open"}
    /\ tab' = [tab EXCEPT ![w] = "lost"]
    /\ UNCHANGED <<row, request, env, stopGaveUp>>
    /\ ApiLeaves

setArchived(w) ==
    /\ Asks(w)
    /\ Exists(w)
    /\ row' = [row EXCEPT ![w] = IF @.archived THEN unarchive(@) ELSE archive(@)]
    /\ UNCHANGED apiVars
    /\ ApiLeaves

disableOwner(w) ==
    /\ Asks(w)
    /\ Exists(w)
    /\ row' = [row EXCEPT ![w] = ownerDisabled(@)]
    /\ UNCHANGED apiVars
    /\ ApiLeaves

reprovisionWorkspace(w) ==
    /\ Asks(w)
    /\ row[w].state = "error"
    /\ row' = [row EXCEPT ![w] = reprovision(@)]
    /\ UNCHANGED apiVars
    /\ ApiLeaves

requestOperation(w) ==
    /\ Asks(w)
    /\ Exists(w)
    /\ row[w].operation = "none"
    /\ \E op \in Operations :
         row' = [row EXCEPT ![w] = requestPendingOperation(@, op)]
    /\ UNCHANGED apiVars
    /\ ApiLeaves

noteActivity(w) ==
    /\ row[w].idleStop
    /\ row' = [row EXCEPT ![w] = activity(@)]
    /\ UNCHANGED <<apiVars, env, stopGaveUp>>
    /\ ApiLeaves

-----------------------------------------------------------------------------
Sweep ==
    \/ expireConnections \/ stampDisconnected \/ clearDisconnected \/ armDeadlines
    \/ createProvisioning \/ startStopped \/ stopRunning \/ stopForOperation
    \/ stopAfterGrace \/ warnIdle \/ stopIdle \/ retryErrored \/ runMaintenance
    \/ skipRefresh \/ beginRefresh \/ listInstances \/ readTracked
    \/ \E w \in Workspaces :
         \/ startStoppedAct(w) \/ stopRunningAct(w)
         \/ waitForPoints(w) \/ stopForOperationAct(w) \/ stopAfterGraceAct(w)
         \/ retryErroredAct(w)
         \/ nothingToResolve(w) \/ resolveMissingInstance(w)
         \/ resolveObservedStopped(w) \/ resolveObservedRunning(w)
         \/ resolveErrored(w) \/ resolveStarting(w) \/ resolveStopping(w)

Calls(w) ==
    \/ BeginCall(w) \/ SendCall(w)
    \/ createWorkspace(w) \/ createAgain(w) \/ startInstance(w) \/ doStop(w)
    \/ runOperation(w) \/ runReplaceHomeEarly(w) \/ runReplaceHome(w)

Controller(w) ==
    \/ controllerCreate(w) \/ controllerPrepare(w) \/ controllerBoot(w)
    \/ controllerStarted(w) \/ controllerStartFails(w)
    \/ controllerStop(w) \/ controllerOperate(w)

Api(w) ==
    \/ createRow(w) \/ setDesiredRead(w) \/ setDesiredWrite(w)
    \/ openPresenceInsert(w) \/ openPresenceUpdate(w)
    \/ dropPresence(w) \/ losePresence(w)
    \/ setArchived(w) \/ disableOwner(w) \/ reprovisionWorkspace(w)
    \/ requestOperation(w) \/ noteActivity(w)

Next ==
    \/ Sweep
    \/ WorkerRestarts
    \/ \E w \in Workspaces :
         Calls(w) \/ GiveUp(w) \/ Controller(w) \/ OutsideChange(w) \/ Api(w)

Spec == Init /\ [][Next]_vars

-----------------------------------------------------------------------------
(* Safety *)

SweepSteps == {"expire", "stamp", "clear", "arm", "create", "start", "start act",
               "stop", "stop act", "stop for operation", "operation act",
               "deadline", "deadline act", "idle warn", "idle stop", "retry", "retry act",
               "maintain", "list", "listing", "read tracked", "drift"}

TypeOK ==
    /\ row \in [Workspaces -> Row]
    /\ tab \in [Workspaces -> TabStates]
    /\ request \in [Workspaces -> Requests]
    /\ inst \in [Workspaces -> Statuses]
    /\ ctl \in [Workspaces -> SUBSET Work]
    /\ token \in [Workspaces -> SUBSET TokenPlaces]
    /\ call \in [Workspaces -> Call]
    /\ pc \in SweepSteps
    /\ picked \in SUBSET Workspaces
    /\ heldOut \in SUBSET Workspaces
    /\ listed \in [Workspaces -> Statuses]
    /\ seen \in [Workspaces -> Seen]
    /\ doubleCall \in BOOLEAN
    /\ adopted \in [Workspaces -> BOOLEAN]
    /\ disturbed \in [Workspaces -> BOOLEAN]
    /\ stopGaveUp \in [Workspaces -> BOOLEAN]
    /\ env \in Nat
    /\ faults \in Nat

(* A row never gets two controller calls at once (SPEC.md 6.5): whatever the
   sweep picked is still free of calls when it acts on it, so track never
   throws. *)
OneCallAtATime == ~doubleCall

(* Why track never throws, although the sweep acts long after it selects: the
   sweep alone begins calls, so what it picked stays free of calls until it
   acts, and what list() may have seen half-done is held out of drift. *)
PickedStayFree ==
    /\ pc \in {"start act", "stop act", "operation act", "deadline act",
               "retry act", "drift"} =>
         picked \intersect InFlight = {}
    /\ pc \in {"listing", "read tracked"} => InFlight \subseteq heldOut

(* A retry that was selected is one the bound still allows when it is made. *)
RetriesLeft ==
    pc = "retry act" => \A w \in picked : row[w].startRetries < MaxStartRetries

(* While no call was given up and nobody else touched the instance, a row
   with no call in flight tells the truth about the instance: a list() that
   is older than the row never overwrites the outcome of a call.  The one lie
   the worker tells by itself: a create that adopts an instance which is up
   leaves a stopped row until drift, a start or a stop sets it right. *)
RowAgreesWithInstance ==
    \A w \in Workspaces : w \notin InFlight /\ ~disturbed[w] =>
        /\ row[w].state = "running" => inst[w] = "Running"
        /\ row[w].state = "stopped" => inst[w] = "Stopped" \/ adopted[w]
        /\ row[w].state \notin {"starting", "stopping"}

(* Under the same conditions a running workspace's agent was booted with the
   token its row holds, although every start rotates the token first; unless
   drift found it running after a create adopted it, when a failed start may
   have rotated the token since the boot. *)
AgentHoldsRowToken ==
    \A w \in Workspaces :
        /\ w \notin InFlight
        /\ ~disturbed[w]
        /\ ~adopted[w]
        /\ row[w].state = "running"
        => "file" \in token[w]

-----------------------------------------------------------------------------
(* What no step may do *)

(* A wish to run is withdrawn only by a request, by the stop of a workspace
   that was warned as idle, or by the grace stop's UPDATE of a workspace that
   had no connection when the statement started.  In particular a connect or
   a Start that arrives while a slow stop is in flight is not overwritten when
   the stop ends (SPEC.md 6.3). *)
WishToRunSurvives ==
    [][\A w \in Workspaces :
         row[w].desired = "running" /\ row'[w].desired = "stopped" =>
            \/ env' # env
            \/ request[w] = "stopped"
            \/ /\ row[w].state = "running"
               /\ row'[w].state = "stopping"
               /\ row[w].idleStop \/ (pc = "deadline act" /\ w \in picked)]_vars

-----------------------------------------------------------------------------
(* Liveness *)

(* The sweep and the loops behind it go on; a call that is begun ends, since
   the worker and the controller bound every request; a create is tried again
   only so often; the slot queue is
   first in, first out (ControllerSlots); list() is asked again and again; a
   retry wait passes; the recovery loop tries every project in the end; a
   presence row nobody refreshes expires. *)
Fairness ==
    /\ WF_vars(Sweep)
    /\ SF_vars(listInstances)
    /\ \A w \in Workspaces :
         /\ SF_vars(BeginCall(w))
         /\ SF_vars(createWorkspace(w))
         /\ WF_vars(SendCall(w) \/ startInstance(w)
                    \/ doStop(w) \/ runOperation(w) \/ runReplaceHome(w))
         /\ WF_vars(Controller(w))
         /\ SF_vars(retryErrored /\ w \in picked')
         /\ SF_vars(stopForOperationAct(w))
         /\ WF_vars(setDesiredWrite(w))
         /\ WF_vars(openPresenceUpdate(w))

FairSpec == Spec /\ Fairness

AtRest(w) ==
    LET r == row[w] IN
    /\ r.state \in {"none", "provisioning", "stopped", "running", "error"}
    /\ r.state = "running" =>
         /\ r.desired = "running" /\ ~r.archived /\ r.operation = "none"
         /\ inst[w] = "Running"
    /\ r.state = "stopped" =>
         /\ ~WantsToRun(r) \/ r.archived
         /\ r.operation = "none"
         /\ inst[w] # "Running"
    /\ r.state = "error" =>
         /\ r.operation = "none"
         /\ WantsToRun(r) /\ ~r.archived => r.startRetries = MaxStartRetries
         /\ r.desired = "stopped" /\ r.errorCode # "STOP_FAILED" =>
              inst[w] # "Running"

(* Once students, administrators and faults leave it alone, every workspace
   comes to rest where its row says it should be: no flapping between start
   and stop, no retry that never ends, no row stuck in starting or stopping,
   no operation left waiting. *)
Converges == <>[](\A w \in Workspaces : AtRest(w))

-----------------------------------------------------------------------------
(* What the repository says and the code does not keep *)

(* docs/SPEC.md 20.1: "an archived workspace is never started until it is
   unarchived". *)
ArchivedNeverStarted ==
    [][\A w \in Workspaces :
         row[w].archived /\ row[w].state # "starting" =>
            row'[w].state # "starting"]_vars

(* docs/SPEC.md 20.1: "Archiving a workspace stops it". *)
ArchiveStops ==
    \A w \in Workspaces :
        <>[](row[w].archived) => <>[](\/ inst[w] # "Running"
                                      \/ row[w].errorCode = "STOP_FAILED")

(* docs/SPEC.md 6.5: after a failed stop "the worker does not try again on
   its own; the student's next Stop clears the code and the worker tries once
   more". *)
FailedStopNotRetried ==
    [][\A w \in Workspaces :
         stopGaveUp[w] /\ row[w].state = "error" => row'[w].state # "stopping"]_vars

(* The comment on stopAfterGrace in apps/worker/src/reconcile.ts: setting
   desired_state "is safe because the same statement asserts there are no
   connections; a connect that lands later wins on its own". *)
ConnectWins ==
    [][\A w \in Workspaces :
         /\ pc = "deadline act"
         /\ tab[w] = "open"
         /\ row[w].desired = "running"
         => row'[w].desired # "stopped" \/ env' # env \/ request[w] = "stopped"]_vars

(* The comment on runOperation in apps/worker/src/lifecycle.ts: the worker
   runs the operation and clears it; "A failure clears it too". *)
OperationIsCleared ==
    [][\A w \in Workspaces :
         /\ call[w].kind = "operate"
         /\ call[w].operation # "replace-home"
         /\ call[w].phase \in {"ok", "failed"}
         /\ call'[w].kind = "none"
         /\ faults' = faults
         => row'[w].operation = "none"]_vars
=============================================================================
