---------------------------- MODULE WorkspaceRow ----------------------------
(***************************************************************************)
(* One row of the workspaces table, and what each statement of the worker  *)
(* and of the API makes of it.  The operators are pure: they take the row  *)
(* the statement finds and return the row it leaves.  WorkspaceLifecycle   *)
(* says when each is applied.                                              *)
(*                                                                         *)
(* Columns that only carry data (label, image, quota, messages, audit) are *)
(* left out.  A timestamp column is the Boolean "is not null": when it is  *)
(* due is decided by the reader, which may find it due at any time.        *)
(***************************************************************************)
EXTENDS Naturals

CONSTANTS
    MaxStartRetries,  \* MAX_START_RETRIES, RETRY_WAITS_MS.length
    Operations        \* the maintenance operations that may be requested

ASSUME MaxStartRetriesAssumption == MaxStartRetries \in Nat
ASSUME OperationsAssumption ==
    Operations \subseteq {"reset-docker", "rebuild", "replace-home"}

(* "none" is a workspace that has no row yet. *)
States == {"none", "provisioning", "stopped", "starting", "running",
           "stopping", "error"}
DesiredStates == {"running", "stopped", "restarting"}
(* Every other error code is only shown, so they are all "failed". *)
ErrorCodes == {"none", "STOP_FAILED", "POOL_FULL", "failed"}
PendingOperations == Operations \union {"none"}

Row == [state         : States,
        desired       : DesiredStates,
        errorCode     : ErrorCodes,
        startRetries  : 0..MaxStartRetries,
        operation     : PendingOperations,
        archived      : BOOLEAN,  \* archived_at
        disconnected  : BOOLEAN,  \* disconnected_at
        deadline      : BOOLEAN,  \* shutdown_deadline
        idleStop      : BOOLEAN]  \* idle_stop_at

(* POST /workspaces, before and after its insert. *)
NoRow == [state |-> "none", desired |-> "stopped", errorCode |-> "none",
          startRetries |-> 0, operation |-> "none", archived |-> FALSE,
          disconnected |-> FALSE, deadline |-> FALSE, idleStop |-> FALSE]
NewRow == [NoRow EXCEPT !.state = "provisioning"]

WantsToRun(r) == r.desired \in {"running", "restarting"}

settleRestarting(d) == IF d = "restarting" THEN "running" ELSE d

-----------------------------------------------------------------------------
(* What the sweep selects. *)

toStart(r) ==
    /\ r.state = "stopped"
    /\ WantsToRun(r)
    /\ r.operation = "none"
    /\ ~r.archived

toStopExplicit(r) ==
    /\ r.state = "running"
    /\ r.desired \in {"stopped", "restarting"} \/ r.archived

toStopForOperation(r) == r.state = "running" /\ r.operation # "none"

toRetry(r) ==
    /\ r.state = "error"
    /\ WantsToRun(r)
    /\ r.startRetries < MaxStartRetries
    /\ r.operation = "none"
    /\ ~r.archived

toMaintain(r) == r.state \in {"stopped", "error"} /\ r.operation # "none"

-----------------------------------------------------------------------------
(* What the worker's statements leave. *)

moveToStarting(r, from) ==
    [r EXCEPT !.state = "starting",
              !.startRetries = IF from = "error" THEN @ + 1 ELSE 0,
              !.errorCode = "none",
              !.desired = settleRestarting(@),
              !.disconnected = FALSE,
              !.deadline = FALSE]

(* startedNow, with the move to running it is always written with. *)
startedNow(r) ==
    [r EXCEPT !.state = "running", !.startRetries = 0, !.idleStop = FALSE]

clearGuardAtStop(r) == [r EXCEPT !.idleStop = FALSE]

(* A faulty stopDone, for testing: it writes the desired state it read when
   the stop began, so a connect or a Start in between is lost. *)
stopDoneOverwrites(r) ==
    [r EXCEPT !.state = "stopped",
              !.deadline = FALSE,
              !.desired = IF @ = "restarting" THEN "running" ELSE "stopped",
              !.disconnected = FALSE]

(* doStop, after the controller says the instance is down. *)
stopDone(r) ==
    [r EXCEPT !.state = "stopped",
              !.deadline = FALSE,
              !.desired = settleRestarting(@),
              !.disconnected = FALSE]

failedWith(r, code) == [r EXCEPT !.state = "error", !.errorCode = code]

(* The stop statements of the grace period and of idle stop. *)
stopUnwanted(r) ==
    [r EXCEPT !.state = "stopping",
              !.desired = IF @ = "restarting" THEN "running" ELSE "stopped"]

provisioned(r) == [r EXCEPT !.state = "stopped", !.errorCode = "none"]

createRefused(r) == [r EXCEPT !.errorCode = "POOL_FULL"]

operationDone(r) ==
    [r EXCEPT !.state = "stopped", !.errorCode = "none", !.operation = "none"]

operationFailed(r) == [failedWith(r, "failed") EXCEPT !.operation = "none"]

(* runReplaceHome's finish for a failure before the home was touched: the
   state the sweep read is written back. *)
replaceRefused(r, from) == [r EXCEPT !.state = from, !.operation = "none"]

(* Drift: what list() tells about a row. *)
observedStopped(r) ==
    clearGuardAtStop([r EXCEPT !.state = "stopped",
                               !.deadline = FALSE,
                               !.disconnected = FALSE])

instanceMissing(r) ==
    clearGuardAtStop([failedWith(r, "failed") EXCEPT !.deadline = FALSE,
                                                     !.disconnected = FALSE])

stopErrored(r) == [r EXCEPT !.state = "stopping", !.errorCode = "none"]

-----------------------------------------------------------------------------
(* What the API's statements leave. *)

setDesired(r, d) ==
    [r EXCEPT !.desired = d,
              !.startRetries = 0,
              !.errorCode = IF d = "stopped" /\ @ = "STOP_FAILED"
                            THEN "none" ELSE @]

(* openPresence's second statement. *)
presenceOpened(r) == IF r.archived THEN r ELSE [r EXCEPT !.desired = "running"]

archive(r) == [r EXCEPT !.archived = TRUE, !.desired = "stopped"]
unarchive(r) == [r EXCEPT !.archived = FALSE]

ownerDisabled(r) == [r EXCEPT !.desired = "stopped"]

reprovision(r) == [r EXCEPT !.state = "provisioning", !.errorCode = "none"]

requestPendingOperation(r, op) == [r EXCEPT !.operation = op]

(* Owner activity answers "Still working?". *)
activity(r) == [r EXCEPT !.idleStop = FALSE]
=============================================================================
