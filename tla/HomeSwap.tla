------------------------------ MODULE HomeSwap ------------------------------
(***************************************************************************)
(* Replace home: the pending operation that swaps a workspace's home       *)
(* volume for one imported from a backup.  The worker drives it across     *)
(* sweeps (runReplaceHome and keptSince, apps/worker/src/backups.ts), the  *)
(* controller makes the swap with up to eight Incus requests (replaceHome, *)
(* apps/workspace-controller/src/kept-volumes.ts), and Incus holds the     *)
(* volumes and the instance's home device.  One workspace.                 *)
(*                                                                         *)
(* Grain: one Incus request, one database transaction or one answer is a   *)
(* step.  Any request may be the last one before the worker, the           *)
(* controller or Incus goes away or the budget runs out; for the row these *)
(* are the same: the call is over and the next sweep makes it again.       *)
(*                                                                         *)
(* A home's content is the number of the operation that imported it; 0 is  *)
(* the home the student had.  Times are whole seconds, as in kept names.   *)
(* The run that an earlier call left behind has wound down before the next *)
(* one begins (SingleFlight).  Stopping and starting are one step each     *)
(* here; WorkspaceLifecycle has their detail.                              *)
(***************************************************************************)
EXTENDS Integers

CONSTANTS
    MaxOps,      \* bound: replace-home requests
    MaxTime,     \* bound: seconds
    MaxFaults,   \* bound: interruptions and failures
    MaxDeletes,  \* bound: kept homes deleted by an administrator
    Troubles     \* the sets of troubles, of which each behaviour has one

ASSUME BoundsAssumption ==
    /\ MaxOps \in Nat /\ MaxTime \in Nat
    /\ MaxFaults \in Nat /\ MaxDeletes \in Nat

(* Besides interruptions, which every behaviour may have: a step fails for
   good (OPERATION_FAILED); an abandoned Incus request takes effect later;
   an administrator deletes a kept home. *)
Kinds == {"fail", "late", "delete"}
ASSUME TroublesAssumption == Troubles \subseteq SUBSET Kinds

VARIABLES
    disk,    \* Incus: the home device and the home volumes
    power,   \* the instance's status
    row,     \* the workspaces row, with the import request it names
    begun,   \* what the student's home was when the operation was requested
    call,    \* the worker's call for this row, in its inFlight map
    run,     \* the controller's replaceHome: next request, and what it has read
    late,    \* abandoned Incus requests that may still take effect
    notice,  \* the last outcome the owner was notified of
    now, ops, faults, deletes,
    may      \* the troubles this behaviour may have

swapVars == <<disk, power, row, begun, call, run, late, notice, now, ops, faults, deletes, may>>

Times == 0..MaxTime
Contents == 0..MaxOps
NoVolume == -1
Detached == -2
Volume == Contents \union {NoVolume}

Disk == [attached : BOOLEAN, home : Volume, import : Volume, kept : [Times -> Volume]]
Home(d) == IF d.attached THEN d.home ELSE Detached

Row == [pending : BOOLEAN, at : Times, state : {"running", "stopped", "error"},
        desired : {"running", "stopped"},
        import : {"none", "asked", "done", "failed"}]

(* A call waits for the controller, has its answer, or looks for the kept
   home after a NOT_FOUND. *)
NoKept == -1
Call == [pc : {"idle", "swap", "answered"}, answer : {"none", "kept", "NOT_FOUND", "failed"},
         kept : Times \union {NoKept}]
Idle == [pc |-> "idle", answer |-> "none", kept |-> NoKept]

(* The run's next request. *)
RunSteps == {"get", "find_import", "detach", "find_home", "keep", "rename", "attach", "list"}
Run == [pc : RunSteps \union {"none"}, attached : BOOLEAN, import : BOOLEAN]
NoRun == [pc |-> "none", attached |-> FALSE, import |-> FALSE]

(* Requests that change something; a rename of the home carries its name. *)
Requests == [kind : {"detach", "rename", "attach"}, at : {0}] \union [kind : {"keep"}, at : Times]

----------------------------------------------------------------------------
(* What Incus does with each request, and when it refuses it.  The detach
   carries the ETag of an instance read with its home device. *)
Accepts(d, r) ==
    CASE r.kind = "detach" -> d.attached
      [] r.kind = "keep"   -> d.home # NoVolume /\ d.kept[r.at] = NoVolume
      [] r.kind = "rename" -> d.import # NoVolume /\ d.home = NoVolume
      [] r.kind = "attach" -> d.home # NoVolume

Applied(d, r) ==
    CASE r.kind = "detach" -> [d EXCEPT !.attached = FALSE]
      [] r.kind = "keep"   -> [d EXCEPT !.kept[r.at] = d.home, !.home = NoVolume]
      [] r.kind = "rename" -> [d EXCEPT !.home = d.import, !.import = NoVolume]
      [] r.kind = "attach" -> [d EXCEPT !.attached = TRUE]

(* Incus answers 404 for a volume that is not there, and the rest as failed. *)
Refusal(d, r) ==
    IF \/ r.kind = "keep" /\ d.home = NoVolume
       \/ r.kind = "rename" /\ d.import = NoVolume
    THEN "NOT_FOUND" ELSE "failed"

(* The request the run has open, when that changes anything. *)
Open == CASE run.pc = "keep" -> {[kind |-> "keep", at |-> now]}
          [] run.pc \in {"detach", "rename", "attach"} -> {[kind |-> run.pc, at |-> 0]}
          [] OTHER -> {}

----------------------------------------------------------------------------
SwapInit ==
    /\ disk = [attached |-> TRUE, home |-> 0, import |-> NoVolume,
               kept |-> [t \in Times |-> NoVolume]]
    /\ \E s \in {"running", "stopped"} :
          /\ row = [pending |-> FALSE, at |-> 0, state |-> s, desired |-> s, import |-> "none"]
          /\ power = s
    /\ begun = 0
    /\ call = Idle
    /\ run = NoRun
    /\ late = {}
    /\ notice = "none"
    /\ now = 0 /\ ops = 0 /\ faults = 0 /\ deletes = 0
    /\ may \in Troubles

Tick ==
    /\ now < MaxTime
    /\ now' = now + 1
    /\ UNCHANGED <<disk, power, row, begun, call, run, late, notice, ops, faults, deletes, may>>

(* The administrator confirms Replace home on a finished side copy. *)
requestReplaceHome ==
    /\ ~row.pending
    /\ ops < MaxOps /\ now < MaxTime
    /\ row' = [row EXCEPT !.pending = TRUE, !.at = now, !.import = "none"]
    /\ begun' = Home(disk)
    /\ ops' = ops + 1
    /\ UNCHANGED <<disk, power, call, run, late, notice, now, faults, deletes, may>>

(* A student's wish, and the administrator's delete of a listed kept home;
   no instance uses one, so the controller allows it. *)
setDesired ==
    /\ row' = [row EXCEPT !.desired = IF @ = "running" THEN "stopped" ELSE "running"]
    /\ UNCHANGED <<disk, power, begun, call, run, late, notice, now, ops, faults, deletes, may>>

deleteKeptHome ==
    /\ "delete" \in may /\ deletes < MaxDeletes
    /\ \E t \in Times :
          /\ disk.kept[t] # NoVolume
          /\ disk' = [disk EXCEPT !.kept[t] = NoVolume]
    /\ deletes' = deletes + 1
    /\ UNCHANGED <<power, row, begun, call, run, late, notice, now, ops, faults, may>>

----------------------------------------------------------------------------
(* The sweep's other steps: it stops a running workspace that is not wanted
   or has an operation pending, stops an errored one that still runs and is
   not wanted, and starts one that is wanted, also out of error. *)
sweepStops ==
    /\ \/ row.state = "running" /\ (row.pending \/ row.desired = "stopped")
       \/ row.state = "error" /\ power = "running" /\ row.desired = "stopped"
    /\ call.pc = "idle"
    /\ power' = "stopped"
    /\ row' = [row EXCEPT !.state = IF @ = "running" THEN "stopped" ELSE @]
    /\ UNCHANGED <<disk, begun, call, run, late, notice, now, ops, faults, deletes, may>>

MayStart == row.state \in {"stopped", "error"} /\ row.desired = "running" /\ ~row.pending

sweepStarts ==
    /\ MayStart
    /\ power' = "running"
    /\ row' = [row EXCEPT !.state = "running"]
    /\ UNCHANGED <<disk, begun, call, run, late, notice, now, ops, faults, deletes, may>>

(* A failed start may leave the instance up. *)
startFails ==
    /\ MayStart
    /\ "fail" \in may /\ faults < MaxFaults
    /\ faults' = faults + 1
    /\ \E p \in {"running", "stopped"} : power' = p
    /\ row' = [row EXCEPT !.state = "error"]
    /\ UNCHANGED <<disk, begun, call, run, late, notice, now, ops, deletes, may>>

----------------------------------------------------------------------------
(* runReplaceHome, up to the controller's call. *)
Due == row.pending /\ row.state \in {"stopped", "error"} /\ call.pc = "idle"

(* Fault: only a failure clears the operation. *)
finishedIfFailed(what) ==
    /\ row' = [row EXCEPT !.pending = what = "replaced",
                          !.state = IF what = "failed" THEN "error" ELSE @]
    /\ notice' = what
    /\ call' = Idle

(* finish: the row's operation is cleared, and the owner told. *)
finished(what) ==
    /\ row' = [row EXCEPT !.pending = FALSE, !.import = "none",
                          !.state = CASE what = "replaced" -> "stopped"
                                      [] what = "failed" -> "error"
                                      [] what = "unchanged" -> @]
    /\ notice' = what
    /\ call' = Idle

askImport ==
    /\ Due /\ row.import = "none"
    /\ row' = [row EXCEPT !.import = "asked"]
    /\ UNCHANGED <<disk, power, begun, call, run, late, notice, now, ops, faults, deletes, may>>

importFailed ==
    /\ Due /\ row.import = "failed"
    /\ finished("unchanged")
    /\ UNCHANGED <<disk, power, begun, run, late, now, ops, faults, deletes, may>>

callReplaceHome ==
    /\ Due /\ row.import = "done"
    /\ run.pc = "none"
    /\ call' = [Idle EXCEPT !.pc = "swap"]
    /\ run' = [NoRun EXCEPT !.pc = "get"]
    /\ UNCHANGED <<disk, power, row, begun, late, notice, now, ops, faults, deletes, may>>

(* The host's import, which takes a second at least: the host asks for work
   every thirty.  It replaces a leftover, and may fail before or after. *)
hostImports ==
    /\ row.import = "asked" /\ now > row.at
    /\ disk' = [disk EXCEPT !.import = ops]
    /\ row' = [row EXCEPT !.import = "done"]
    /\ UNCHANGED <<power, begun, call, run, late, notice, now, ops, faults, deletes, may>>

hostFails ==
    /\ row.import = "asked"
    /\ "fail" \in may /\ faults < MaxFaults
    /\ faults' = faults + 1
    /\ \E v \in {disk.import, NoVolume, ops} : disk' = [disk EXCEPT !.import = v]
    /\ row' = [row EXCEPT !.import = "failed"]
    /\ UNCHANGED <<power, begun, call, run, late, notice, now, ops, deletes, may>>

----------------------------------------------------------------------------
(* The controller's replaceHome, request by request. *)
onRun(pc) == run.pc = pc /\ UNCHANGED <<power, row, begun, late, notice, now, ops, faults, deletes, may>>
goOn(pc) == run' = [run EXCEPT !.pc = pc] /\ UNCHANGED call
answer(a, k) ==
    /\ run' = NoRun
    /\ call' = [pc |-> "answered", answer |-> a, kept |-> k]

getInstance ==
    /\ onRun("get")
    /\ \/ power # "stopped" /\ answer("failed", NoKept)
       \/ /\ power = "stopped"
          /\ run' = [run EXCEPT !.pc = "find_import", !.attached = disk.attached]
          /\ UNCHANGED call
    /\ UNCHANGED disk

(* Fault: a device that is off is taken for a swap that is done. *)
AfterImportOff(found) == IF run.attached THEN "detach" ELSE "attach"

AfterImport(found) == IF run.attached THEN "detach" ELSE IF found THEN "find_home" ELSE "attach"

findImport ==
    /\ onRun("find_import")
    /\ LET found == disk.import # NoVolume IN
       \/ run.attached /\ ~found /\ answer("NOT_FOUND", NoKept)
       \/ /\ ~run.attached \/ found
          /\ run' = [run EXCEPT !.pc = AfterImport(found), !.import = found]
          /\ UNCHANGED call
    /\ UNCHANGED disk

(* A request that Incus accepts, and one that it refuses. *)
requested(pc, next) ==
    /\ onRun(pc)
    /\ \E r \in Open :
          \/ Accepts(disk, r) /\ disk' = Applied(disk, r) /\ goOn(next)
          \/ ~Accepts(disk, r) /\ answer(Refusal(disk, r), NoKept) /\ UNCHANGED disk

detachHome == requested("detach", "find_home")

(* Fault: no home volume is taken for an import that was renamed. *)
AfterHomeStops(found) == IF found THEN "keep" ELSE "attach"

AfterHome(found) == IF found THEN "keep" ELSE "rename"

findHome ==
    /\ onRun("find_home")
    /\ goOn(AfterHome(disk.home # NoVolume))
    /\ UNCHANGED disk

keepHome == requested("keep", "rename")
renameImport == requested("rename", "attach")
attachHome == requested("attach", "list")

KeptTimes(d) == {t \in Times : d.kept[t] # NoVolume}
Newest(S) == CHOOSE t \in S : \A u \in S : u =< t

newestKeptHome ==
    /\ onRun("list")
    /\ \/ KeptTimes(disk) = {} /\ answer("failed", NoKept)
       \/ KeptTimes(disk) # {} /\ answer("kept", Newest(KeptTimes(disk)))
    /\ UNCHANGED disk

----------------------------------------------------------------------------
(* The call ends without an answer: the worker or the controller has gone,
   Incus cannot be reached, or the budget ran out.  The open request has
   taken effect or has not, or may do so later.  The row is as it was. *)
interrupted ==
    /\ call.pc # "idle"
    /\ faults < MaxFaults
    /\ faults' = faults + 1
    /\ \/ UNCHANGED <<disk, late>>
       \/ /\ \E r \in Open : Accepts(disk, r) /\ disk' = Applied(disk, r)
          /\ UNCHANGED late
       \/ "late" \in may /\ late' = late \union Open /\ UNCHANGED disk
    /\ call' = Idle
    /\ run' = NoRun
    /\ UNCHANGED <<power, row, begun, notice, now, ops, deletes, may>>

(* Incus answers the open request with an error. *)
requestFails ==
    /\ run.pc # "none"
    /\ "fail" \in may /\ faults < MaxFaults
    /\ faults' = faults + 1
    /\ answer("failed", NoKept)
    /\ UNCHANGED <<disk, power, row, begun, late, notice, now, ops, deletes, may>>

lateEffect ==
    /\ \E r \in late :
          /\ late' = late \ {r}
          /\ disk' = IF Accepts(disk, r) THEN Applied(disk, r) ELSE disk
    /\ UNCHANGED <<power, row, begun, call, run, notice, now, ops, faults, deletes, may>>

----------------------------------------------------------------------------
(* runReplaceHome, after the controller's answer. *)
finishReplaced ==
    /\ call.pc = "answered" /\ call.answer = "kept"
    /\ finished("replaced")
    /\ UNCHANGED <<disk, power, begun, run, late, now, ops, faults, deletes, may>>

finishTouched ==
    /\ call.pc = "answered" /\ call.answer = "failed"
    /\ finished("failed")
    /\ UNCHANGED <<disk, power, begun, run, late, now, ops, faults, deletes, may>>

(* Fault: the time is compared in milliseconds. *)
SinceMs(t) == t >= 1000 * row.at

(* keptSince: a kept home named at or after the second of the request. *)
Since(t) == t >= row.at

Mine(d) == {t \in KeptTimes(d) : Since(t)}

lookForKept ==
    /\ call.pc = "answered" /\ call.answer = "NOT_FOUND"
    /\ \/ /\ Mine(disk) # {}
          /\ call' = [call EXCEPT !.answer = "kept", !.kept = Newest(Mine(disk))]
          /\ UNCHANGED <<row, notice>>
       \/ Mine(disk) = {} /\ finished("unchanged")
    /\ UNCHANGED <<disk, power, begun, run, late, now, ops, faults, deletes, may>>

----------------------------------------------------------------------------
swapRequest ==
    \/ getInstance \/ findImport \/ detachHome \/ findHome
    \/ keepHome \/ renameImport \/ attachHome \/ newestKeptHome

workerStep ==
    \/ askImport \/ importFailed \/ callReplaceHome
    \/ finishReplaced \/ finishTouched \/ lookForKept

SwapNext ==
    \/ Tick \/ requestReplaceHome \/ setDesired \/ deleteKeptHome
    \/ sweepStops \/ sweepStarts \/ startFails
    \/ askImport \/ importFailed \/ callReplaceHome
    \/ hostImports \/ hostFails
    \/ getInstance \/ findImport \/ detachHome \/ findHome
    \/ keepHome \/ renameImport \/ attachHome \/ newestKeptHome
    \/ interrupted \/ requestFails \/ lateEffect
    \/ finishReplaced \/ finishTouched \/ lookForKept

(* The sweep repeats while there is work (runLoop), the host's timer pulls
   requests, and a run's requests are answered. *)
SwapFairness ==
    /\ WF_swapVars(Tick)
    /\ WF_swapVars(workerStep)
    /\ WF_swapVars(swapRequest)
    /\ WF_swapVars(hostImports)
    /\ WF_swapVars(sweepStops)

SwapSpec == SwapInit /\ [][SwapNext]_swapVars /\ SwapFairness
----------------------------------------------------------------------------
SwapTypeOK ==
    /\ disk \in Disk
    /\ power \in {"running", "stopped"}
    /\ row \in Row
    /\ begun \in Volume \union {Detached}
    /\ call \in Call
    /\ run \in Run
    /\ late \subseteq Requests
    /\ notice \in {"none", "replaced", "failed", "unchanged"}
    /\ now \in Times /\ ops \in 0..MaxOps
    /\ faults \in 0..MaxFaults /\ deletes \in 0..MaxDeletes
    /\ may \in Troubles

Finishes(what) == row.pending /\ ~row'.pending /\ notice' = what
Holds(d, c) == \E t \in Times : d.kept[t] = c

(* When the owner is told "Your home folder was replaced.  Your previous
   home folder is kept", the instance has the home this operation imported,
   the import is used up and what the student had before is in a kept home,
   through whatever interruptions, failures and half-done swaps (finish,
   keptSince; replaceHome).  A kept home deleted meanwhile, or an abandoned
   request that takes effect later, may break it: see the README's divergences. *)
ReplacedIsSwapped ==
    [][Finishes("replaced") /\ may \subseteq {"fail"} =>
          /\ Home(disk) = ops
          /\ disk.import = NoVolume
          /\ begun # Detached => Holds(disk, begun)]_swapVars

(* When the owner is told "Your files are unchanged", the home is the one
   there was when the operation was requested (runReplaceHome's failures
   with homeTouched false, and keptSince).  An operation that finds a swap
   an earlier one left half done may break it: see the README's divergences. *)
UnchangedIsUntouched == [][Finishes("unchanged") => Home(disk) = begun]_swapVars

(* The same of an operation requested while the workspace has a home, unless
   a kept home is deleted meanwhile or an abandoned request takes effect
   later. *)
WholeHomeUntouched ==
    [][Finishes("unchanged") /\ begun # Detached /\ may \subseteq {"fail"}
          => Home(disk) = begun]_swapVars

(* When no request fails for good or takes effect later, an operation ends as
   a replaced home, however often its calls are cut off in the middle of the
   swap: each step can be repeated. *)
RetriesFinishTheSwap ==
    \A n \in 1..MaxOps :
        may = {} /\ row.pending /\ ops = n ~> ~row.pending /\ ops = n /\ notice = "replaced"

(* Whatever fails, the operation ends and the workspace is released
   (finish on every path that is not retried). *)
OperationEnds == row.pending ~> ~row.pending

(* The instance is started only with a home on it.  The sweep's retry of an
   errored workspace does not look: see the README's divergences. *)
StartsWithHome == [][power = "stopped" /\ power' = "running" => disk.attached]_swapVars
=============================================================================
