---------------------------- MODULE BackupChannel ----------------------------
(***************************************************************************)
(* The backup jobs and who does them.  Administrators' requests wait in    *)
(* backup_requests.  The backup host polls over SSH and runs at most one   *)
(* host request at a time (infra/host/backup-channel.sh); the commands it  *)
(* calls in the VM are pullRequest and acceptReport, and the worker's      *)
(* backup loop runs the VM's own deletes and keeps the presence row of a   *)
(* side copy fresh (apps/worker/src/backups.ts).                           *)
(*                                                                         *)
(* Grain: one database transaction, one command over SSH or one controller *)
(* call is a step.  A command may fail to reach the VM, or be carried out  *)
(* and its answer lost; the host and the worker may stop between any two   *)
(* steps.  The unit of time is one round of the VM loop (30 s).  A row     *)
(* written between two rounds has lived from one round less to one round   *)
(* more than it counts, and the sweep looks every second: a row may go as  *)
(* soon as it counts its whole life.                                       *)
(***************************************************************************)
EXTENDS Integers, FiniteSets, Sequences

CONSTANTS
    Copies,        \* restore_copy requests, each of its own workspace
    Backups,       \* backup and import_home requests: long, and hold nothing
    SetDeletes,    \* delete_set and delete_dump requests
    VmDeletes,     \* delete_snapshot and delete_kept_home, all of one volume
    PresenceTtl,   \* PRESENCE_TTL_SECONDS in rounds
    ClaimTimeout,  \* BACKUP_CLAIM_TIMEOUT_MS in rounds
    Worlds,        \* bound: what is asked, and how many rounds in a row the VM
                   \* loop skips, busy or stopped; each behaviour has one
    MaxFaults      \* bound: lost commands, crashes and failed calls

ASSUME RoundsAssumption ==   \* a row lives two rounds, a claim at least as long
    PresenceTtl \in Nat /\ PresenceTtl >= 2 /\ ClaimTimeout \in Nat /\ PresenceTtl <= ClaimTimeout
ASSUME KindsAssumption ==
    /\ "none" \notin Copies \union Backups \union SetDeletes \union VmDeletes
    /\ (Copies \union Backups \union SetDeletes) \intersect VmDeletes = {}
ASSUME BoundsAssumption ==
    /\ MaxFaults \in Nat
    /\ Worlds \subseteq [asks : SUBSET (Copies \union Backups \union SetDeletes \union VmDeletes),
                        skips : Nat]

VARIABLES
    asked,   \* the requests in the order of requested_at
    req,     \* backup_requests: state, and rounds since claimed_at
    running, \* backup_status: the running request of the last report
    conn,    \* a copy's presence row: rounds since last_seen_at
    host,    \* backup-channel.sh: where the run is
    pending, \* the host's pending.json
    beat,    \* a heartbeat on its way
    worker,  \* the VM loop
    volume,  \* whether the volume of the VM deletes exists
    open,    \* whether a controller's delete of it may still take effect
    missed, due, faults,
    starts,  \* history: how often the host began a request
    told,    \* history: how often a request was finished, audited and notified
    lapsed,  \* history: copies whose row the VM loop did not refresh in time
    world    \* what happens in this behaviour

vars == <<asked, req, running, conn, host, pending, beat, worker, volume, open,
          missed, due, faults, starts, told, lapsed, world>>

HostRequests == Copies \union Backups \union SetDeletes
Requests == HostRequests \union VmDeletes
None == "none"
Gone == -1

Phases == {"idle", "deliver", "pull", "nothing", "working", "finish"}
NoResult == [id |-> None, state |-> None]
Results == [id : HostRequests, state : {"done", "failed"}] \union {NoResult}

TypeOK ==
    /\ asked \in Seq(Requests)
    /\ req \in [Requests -> [state : {"none", "pending", "claimed", "done", "failed", "interrupted"},
                             age : 0..(ClaimTimeout + 1)]]
    /\ running \in HostRequests \union {None}
    /\ conn \in [Copies -> Gone..(PresenceTtl + 1)]
    /\ host \in [phase : Phases, id : HostRequests \union {None}, handled : BOOLEAN]
    /\ pending \in Results
    /\ beat \in HostRequests \union {None}
    /\ worker \in [phase : {"down", "idle", "claim", "call"}, id : VmDeletes \union {None}]
    /\ volume \in BOOLEAN /\ open \in BOOLEAN /\ due \in BOOLEAN
    /\ world \in Worlds /\ missed \in 0..world.skips /\ faults \in 0..MaxFaults
    /\ starts \in [Requests -> Nat] /\ told \in [Requests -> Nat]
    /\ lapsed \subseteq Copies

Init ==
    /\ asked = <<>>
    /\ req = [r \in Requests |-> [state |-> "none", age |-> 0]]
    /\ running = None
    /\ conn = [c \in Copies |-> Gone]
    /\ host = [phase |-> "idle", id |-> None, handled |-> FALSE]
    /\ pending = NoResult
    /\ beat = None
    /\ worker = [phase |-> "idle", id |-> None]
    /\ volume = TRUE /\ open = FALSE
    /\ missed = 0 /\ due = TRUE /\ faults = 0
    /\ starts = [r \in Requests |-> 0]
    /\ told = [r \in Requests |-> 0]
    /\ lapsed = {}
    /\ world \in Worlds

Fault == faults < MaxFaults /\ faults' = faults + 1

----------------------------------------------------------------------------
(* Time.  The VM loop's timer fires every round; a round that finds the loop
   busy is skipped, and what is due is done before the next round.  A row that
   is not refreshed in the last round of its life is on its own: one written
   so long ago, with so many rounds skipped in a row. *)
Older(age, cap) == IF age = Gone \/ age = cap + 1 THEN age ELSE age + 1

Tick ==
    /\ ~due /\ worker.phase # "claim"
    /\ worker.phase # "idle" => missed < world.skips
    /\ missed' = IF worker.phase = "idle" THEN missed ELSE missed + 1
    /\ due' = (worker.phase = "idle")
    /\ req' = [r \in Requests |->
                IF req[r].state = "claimed" THEN [req[r] EXCEPT !.age = Older(@, ClaimTimeout)]
                ELSE req[r]]
    /\ conn' = [c \in Copies |-> Older(conn[c], PresenceTtl)]
    /\ lapsed' = lapsed \union
                   {c \in Copies : /\ req[c].state = "claimed" /\ req'[c].age >= PresenceTtl - 1
                                   /\ worker.phase # "idle" /\ missed' >= PresenceTtl - 1}
    /\ UNCHANGED <<asked, running, host, pending, beat, worker, volume, open, faults, starts, told,
                   world>>

(* An administrator's request (record). *)
record(r) ==
    /\ r \in world.asks
    /\ req[r].state = "none"
    /\ req' = [req EXCEPT ![r].state = "pending"]
    /\ asked' = Append(asked, r)
    /\ UNCHANGED <<running, conn, host, pending, beat, worker, volume, open, missed, due, faults,
                   starts, told, lapsed, world>>

----------------------------------------------------------------------------
(* The VM's side of the channel. *)
releasePresence(rs) == [c \in Copies |-> IF c \in rs THEN Gone ELSE conn[c]]

(* finishHostRequest for every request of rs. *)
Finished(rs, state) ==
    [r \in Requests |-> IF r \in rs THEN [req[r] EXCEPT !.state = state] ELSE req[r]]
Told(rs) == [r \in Requests |-> IF r \in rs THEN told[r] + 1 ELSE told[r]]

(* Fault: a result that was delivered before finishes its request again. *)
AcceptsAny(result) == {result.id} \ {None}

(* The request a result may finish: only a claimed one. *)
Accepts(result) == {r \in {result.id} \ {None} : req[r].state = "claimed"}

(* acceptReport: the status, and the result the report carries. *)
acceptReport(of, result) ==
    /\ running' = of
    /\ req' = Finished(Accepts(result), result.state)
    /\ conn' = releasePresence(Accepts(result))
    /\ told' = Told(Accepts(result))

(* The requests the host is taken to have lost. *)
Lost == {r \in HostRequests : /\ req[r].state = "claimed" /\ req[r].age > ClaimTimeout
                              /\ r # running}

(* The oldest request of a set, as a set of at most one. *)
Oldest(rs) ==
    {asked[i] : i \in {j \in DOMAIN asked :
                        asked[j] \in rs /\ \A k \in 1..(j - 1) : asked[k] \notin rs}}

NextPending == Oldest({r \in HostRequests : req[r].state = "pending"})

(* pullRequest: fail what the host lost, then claim the oldest pending
   request; a copy's workspace gets a presence row. *)
pullRequest ==
    /\ req' = [r \in Requests |->
                CASE r \in NextPending -> [state |-> "claimed", age |-> 0]
                  [] r \in Lost \ NextPending -> [req[r] EXCEPT !.state = "interrupted"]
                  [] OTHER -> req[r]]
    /\ conn' = [c \in Copies |-> IF c \in NextPending THEN 0 ELSE releasePresence(Lost)[c]]
    /\ told' = Told(Lost \ NextPending)
    /\ UNCHANGED running

----------------------------------------------------------------------------
(* The host.  A run holds a lock, so runs never overlap; every command that
   fails ends the run, and the timer begins another. *)
Stop == [phase |-> "idle", id |-> None, handled |-> FALSE]
vmUnchanged == UNCHANGED <<req, running, conn, told>>
restUnchanged == UNCHANGED <<asked, worker, volume, open, missed, due, lapsed, world>>

FirstPulls == "pull"
FirstPhase == IF pending # NoResult THEN "deliver" ELSE "pull"

channelRun ==
    /\ host.phase = "idle"
    /\ host' = [Stop EXCEPT !.phase = FirstPhase]
    /\ UNCHANGED <<pending, beat, faults, starts>> /\ vmUnchanged /\ restUnchanged

(* A command that does not reach the VM, or whose answer is lost. *)
lostReport(of, result) ==
    /\ Fault /\ host' = Stop
    /\ vmUnchanged \/ acceptReport(of, result)
    /\ UNCHANGED <<pending, beat, starts>> /\ restUnchanged

(* A result from before goes ahead of anything new. *)
deliverResult ==
    /\ host.phase = "deliver"
    /\ acceptReport(None, pending)
    /\ pending' = NoResult
    /\ host' = [host EXCEPT !.phase = "pull"]
    /\ UNCHANGED <<beat, faults, starts>> /\ restUnchanged

pull ==
    /\ host.phase = "pull"
    /\ pullRequest
    /\ IF NextPending = {} THEN host' = [host EXCEPT !.phase = "nothing"] /\ UNCHANGED starts
       ELSE \E r \in NextPending :
                /\ host' = [host EXCEPT !.phase = "working", !.id = r]
                /\ starts' = [starts EXCEPT ![r] = @ + 1]
    /\ UNCHANGED <<pending, beat, faults>> /\ restUnchanged

lostPull ==
    /\ host.phase = "pull" /\ Fault /\ host' = Stop
    /\ vmUnchanged \/ pullRequest
    /\ UNCHANGED <<pending, beat, starts>> /\ restUnchanged

(* Nothing to do: a report of the status, unless finish has just sent one. *)
NeverReports == FALSE
Reports == ~host.handled

reportNothing ==
    /\ host.phase = "nothing"
    /\ host' = Stop
    /\ IF Reports THEN acceptReport(None, NoResult) ELSE vmUnchanged
    /\ UNCHANGED <<pending, beat, faults, starts>> /\ restUnchanged

lostNothing == host.phase = "nothing" /\ Reports /\ lostReport(None, NoResult)

(* start_heartbeat: a long job is reported as running.  A report that was
   under way when the heartbeat stopped still arrives. *)
heartbeat ==
    /\ host.phase = "working" /\ host.id \notin SetDeletes /\ beat = None
    /\ beat' = host.id
    /\ UNCHANGED <<host, pending, faults, starts>> /\ vmUnchanged /\ restUnchanged

heartbeatArrives ==
    /\ beat # None
    /\ acceptReport(beat, NoResult)
    /\ beat' = None
    /\ UNCHANGED <<host, pending, faults, starts>> /\ restUnchanged

heartbeatLost ==
    /\ beat # None /\ Fault
    /\ beat' = None
    /\ UNCHANGED <<host, pending, starts>> /\ vmUnchanged /\ restUnchanged

(* The job is over: its result is written before it is reported. *)
writeResult ==
    /\ host.phase = "working"
    /\ \E s \in {"done", "failed"} : pending' = [id |-> host.id, state |-> s]
    /\ host' = [host EXCEPT !.phase = "finish"]
    /\ UNCHANGED <<beat, faults, starts>> /\ vmUnchanged /\ restUnchanged

(* finish; a delete that succeeded has the run take the next request, within
   its limits of requests and time. *)
finish ==
    /\ host.phase = "finish"
    /\ acceptReport(None, pending)
    /\ pending' = NoResult
    /\ host' \in {Stop} \union
                 IF host.id \in SetDeletes /\ pending.state = "done"
                 THEN {[phase |-> "pull", id |-> None, handled |-> TRUE]} ELSE {}
    /\ UNCHANGED <<beat, faults, starts>> /\ restUnchanged

lostResult == host.phase \in {"deliver", "finish"} /\ lostReport(None, pending)

hostCrash ==
    /\ host.phase # "idle" /\ Fault
    /\ host' = Stop
    /\ UNCHANGED <<pending, beat, starts>> /\ vmUnchanged /\ restUnchanged

----------------------------------------------------------------------------
(* The worker: the VM loop, and the sweep's part in presence. *)
hostUnchanged == UNCHANGED <<asked, running, host, pending, beat, starts, lapsed, world>>

RefreshedIfRunning(c) == conn[c] # Gone /\ running = c
Refreshed(c) == conn[c] # Gone /\ req[c].state = "claimed"

(* backupVmTick, to the first claim: refreshRestorePresence only updates. *)
refreshRestorePresence ==
    /\ due /\ worker.phase = "idle"
    /\ due' = FALSE /\ missed' = 0
    /\ conn' = [c \in Copies |-> IF Refreshed(c) THEN 0 ELSE conn[c]]
    /\ worker' = [worker EXCEPT !.phase = "claim"]
    /\ UNCHANGED <<req, volume, open, faults, told>> /\ hostUnchanged

(* claimVmDelete, and the call it leads to; with nothing left, the listing
   and the end of the pass. *)
Claimable ==
    Oldest({r \in VmDeletes : \/ req[r].state = "pending"
                              \/ req[r].state = "claimed" /\ req[r].age > ClaimTimeout})

claimVmDelete ==
    /\ worker.phase = "claim"
    /\ IF Claimable = {}
       THEN worker' = [phase |-> "idle", id |-> None] /\ UNCHANGED <<req, open>>
       ELSE \E r \in Claimable :
                /\ req' = [req EXCEPT ![r] = [state |-> "claimed", age |-> 0]]
                /\ worker' = [phase |-> "call", id |-> r]
                /\ open' = (open \/ volume)
    /\ UNCHANGED <<conn, volume, missed, due, faults, told>> /\ hostUnchanged

(* The controller's delete, which outlives the call. *)
volumeGoes ==
    /\ open
    /\ volume' = FALSE /\ open' = FALSE
    /\ UNCHANGED <<req, conn, worker, missed, due, faults, told>> /\ hostUnchanged

deleteFails ==
    /\ open /\ Fault
    /\ open' = FALSE
    /\ UNCHANGED <<req, conn, worker, volume, missed, due, told>> /\ hostUnchanged

(* How the call may end: with the volume gone, now or before (NOT_FOUND), or
   with an error while the delete may still go on. *)
Answers == (IF volume THEN {} ELSE {"ok", "NOT_FOUND"}) \union
           (IF open THEN {} ELSE {"OPERATION_FAILED"}) \union {"TIMEOUT"}
IsGone(a) == a \in {"ok", "NOT_FOUND"}

deleteAnswered ==
    /\ worker.phase = "call"
    /\ \E a \in Answers :
        /\ IF a = "TIMEOUT" THEN Fault ELSE UNCHANGED faults
        /\ req' = Finished({worker.id}, IF IsGone(a) THEN "done" ELSE "failed")
    /\ told' = Told({worker.id})
    /\ worker' = [phase |-> "claim", id |-> None]
    /\ UNCHANGED <<conn, volume, open, missed, due>> /\ hostUnchanged

workerStops ==
    /\ worker.phase # "down" /\ Fault
    /\ worker' = [phase |-> "down", id |-> None]
    /\ due' = FALSE
    /\ UNCHANGED <<req, conn, volume, open, missed, told>> /\ hostUnchanged

workerStarts ==
    /\ worker.phase = "down"
    /\ worker' = [phase |-> "idle", id |-> None]
    /\ due' = TRUE
    /\ UNCHANGED <<req, conn, volume, open, missed, faults, told>> /\ hostUnchanged

(* The sweep removes presence rows not seen for PRESENCE_TTL_SECONDS, perhaps
   before the refresh that is due in this round. *)
expirePresence(c) ==
    /\ worker.phase # "down" /\ conn[c] >= PresenceTtl
    /\ conn' = [conn EXCEPT ![c] = Gone]
    /\ UNCHANGED <<req, worker, volume, open, missed, due, faults, told>> /\ hostUnchanged

----------------------------------------------------------------------------
Host == \/ channelRun \/ deliverResult \/ pull \/ reportNothing \/ writeResult \/ finish
Next ==
    \/ Tick
    \/ \E r \in Requests : record(r)
    \/ Host \/ heartbeat \/ heartbeatArrives
    \/ lostPull \/ lostNothing \/ lostResult \/ heartbeatLost \/ hostCrash
    \/ refreshRestorePresence \/ claimVmDelete \/ deleteAnswered
    \/ volumeGoes \/ deleteFails \/ workerStops \/ workerStarts
    \/ \E c \in Copies : expirePresence(c)

Spec == Init /\ [][Next]_vars

(* Both timers fire, every job and call ends, and a stopped worker is started
   again; faults are finite (MaxFaults). *)
FairSpec ==
    /\ Spec /\ WF_vars(Tick) /\ WF_vars(Host) /\ WF_vars(heartbeatArrives)
    /\ WF_vars(refreshRestorePresence) /\ WF_vars(claimVmDelete) /\ WF_vars(deleteAnswered)
    /\ WF_vars(volumeGoes) /\ WF_vars(workerStarts)

----------------------------------------------------------------------------
Over == {"done", "failed", "interrupted"}

(* A request failed as interrupted is not being worked on, and no result of
   it waits on the host. *)
InterruptedIsLost ==
    \A r \in HostRequests : req[r].state = "interrupted" => host.id # r /\ pending.id # r

(* The host begins a request at most once, so no copy or import runs a second
   time, and a request is finished once, with one audit row and one
   notification, however often pulls and reports are lost, a result is sent
   again and a stale claim is taken over. *)
OnceOnly ==
    /\ \A r \in HostRequests : starts[r] <= 1
    /\ \A r \in Requests : told[r] = (IF req[r].state \in Over THEN 1 ELSE 0)

(* The workspace of a copy under way has its presence row, so the grace
   period does not run, unless the VM loop was busy or stopped in every round
   but the last of the row's life (refreshRestorePresence,
   PRESENCE_TTL_SECONDS): the refresh in that round may be too late, and it
   does not bring back a row that is gone. *)
CopyHeld ==
    \A c \in Copies \ lapsed : host.phase = "working" /\ host.id = c => conn[c] # Gone

(* docs/adr/0040: while the host runs a side copy, "`pull` holds a presence row
   for the workspace, and the worker's backup loop keeps that row fresh". *)
CopyAlwaysHeld ==
    \A c \in Copies : host.phase = "working" /\ host.id = c => conn[c] # Gone

(* Every request ends, whatever was lost and whoever stopped. *)
RequestsEnd == \A r \in Requests : req[r].state \in {"pending", "claimed"} ~> req[r].state \in Over
=============================================================================
