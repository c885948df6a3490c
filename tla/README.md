# Portikus: TLA+ models and proofs

Portikus gives each student a Linux workspace, an Incus instance, that is created
on demand, started when the student connects and stopped when nobody is there. The
models here are about the parts of it that are concurrent and must survive failures:
who may change a workspace's row and its instance, in which order, when a timer may
stop it, how its home is replaced, how the backup host, the resource guard, the
terminals and the sign-in counters work beside each other, and what is left when a
request, a call or a process dies half-way.

Contents: [inventory](#inventory), [modules](#modules), [runs](#runs),
[bounds](#bounds), [fairness](#fairness), [divergences](#divergences),
[proofs](#proofs), [abstractions](#abstractions-and-what-is-not-modelled),
[plan](#plan).

## Inventory

| Component | State it keeps | Operations | Talks to |
|---|---|---|---|
| API (`apps/api`) | `workspaces`, `workspace_connections`, `terminals`, `signin_counters`; in memory socket slots and `lastWrites` | create, Start/Stop/Restart, archive, disable, re-provision, maintenance requests, presence, activity, holds, terminals, sign-in relay | database, workspace agent, Dex |
| Worker sweep (`apps/worker/src/reconcile.ts`, `reconcile-drift.ts`) | time of the last refresh | every second: holds, presence, deadlines, create, start, stop, idle stop, retry, maintain, compare with `list()` | database, controller |
| Worker background calls (`lifecycle.ts`) | `inFlight`, `activeCalls`, `waitingForSlot`, in memory | create, start, stop, operate, one at a time per workspace, six at once in all (stops apart) | controller, then the row |
| Worker guard (`guard.ts`) | samples, throttle and flag columns | a sample a minute, judge, throttle, lift, flag, write the allowance | database, controller |
| Worker backup loop, backup channel (`backups.ts`) | `backup_requests`, `backup_status`, presence rows of copies | take requests, hand them to the backup host, accept reports, delete in the VM | database, controller, backup host |
| Backup host (`infra/host/backup-channel.sh`) | `pending.json`, its lock | pull, work, heartbeat, report | the VM, over SSH |
| Controller (`apps/workspace-controller`) | `inflight`, one shared run per operation and instance, in memory | create, start, stop, reset Docker, rebuild, replace home, list, kept homes | Incus |
| Incus | status, devices and volumes; token file | boots, stops; may be changed by the student or an administrator | |
| Workspace agent (`apps/workspace-agent`) | tmux sessions, attachments, files, recovery points | terminals, files, git | tmux, disk |
| Accounts (`packages/auth`) | users, sessions, links, LTI | sign-in; linking archives a workspace | database |
| Web (`apps/web`) | views | | API |

How they interact. The API never calls the controller: it writes a wish
(`desired_state`, `archived_at`, `pending_operation`, `keep_running_until`, a request
row) into the database. The worker is one process with one sweep at a time; it moves
rows by compare-and-set on `state` and makes the slow controller calls in the
background. A call's outcome is written by another compare-and-set when it ends. The
controller keeps working when its caller is gone. After a crash the rows are all that
is left, and `list()` is the only witness of what the instances do. Terminals go from
the browser through the API to the agent, with a row on one side and a tmux session on
the other.

What is hard: the sweep acts on rows it read several statements ago; a `list()` may be
older than the row it is compared with; API writes land between any two statements of
the worker; calls fail, time out while the work goes on, or are abandoned by a worker
exit; the shared runs of the controller are aborted when their callers leave, and new
callers arrive meanwhile; slots are handed over between turns of the event loop; a
swap of homes may be cut after any of its requests; SSH commands are lost on the way
or on the way back; sockets close while a promise is under way; a counter is hit by
many posts at once, and given back later.

What makes each part correct:

* background calls: never two for one workspace; a slot is never lost or counted
  twice; a queued call gets its turn;
* sweep and calls: the row tells the truth about the instance whenever nobody else
  touched it, but for a create that adopts a running one; a student's wish is not overwritten; everything comes to rest where the
  row says;
* timers: a connected or held workspace is not stopped; the end of a hold or an
  activity gives back the whole time;
* shared runs: never two on one instance; aborted exactly when nobody waits; every
  caller is answered;
* replace home: a retry finishes the swap; the owner is told what happened to the
  files;
* backup requests: each begun and finished at most once, none forgotten, a copy keeps
  its workspace up;
* terminals: the cap holds and chosen names differ under parallel creates, a stop ends
  what is open, a pipe gives back what it took and closes when the sign-in ends, a closed socket
  leaves nothing in the agent, early input keeps its order;
* guard: a reboot that shows hides no use, a hold begins exactly when it should;
* sign-in counters: parallel posts do not pass a limit, and what is given back is
  neither too much nor too little.

`PROJECT.json` lists all components and, under `hazards`, each place where one of
these could go wrong.

## Modules

| Module | Models | State and actions |
|---|---|---|
| `CallPool` | abstract: at most `Cap` calls run, one per workspace, stops apart | sets of waiting, running, stopping and ending calls |
| `ControllerSlots` | `track`, `withSlot`, `runInBackground`, `stopInBackground` | the module variables of `lifecycle.ts`; an action is the code between two awaits |
| `WorkspaceRow` | the `workspaces` row; each SQL statement as a pure operator on it | none |
| `WorkspaceLifecycle` | sweep, calls, controller, API and faults together | `row`, `tab` (presence), `request` (a `setDesired` between read and write), `inst`, `ctl` (controller work, awaited or not), `token`, `call` (`inFlight`), `pc`/`picked`/`heldOut`/`listed`/`seen` (the sweep's locals) |
| `SingleFlight` | `singleFlight`, `join`, `forget`, `callerSignal` for one key | `entry` and the runs, callers waiting or parked on `settled` |
| `ShutdownTimers` | holds, presence, the grace period and the idle stop over a clock | the timestamps of `row`, `seenAt` (presence rows), `socket`, `settings`, `lastWrite`, and the sweep's next statement with what it read |
| `HomeSwap` | `runReplaceHome`, `keptSince`, the controller's `replaceHome`, Incus's volumes | `disk`, `row`, `call`, `run` (which request is open and what was read), `late` (abandoned requests) |
| `BackupChannel` | `backup_requests` from an administrator's click to the owner's message | `req`, `running` (last report), `conn` (a copy's presence), `host` and `pending` (`pending.json`), `worker`, `volume` |
| `Terminals` | rows, creates, renames, closes, the delete of a project, the stop and the agent's sessions of one workspace | `rows` (state, name, project, folder), `sessions`, `create`, `close`, `deletion` (requests), `lock` (the create that has chosen its name), `projects`, `ws`, `boot` |
| `TerminalPipe` | one terminal socket in the API between browser and agent | `pc`, `slot`, `row`, `browser`, `upstream`, `explain`, `check` |
| `TerminalAttach` | the agent's attachments of one terminal, with tmux | `attached`, `holder` (`claimers`), `at`, `pty` (and the question its exit asks), `pending` (early input), `claim` |
| `ResourceGuard` | the guard's samples, judgements, throttles and flags, what a stop clears and a start carries | `row`, `samples`, `inst`, `tick`, `clear`, `start` |
| `StoredCounter` | the statements of the stored counters as operators on one row | none |
| `PasswordRelay` | Dex's password posts over the counters | `row` (counters), `post` |
| `..._proofs` | theorems about the module of that name; `Worker_proofs` is about `ControllerSlots` and `ResourceGuard`, `Controller_proofs` about `SingleFlight` and `HomeSwap`, `Terminals_proofs` about `Terminals` and `TerminalPipe` | |
| `MC...` | the instances TLC checks | |

Every module keeps the code's grain: one SQL statement or transaction, one request to
Incus, one command over SSH, or the code between two awaits is one step, and anything
may happen between two of them. The module's head comment says which.

`WorkspaceLifecycle`: "select, then update each row" is a selecting action
(`startStopped`) followed by one acting action per row (`startStoppedAct`). So is the
grace stop, though it is one UPDATE: its count of connections is a subquery, which READ
COMMITTED does not run again when it reaches a row, so `stopAfterGrace` counts and
`stopAfterGraceAct` tests the row again and writes. Selects
whose calls are started without an await (`createProvisioning`, `runMaintenance`) are
one step. A call goes through `queued` (waits for a slot), `active` (begun; a start has
rotated its token), `sent` (the controller works), then an answer, and the row is
written in the step that ends it. `GiveUp` is a call whose budget ran out: the row
learns of a failure while `ctl` goes on. `WorkerRestarts` empties the calls and the
sweep's locals and leaves rows and controller work. Two history variables hold what
makes a row lie: `disturbed`, a call given up or a change from outside, until a start or
stop of the worker is answered; and `adopted`, a create that found the instance up and
kept it (src/apps/worker/src/lifecycle.ts:213, docs/SPEC.md:3070). The latter needs no
fault: a start fails, the forced stop after it fails too, and an administrator
re-provisions. The row then says stopped of a running instance, and the agent may hold
the token of before, until drift, a start or a stop.

`ShutdownTimers`: the sweep's statements in the order of `reconcile`, each one step
with the time the sweep began, except three that read in one step and write in the
next, because under READ COMMITTED what they read is that of the statement's start: the
two that test a joined copy of the row (`recompute`, `warn`), and the grace stop, whose
subquery counts the connections (`countConnections`, `stopAfterGrace`). The ghost
`lateSockets` has the sockets opened in between.

`HomeSwap`: the worker's visit and the controller's requests, each open until Incus
has applied it and again until it is answered; `interrupted` ends a call at any of
these points. With `late`, a request that was open then may take effect afterwards.

`BackupChannel`: an SSH command that fails is either not carried out or carried out
with its answer lost, as `lostPull`, `lostReport` and their kin say. The VM loop's
round is the unit of time; `world.skips` is how many rounds in a row it may miss,
because a delete keeps it busy or it is stopped. A round is 30 s and its work, a row
lives for 60 s and the sweep deletes it within a second after: in the round in which a
row is as old as `PresenceTtl` the sweep may delete it before the refresh, which only
updates. `lapsed` has the copies for which that may have happened.

`Terminals` and `TerminalPipe` share no variable: the first has the rows and sessions
of a workspace, the second one browser's connection to one of them, which only ever
reads the row to explain its end. `TerminalAttach` is the other end of that connection.
In `Terminals` the create's transaction is two steps, name and insert: its lock keeps
only other creates out, and renames and the delete of a project come in between. Names
are counted per project; a user may give any name, one of the form "Terminal N" too.

`ResourceGuard`: sizes and settings are fields of `world`, chosen at the start and
never changed, so that one run holds several settings. CPU time is counted in units;
averages are compared without dividing. A sample has the marker the listing gave, which
may be none or that of an earlier boot; the number of the true boot (`boot`) is history,
read by properties only.

`PasswordRelay`: each post is a process that hits its address's counter, then its
account's, is answered by Dex, and gives back what it must. A statement's clock was
read up to `Lag` before the statement ran.

Ghost and history variables carry the past for properties only, and are marked so
where they are declared.

Each module also holds faulty variants of some definitions (`ReleaseSlotDips`,
`SinceMs`, `SpawnsAlways`, ...). They are no part of any specification; they document
which mistake each property catches, and `PROJECT.json` pairs each property with one.

## Runs

Each module has a type invariant, `TypeOK` or, for instance, `SwapTypeOK`. The inductive
invariants of the proofs contain those of all modules but `CallPool`, `TerminalPipe` and
`ResourceGuard`; there it documents the state and can be added to a configuration. The
runs check what could really go wrong:

| Run | Instance | Shows |
|---|---|---|
| `controller_slots` | 4 workspaces, 2 slots | `SlotsAccountedFor`, `QueuedCallRuns`, and that the code implements `CallPool` |
| `lifecycle` | 1 workspace, 2 requests, 1 fault, all operations, 849k states | `OneCallAtATime`, `PickedStayFree`, `RowAgreesWithInstance`, `AgentHoldsRowToken`, `WishToRunSurvives` |
| `converges` | 1 workspace, 1 request, 1 exit, abandoned call or outside change, any controller failures, 48k states | `Converges` |
| `single_flight` | 3 callers that come and go for ever | `OneRun`, `AbortedWhenAbandoned`, `EveryCallerReturns` |
| `shutdown_timers` | 1 socket, 2 steps of people or worker exits up to the fifth instant, 8.1M states | a connected or held workspace is not stopped (`SteadySocketHoldsUp`, `SeenHoldHoldsUp`, `HeldNotIdleStopped`); a hold's end and an activity give the whole time back (`GraceRestartsAtHoldEnd`, `IdleStopNotRightAfterActivity`) |
| `home_swap` | 2 operations, 3 faults, 4 kinds of trouble, 243k states | `ReplacedIsSwapped`, `WholeHomeUntouched`, `RetriesFinishTheSwap`, `OperationEnds` |
| `backup_channel` | a copy, an import, a delete on the host, a delete in the VM; 2 faults, 235k states | `InterruptedIsLost`, `OnceOnly`, `CopyHeld`, `RequestsEnd` |
| `terminals` | 1 to 3 terminals, cap 2, a project or none, 2.1M states | `NamesDiffer`, `CapHolds`, `StopEndsTerminals` |
| `terminal_pipe` | 3 frames, queue of 1 | `ToldBeforeClose`, `RevokedCloses`, `GivesBack` |
| `terminal_attach` | a student's and a helper's socket, 1 or 2 slots, 172k states | `ClosedHoldsNothing`, `InputInOrder`, `ExitIsTold` |
| `resource_guard` | 4 settings, 3 to 5 intervals, 4.7M states | `HeldExactly`, `NeverHides`, `ThrottleIsFresh`, `FlagOfThisRun` |
| `password_relay` | 3 posts, limits of 1, two windows, 1 lost statement, 1 restart, 507k states | `GuessesWithinLimit`, `CountsExactly` |

## Bounds

* `lifecycle`, `converges`: `MaxEnv` counts requests by people, `MaxFaults` counts
  exits, given-up calls and outside changes. Failures the controller reports are not
  counted and may happen at every call; presence may drop and activity may come at any
  time. Two requests are what it takes for one to overtake another; one fault is enough
  to leave every intermediate state behind, and the sweep and controller then run on
  without limit. One retry (`MaxStartRetries = 1`) distinguishes first try, last retry
  and given up. That workspaces do not disturb one another through the slots and the
  sweep's picked set is what the theorems say for any number of them.
* `controller_slots`: with four workspaces and two slots, calls queue behind a queue.
* `single_flight`: three callers are needed for one to abort a run, one to be parked
  and one to arrive in between.
* `shutdown_timers`: a TTL and a write interval of 1, a grace, idle time, cap, hold
  and warning of 2 or none: long enough that each ends while another runs, within six
  instants. The theorems have no bound.
* `home_swap`: a second operation finds what the first one left; three faults cut both
  off or one twice; three seconds are needed for a kept home of the same second as the
  request, and for one of before.
* `backup_channel`: a lost answer after a crash is the longest way to lose a request.
  The worlds pair a copy with a delete that keeps the loop busy for a round, a copy with
  a loop that skips two, which is as long as its row lives, and host jobs that may follow
  one another in one run.
* `terminals`: three creates at once against a cap of two, with a user who gives the name
  "Terminal 1"; two creates with a custom name over a stop and a second start, or with
  calls that fail; two with a worker or instance that goes away and calls that time out;
  an instance that goes away and a worker that dies while it records that; two terminals
  inside and outside the folder of a project that is deleted, and one with every failure.
* `terminal_attach`: with one slot the second socket is refused or waits for nothing,
  with two they compete for the window.
* `resource_guard`: `Holding` for throttles over two restarts, of which only the counter
  tells; `Averaging` for a reboot and a missed tick with a real share, `Flagging` for the
  memory window with a crash, both with a marker that may be new or the old one; `Dying`
  for a crash in the middle of clearing a throttle, with listings without a marker.
* `password_relay`: limits of 1 make every second post one too many; the third one
  comes when the first is given back.

`CHECK_DEADLOCK FALSE` is given where a bounded behaviour ends (clocks, posts,
terminals and sockets that are used up); elsewhere deadlock is checked.

## Fairness

The sweep is a timer loop that goes on whatever a sweep does (`startSweepLoop`); every
controller call has a budget, so it ends; slots are first in, first out (checked of
`ControllerSlots` as `QueuedCallRuns`); `list()` succeeds again and again; waits pass; a
create is repeated only as often as there are delays; the recovery loop tries every
project in the end. Nothing is assumed of students, administrators, or of calls
succeeding. In `SingleFlight` work settles (each Incus request has a limit) and the
event loop runs what is queued; callers are not fair. In `HomeSwap` the sweep visits,
requests are answered or cut off, the host ends its import; failures are bounded by
`MaxFaults`. In `BackupChannel` both timers fire, a job ends, and a stopped worker is
started again by systemd. In `TerminalPipe` and `TerminalAttach` promises settle (a
question to tmux is answered or fails within 5 s), a client whose session is gone exits,
timers fire, and `ws` closes a closing socket within 30 s; a check of the sign-in is
made again and again and does not fail for ever (strong fairness of `endCheck`).

## Divergences

Places where the code does not keep what a document, a comment or a neighbouring
property says. Each has a configuration that TLC refutes; they are kept beside the
runs, which state what does hold. TLC stops at the first property it refutes: where a
configuration lists several, leave out the others to see the trace of one.

* `LifecycleDivergences.cfg` (`MCWorkspaceLifecycle`, ArchivedNeverStarted),
  src/apps/worker/src/lifecycle.ts:342: moveToStarting compares only the state, so an
  archive committed after startStopped's select (src/apps/worker/src/reconcile.ts:276)
  does not stop the start; docs/SPEC.md:2875-2876 says "an archived workspace is never
  started until it is unarchived". The next sweep stops it again.
* `ArchiveStops.cfg` (`MCWorkspaceLifecycle`, ArchiveStops),
  src/apps/api/src/routes/workspaces.ts:302: setDesired checks archived_at at line 293
  and writes desired_state in a later statement without it, so a Start that races an
  archive leaves an archived row with desired_state running. If the row is in error with
  its instance up (a failed start whose forced stop failed), no step stops it: drift
  stops an errored instance only when desired_state is stopped. docs/SPEC.md:2875 says
  "Archiving a workspace stops it and keeps its data".
* `LifecycleDivergences.cfg` (`MCWorkspaceLifecycle`, FailedStopNotRetried),
  src/apps/worker/src/lifecycle.ts:674: A maintenance operation is run on an errored
  workspace too; when it fails it overwrites STOP_FAILED with its own code, and
  resolveDrift (src/apps/worker/src/reconcile-drift.ts:152) then stops the instance
  though nobody asked. docs/SPEC.md:592 says "the worker does not try again on its own;
  the student's next Stop clears the code and the worker tries once more".
* `LifecycleDivergences.cfg` (`MCWorkspaceLifecycle`, OperationIsCleared),
  src/apps/worker/src/lifecycle.ts:652: Both outcomes of runOperation are a
  compare-and-set from the state read when it began; a re-provision in between
  (src/apps/api/src/routes/admin-workspaces.ts:584) moves the row to provisioning, the
  update finds nothing, and the operation stays pending and runs again after the create.
  The comment at src/apps/worker/src/lifecycle.ts:612-614 says "Run one maintenance
  operation on a stopped or errored workspace, clear it, and audit the result" and "A
  failure clears it too".
* `LifecycleDivergences.cfg` (`MCWorkspaceLifecycle`, ConnectWins) and
  `ReconnectDivergences.cfg` (`MCShutdownTimers`, NoConnectionIsStopped),
  src/apps/worker/src/reconcile.ts:389: The grace stop is one UPDATE with a subquery that
  counts connections. Under READ COMMITTED the subquery sees the statement's snapshot;
  when a connect's insert and update commit after it and before the UPDATE reaches the
  row, PostgreSQL tests the row again with the old count of 0. So the workspace is stopped
  with a connection there and `desired_state` running is overwritten with stopped: the
  browser must ask for a start itself. The comment at
  src/apps/worker/src/reconcile.ts:377-378 says "Setting desired_state here is safe because
  the same statement asserts there are no connections; a connect that lands later wins on
  its own."
* `RejectedAtOnce.cfg` (`MCSingleFlight`, RejectedAtOnce),
  src/apps/workspace-controller/src/server.ts:180: A caller that finds an aborted run
  waits on its `settled` promise with no listener on its own signal, so it is refused
  only after that run has wound down. The comment at
  src/apps/workspace-controller/src/server.ts:169-170 says "A caller whose signal aborts
  is rejected at once."
* `HeldNotGraceStopped.cfg` (`MCShutdownTimers`, HeldNotGraceStopped),
  src/apps/worker/src/reconcile.ts:387: The grace stop tests the deadline that
  trackDisconnections computed earlier in the sweep and not keep_running_until, and
  setting a hold (src/apps/api/src/routes/workspaces.ts:211) leaves the deadline, so a
  hold set in between does not keep that sweep from stopping the workspace.
  docs/SPEC.md:6521-6522 says "a held workspace is not stopped by grace or idle stop
  before the hold ends".
* `WarnedOnlyWhenIdle.cfg` (`MCShutdownTimers`, WarnedOnlyWhenIdle),
  src/apps/worker/src/reconcile.ts:431: The warn statement tests the joined copy `ws`,
  which READ COMMITTED does not read again when `w` was changed meanwhile, so a warning
  may be written over activity just recorded. docs/SPEC.md:566 says a workspace "whose
  `last_activity_at` plus the idle time has passed gets `idle_stop_at` set five minutes
  ahead".
* `ReconnectDivergences.cfg` (`MCShutdownTimers`, ReconnectCancels),
  src/apps/worker/src/reconcile.ts:201: Only a sweep that finds a connection clears
  disconnected_at and the deadline; openPresence does not, so a browser that comes back
  and leaves between two sweeps (one second apart, or longer while the worker restarts)
  leaves the old deadline. docs/SPEC.md:546 says "if any authorized browser reconnects
  before expiry, cancel shutdown".
* `BeatingSocketHoldsUp.cfg` (`MCShutdownTimers`, BeatingSocketHoldsUp),
  src/apps/api/src/workspaces/presence.ts:57: touchPresence updates a row that the sweep
  may have expired and never inserts it again, so a socket that was silent for longer
  than PRESENCE_TTL_SECONDS (a sleeping laptop) and beats again is not counted as long
  as it stays open, and the grace period stops the workspace under it. The comment at
  src/apps/api/src/workspaces/presence.ts:52 says "Keep a presence row fresh while its
  socket stays open."
* `HomeSwapDivergences.cfg` (`MCHomeSwap`, StartsWithHome),
  src/apps/worker/src/reconcile.ts:486: When the swap fails for good after the detach,
  finish leaves state error and desired_state as it was; retryErrored (and a student's
  Start) then starts the instance, and startInstance never looks at the home device, so
  the student gets a workspace without the home.
  docs/adr/0040-restore-one-workspace-and-replace-home.md:57 says "A swap that fails
  part-way leaves the workspace in error with a message for the student", and
  docs/SPEC.md:271 that "Normal workspace stop/start must preserve all three", the home
  among them.
* `HomeSwapDivergences.cfg` (`MCHomeSwap`, UnchangedIsUntouched),
  src/apps/worker/src/backups.ts:701: A second replace of a half-swapped workspace
  renames no home, so there is no kept home since its request; if its last answer is
  lost, the retry gets NOT_FOUND, keptSince finds nothing and the owner is told "Your
  files are unchanged" (src/apps/worker/src/backups.ts:551) although the home was just
  put on. The comment at src/apps/worker/src/backups.ts:702 says "The controller refuses
  before it touches anything when the import is missing".
* `BackupChannelDivergences.cfg` (`MCBackupChannel`, CopyAlwaysHeld),
  src/apps/worker/src/backups.ts:486: The loop refreshes a copy's presence row once a
  round, every 30 s and its work, and the row lives 60 s. One round too long, a delete of
  up to 15 minutes or a restart of the worker lets the row expire
  (src/apps/worker/src/reconcile.ts:170), and refreshRestorePresence only updates rows
  that are there: the copy goes on and nothing holds its workspace up.
  docs/adr/0040-restore-one-workspace-and-replace-home.md:33 says "`pull` holds a presence
  row for the workspace, and the worker's backup loop keeps that row fresh".
* `TerminalsDivergences.cfg` (`MCTerminals`, NamesNeverShared),
  src/apps/api/src/routes/terminals.ts:400: A name given at create or rename is not
  compared with the others, and a project that is deleted between the choice of a name
  and another create moves its terminals to those without a project, so two open
  terminals of one project, or of none, may have one name. The comment at
  src/apps/api/src/routes/terminals.ts:386 says "parallel creates never share a name".
* `TerminalsDivergences.cfg` (`MCTerminals`, NoOrphanSession),
  src/apps/api/src/routes/terminals.ts:534: A close that reaches the agent before the
  session exists gets TERMINAL_NOT_FOUND and deletes the row next; when the create saves
  the row in between it answers 201 and never ends the session, so tmux keeps a session
  no row names until the workspace stops. The comment at
  src/apps/api/src/routes/terminals.ts:455 says "the tmux session must not outlive its
  row".
* `TerminalsDivergences.cfg` (`MCTerminals`, StoppedHasNoOpen),
  src/apps/api/src/routes/terminals.ts:402: The create reads state running, the sweep
  sets stopping and ends the open rows, and the create's insert, which checks no state,
  comes after; the agent is still up, so the terminal is made, and the end of the stop
  (lifecycle.ts) does not end terminals again. The row stays open through the stop and
  the next start. So do all open rows when the worker dies after `observeStopped` or
  `resolveStopping` set the row to stopped and before endOpenTerminals
  (src/apps/worker/src/reconcile-drift.ts:118): no later sweep ends terminals of a
  stopped workspace. docs/SPEC.md:1207 says "The control plane marks a terminal ended when
  its workspace begins stopping", and src/apps/worker/src/lifecycle.ts:92 "Mark every
  still-open terminal of a workspace as ended. Called from every path that takes a
  workspace out of running".
* `StaleHolder.cfg` (`MCTerminalAttach`, HolderIsLatest),
  src/apps/workspace-agent/src/terminals.ts:520: claimers is set when the promise of
  claimWindowSize settles, after tmux has acted: when another attachment types, resizes
  or claims in between, the older claim overwrites it. The holder remembered then is not
  the client tmux sizes the window by, and its resend of the same size is dropped at
  line 511, so turning to that browser does not give it the window. docs/SPEC.md:1166
  says "typing in a terminal makes that browser's size win at once", and
  src/apps/workspace-agent/src/terminals.ts:145 "Per terminal, the attachment whose size
  the window last took".
* `ResourceGuardDivergences.cfg` (`MCResourceGuard`, StopLifts),
  src/apps/worker/src/lifecycle.ts:562: The row is set to stopped in one statement and
  the throttle is cleared in later ones. A worker that dies in between leaves the
  throttle on the stopped row, and no later pass clears it: the next start begins at
  full speed and the first tick slows it again, until the next stop. docs/SPEC.md:2815
  says "When the worker records a stop by any path it clears `cpu_throttle`, deletes the
  workspace's samples taken at or before the throttle, so the next run starts a fresh
  window".
* `ResourceGuardDivergences.cfg` (`MCResourceGuard`, AlwaysFresh),
  src/apps/worker/src/lifecycle.ts:127: clearGuardAtStop clears `cpu_throttle` in one
  statement and deletes the samples up to the throttle in the next. A worker that dies
  in between leaves the samples, and no later step knows that a throttle ended there,
  so the first throttle of the next run may count use from before the one that ended.
  docs/SPEC.md:2815, quoted above, says it deletes them "so the next run starts a fresh
  window". `ThrottleIsFresh` excepts this case.
* `ResourceGuardDivergences.cfg` (`MCResourceGuard`, RebootNeverHides),
  src/packages/contracts/src/guard.ts:153: A restart is seen by a new boot marker or by a
  counter that dropped. The marker is the init's PID, which a listing may lack and a
  restarted init can reuse; if the new boot has by then used as much as the old one had,
  the counter did not drop either, and what the old boot used after the last sample is
  hidden along with what the counter began with. The comment on judgeCpu in
  src/apps/worker/src/guard.ts says "a reboot from inside the workspace must not hide what
  ran before it".
* `ResourceGuardDivergences.cfg` (`MCResourceGuard`, OnlySinceTheRestart),
  src/packages/contracts/src/guard.ts:153: After such a restart judgeMemory counts samples
  of the earlier run toward half a window, and may set the flag on them. The comment on it
  in src/apps/worker/src/guard.ts says "only samples since the latest restart count, and at
  least half a window of them is needed".
* `RightOnesDoNotLock.cfg` (`MCPasswordRelay`, RightOnesDoNotLock),
  src/apps/api/src/stored-counter.ts:107: A refused post is counted and gets no receipt,
  so it is never given back; right posts that arrive together over the limit leave their
  refusals in the count, and later right ones are refused until the window ends. The
  comment at src/apps/api/src/signin-throttle.ts:100-101 says "Give back a post that was
  not a wrong password, so a shared address or an account is not locked out by right
  ones."

One more has no configuration of its own, because the run's property names the condition
under which it holds: an abandoned rename that takes effect late, or a kept home deleted
meanwhile, breaks `ReplacedIsSwapped` (`may \subseteq {"fail"}`).

Two listed hazards have no property that covers them: that a start may join the old
process's start (src/apps/workspace-controller/src/server.ts:178) and that a busy client
puts a retry off (src/apps/worker/src/reconcile.ts:495). Their notes say why.

## Proofs

Every safety property that a run checks, invariant or action property, is also a
theorem. All theorems hold for every value of the constants (sets of workspaces,
callers, sockets or requests, caps, retry bounds, lengths of time, numbers of requests
and faults) under the named assumptions of the modules: finite sets, a positive cap,
natural numbers, kinds of requests that are apart (`KindsAssumption`), a workspace that
starts at least once and a hold period of at least one interval (`WorldsAssumption`; the
database demands the latter, src/packages/db/src/migrations/0028_throttle_hold.ts:11),
a clock that lags by less than a window (`RelayAssumption`).

A module of proofs that extends two components proves about each by itself: they share
neither state nor constants. In `HomeSwap`, `TerminalPipe` and `ResourceGuard` the names
of the specification carry a prefix (`SwapSpec`, `PipeSpec`, `GuardSpec`) so that they
can stand beside another.

In each proof there is one lemma per action, and under it one step per conjunct that
the action can disturb.

`Worker_proofs`, of `ControllerSlots`. `SlotInvariants`: `TypeOK`, `SlotsAccountedFor`,
`OneCallEach` and `NoIdleSlot`. The count equals the cardinality of the calls that hold
a slot or were handed one; the induction needs that queue, woken, calling and stops are
disjoint parts of `inFlight`, or a second submission of one id could count twice.
`SlotsImplementCallPool`: every step is a step of `CallPool` or a stutter, with a woken
call mapped to a running one, since it owns its slot from the moment it was handed over.

`Worker_proofs`, of `ResourceGuard`, for every setting, in three layers:

* `GuardInv`, for `HeldExactly`: the times that the row keeps are throttles, and every
  throttle of the hold period is among them (`RecentIsEnough`), so counting the row's is
  counting all.
* `SampleInv`, for `ThrottleIsFresh` and `FlagOfThisRun`: samples are in order, and so
  are the ends of throttles; what is sampled next comes after both (`InOrder`,
  `EndsPast`). A stop is cleared before the next start (`ClearOfStop`), and a row that a
  tick read without a throttle gets none before that tick decides (`ReadUnthrottled`).
  So no sample that a throttle counts is from before the last end (`SamplesFresh`,
  `AnchorFresh`), and an undisturbed tick judges the run it saw, if each restart among
  the samples shows (`JudgesThisRun`).
* `UsedInv`, for `NeverHides`: neighbouring samples account for what was used in between
  (`PairsCount`), and so will the reading under way and the next one (`ReadingCounts`,
  `NewestCounts`): within a boot the counter tells all; over one reboot that the marker or
  the counter shows at most an interval of the old boot is not seen, and for that the
  guard counts a whole limit (`UseIsBounded`). What a reboot hides that does not show is
  excepted by `Followed`. `UsedSince` is a sum defined by a recursive function. That the
  function exists and that a sum of such pairs is at least the difference of its ends
  are proved by taking the least place where they would fail (`LeastOf`), which needs
  only that the naturals are well founded.

Theorems: `ThrottleHeldExactly`, `ThrottlesStartFresh`, `FlagsAreOfTheRun`,
`NothingIsHidden`.

`WorkspaceLifecycle_proofs`. The inductive invariant is

    IInv == TypeOK /\ OneCallAtATime /\ PickedStayFree /\ RetriesLeft

None of the four is inductive by itself. That `track` never throws rests on
`PickedStayFree`: what the sweep selected as free is still free when it acts. That is
kept because the sweep alone begins calls. The proof names this: a step is `Passive`
if it keeps the types, begins no call, lets `start_retries` only stay or fall to zero,
and leaves the sweep's locals alone; every step of a call, of the controller, of the
API and every outside change is passive (`CallsPassive`, `ControllerPassive`,
`ApiPassive`), passive steps keep `IInv` (`PassiveStep`), and only the sweep's own
steps and the restart are left (`SelectSteps`, `BeginSteps`, `ActSteps`, `DriftSteps`,
`RestartStep`). The second half of `PickedStayFree`, that every call that was in flight
when `list()` was asked is held out, is what makes the rows picked for drift free.
`TypeOK` includes `start_retries <= MaxStartRetries`; since the select tests the bound
and a later statement adds one, `RetriesLeft` is needed in between. Theorems:
`TypeCorrect`, `NeverTwoCalls`, `SweepActsOnFreeRows`.

A second invariant, `AInv`, on top of the first, relates rows to instances. For a
workspace whose calls were not given up and which nobody else touched (`disturbed`), and
as to a stopped row and the token one whose create adopted no running instance
(`adopted`): the row is in the state its call needs (`CallFits`);
the controller works on it for nobody but the call that waits (`OwnWork`), since only a
given-up call leaves work behind; an answer not yet written tells the truth
(`AnswerTells`); a start under way carries the row's token (`TokenOfStart`); and what
`list()` said of a row that drift may still act on is what the instance is
(`ListIsFresh`). The last rests on `PickedStayFree`: a call that was in flight when the
list was asked for is held out, and none begins on what is picked. Theorems:
`RowsTellTheTruth`, `AgentHoldsTheirTokens`. For the wish, `Unborn` says that a workspace
without a row has no request, no tab and no wish, so that no statement's guard finds
one; then `WishesSurvive` compares, action by action, what the statement writes to
`desired_state` with what was there (`Leaves`, `OwnStop`); the grace stop is told by the
rows it picked when it counted.

`ShutdownTimers_proofs`. The inductive invariant has, besides `TypeOK`:

* `SweepTime`: the sweep's time is not ahead of the clock nor further behind than
  `MaxSweep`. That a sweep ends in bounded time is what the model assumes (`Tick` waits
  for it); the theorems give the bound in their statements.
* `FreshRows`: the presence row of a socket that was never silent for longer than the
  TTL carries its last sign of life; so `expireConnections` leaves it, and
  what the grace stop finds due has no such socket, but for those opened since its count
  (`CountedAll`), and `SteadySocketHoldsUp` follows.
* `CountsFromHold`, `DeadlineOfDisconnected`: a disconnection counts from the end of the
  last hold, less one sweep, and a running workspace with a deadline is disconnected.
* `DeadlineRespectsHolds`: the deadline about to be written, and the one the stop will
  test, count from the end of the last hold and are none while a hold is on that the
  sweep could read. `GraceRestartsAtHoldEnd` and `SeenHoldHoldsUp` follow.
* `HeldWarningAhead`: once `withdrawWarning` has run, a warning on a held workspace was
  written by this sweep and lies ahead. `HeldNotIdleStopped` follows.
* `WarningIsNewer`: a warning lies the warning time after the last write of activity,
  less a sweep, since a write clears it; activity that was not written followed a write
  within the write interval. `IdleStopNotRightAfterActivity` follows.

Theorems: `TimersTyped`, `SteadySockets`, `SeenHold`, `GraceAfterHold`, `HeldNotIdle`,
`IdleStopComesLate`.

`Controller_proofs`, of `SingleFlight`. `Counted`: `Flight.waiters` is the cardinality
of the callers that wait on the run. It stays so because a caller that goes on from
`settled` is counted once: it stands in one queue, at one place, and waits on no run
meanwhile (`Places`), and it is parked on the current run only. An abort comes when the
count reaches zero, which is when nobody waits. Theorems: `RunsNeverOverlap`,
`AbortedExactlyWhenAbandoned`.

`Controller_proofs`, of `HomeSwap`. The swap runs under `singleFlight`, so no second run
is on beside it. While nothing but failures happens besides interruptions: a home is
left alone until the import is done, and from then on the disk is in one of two states,
not yet swapped or swapped, whatever was cut off (`HomeIsSafe`); what the open run has
read still holds at every one of its requests (`RunSees`); and the answers that `finish`
trusts, a kept home or NOT_FOUND, are given only of a finished swap (`AnswerIsTrue`).
Theorems: `ReplacedMeansSwapped`, `UnchangedMeansUntouched`.

`BackupChannel_proofs`. A request is interrupted only by a pull, and at a pull the host
has neither a request nor a result (`HostShape`); what it works on is claimed
(`WorkClaimed`), so it is begun once, out of pending (`StartedOnce`), and finished once,
out of claimed (`ToldOnce`). The presence row of a copy that did not lapse is at most as
old as the rounds the VM loop has missed, and one more while the loop is down or about to
refresh it (`RowFresh`), which is less than `PresenceTtl`, the age at which the sweep may
delete it. Theorems: `InterruptedWasLost`, `BegunAndToldOnce`,
`CopyKeepsItsRow`.

`Terminals_proofs`, of `Terminals`. `CapHolds` is kept by the insert alone, which counts
under the lock (`LockOK`). For `NamesDiffer` a free number must exist at all: of the
numbers up to n + 1 one is not the name of any of the project's n open rows (the
pigeonhole principle, `SomeNumberFree`), and `chooseTerminalName` finds the lowest
(`NameIsFree`). Between its choice and its insert only renames and deletes come, and what
the server saw had its row (`SeenWasThere`), so no later create counts as seen.
`StopEndsTerminals` needs that what is open while the stop's call runs was missed by the
stop (`MissedByTheStop`), and that the call begins after the others were ended
(`StopCallAfterEnding`). Theorems: `TerminalsTyped`, `CapNeverPassed`,
`ChosenNamesDiffer`, `StopEnds`.

`Terminals_proofs`, of `TerminalPipe`. `PipeInv` says that once the last word has come a
browser that is still open was told or its explanation is being looked up, and that the
agent's close waits for that. Theorem: `LastWordIsTold`.

`TerminalAttach_proofs`. `ClosedHoldsNothing` needs that a socket which `attach` has not
taken up is open and has neither slot nor client (`NewSocketsOpen`). For `InputInOrder`,
what is held was typed after all that is written, and both before what is typed next
(`HeldFollowsWritten`), whichever of timer and first output ends the hold and whatever a
full queue dropped. Theorems: `AttachTyped`, `ClosedLeavesNothing`, `InputKeepsOrder`.

`PasswordRelay_proofs` (`PasswordRelay`). A post whose receipt is out (not given back)
is what the limit must bound, so `IInv` says of each counter: its window has its length;
a receipt that is out belongs to the window the row is in or to one that has ended; no
window has more receipts out than the limit; the row's window has no more out than the
row has counted. `Counted` makes the next hit's check sound, and `Placed` keeps a window
that was pruned from coming back with a fresh count: a new window begins at a
statement's clock, which is less than `Window` old (`Lag < Window`), and an ended window
began at least `Window` ago. Four lemmas say what a step may do to one counter (keep it,
hit it, give back a receipt, prune it), one lemma per action applies them to every
counter, and a post at Dex or wrong has given nothing back (`Kept`), so
`GuessesWithinLimit` follows. Theorem: `WithinLimit`, from `RelayAssumption`.

`CountsExactly` has an invariant of its own above that one, `XInv`: until a statement is
lost or the API restarts, each counter holds the posts that were hit in its window
and have not given back, and a window that has ended stays so (`AllExact`); each post's
receipts fit the step it is at (`Fits`). At rest those posts are the wrong and the
refused. Theorem: `CountsAreExact`.

Only model-checked: liveness (`QueuedCallRuns`, `Converges`, `EveryCallerReturns`,
`RetriesFinishTheSwap`, `OperationEnds`, `RequestsEnd`, `RevokedCloses`, `GivesBack`,
`ExitIsTold`), which the prover cannot treat: fairness needs ENABLED.

## Abstractions and what is not modelled

* In `WorkspaceLifecycle` timestamps are Booleans, "set or not"; whether one is due is
  decided when it is read. Every schedule of the real clock is covered, and some it
  could not produce; `ShutdownTimers` has the clock.
* Error codes other than `STOP_FAILED` and `POOL_FULL` decide nothing and are one value.
* `rebuild` stands for `rebuild` and `rebuild-reset-docker`. For `replace-home` only what
  a visit leaves of the row is modelled in the lifecycle; the swap is `HomeSwap`'s,
  where in turn stopping and starting are one step each.
* Moving a row to `starting` or `stopping` and recording its call are one step: an exit
  in between leaves the same state as an exit right after.
* A call that is sent while abandoned work of the same kind goes on waits for it, as
  `singleFlight` does with an aborted run. A request that joins the old run before the
  controller noticed the hang-up is a listed hazard that is not covered.
* Several tabs of one workspace are one presence row in the lifecycle and one each in
  `ShutdownTimers`. Disabling, linking and archiving write what they write to the row;
  users, sessions and links are not modelled.
* Callers without a signal are left out of `SingleFlight`: no route has one.
* What a backup, a copy or an import does to the host's disks is one step; so is what
  Incus does with one request.
* Bytes are left out: frames have a number or only a count, output and colours none.
  A terminal's name "Terminal N" is the number N, any other a model value.
* Output of a client that is being killed may pause it for a moment; the drain timer ends
  with the client (`ClosedHoldsNothing` says so).
* A CPU counter that a listing lacks reads as 0 in the code, as if the instance had
  restarted; that the listing lacks it is left out, that it lacks the marker is not.
* The guard's percentages are compared without rounding; site settings do not change in
  a behaviour.
* Of the throttles only the password posts are modelled; the second factor, reset and
  account-email counters use the same statements with one counter each. The limits in
  memory (`rate-limit.ts`) are not modelled.
* Audit rows, notifications, messages, addresses, labels are left out, except that a
  message is a state where a property is about it (`notice`, `told`).

Not modelled: the components `PROJECT.json` marks so, with the reason. Most of the
repository by length is the web application and the administration pages, which show
data and keep none that another component waits for.

## Plan

Done: `CallPool`, `ControllerSlots`, `WorkspaceRow`, `WorkspaceLifecycle`, `SingleFlight`,
`ShutdownTimers`, `HomeSwap`, `BackupChannel`, `Terminals`, `TerminalPipe`,
`TerminalAttach`, `ResourceGuard`, `StoredCounter`, `PasswordRelay`, and the proofs above.

Next, in this order:

1. An abstract specification of an atomic swap that `HomeSwap` refines, and of a
   request channel that `BackupChannel` refines, each with its step-by-step proof.
2. `SingleFlight` composed with the start's token, for the join of an old start.
3. The second factor's two counters; quota, limits and log-level sync; Docker seeds.
