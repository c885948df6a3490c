--------------------------- MODULE ShutdownTimers ---------------------------
(***************************************************************************)
(* The three clocks that decide whether a running workspace is stopped     *)
(* without anyone asking: the grace period after the last browser leaves,  *)
(* the idle stop with its "Still working?" warning, and the owner's hold   *)
(* ("keep running until"), which suspends both.  The clocks are columns of *)
(* the workspaces row and the presence rows; browsers move them through    *)
(* the API while the worker's sweep reads them, statement by statement     *)
(* (apps/worker/src/reconcile.ts, apps/api/src/workspaces/presence.ts,     *)
(* activity.ts, routes/workspaces.ts, routes/ws.ts).                       *)
(*                                                                         *)
(* One workspace.  Under READ COMMITTED a statement tests the row as it is *)
(* when it is written, but a joined copy of the row and the connections it *)
(* counts are those of the statement's start, whatever was committed since.*)
(* So three statements are a read step and a write step: the deadline and  *)
(* the warning, which are written from a joined copy, and the grace stop,  *)
(* which counts connections.  The two that mark a workspace disconnected   *)
(* or connected count them too, and are one step: a connection they missed *)
(* is one that came after them.  Every other statement tests the row's own *)
(* columns.  Every time a sweep writes or compares with is the time it     *)
(* began.  The calls that start and stop the instance, and every other way *)
(* a workspace stops, are in WorkspaceLifecycle; here a stop just ends,    *)
(* and a start is one step.                                                *)
(***************************************************************************)
EXTENDS Integers

CONSTANTS
    Sockets,        \* the owner's browser sockets
    Ttl,            \* PRESENCE_TTL_SECONDS
    Warning,        \* IDLE_WARNING_MS
    WriteInterval,  \* ACTIVITY_WRITE_INTERVAL_MS
    Graces,         \* values shutdown_grace_seconds may have; 0 is never
    Idles,          \* values idle_stop_minutes may have; 0 is never
    Caps,           \* values keep_running_max_hours may have; 0 is off
    Holds,          \* how far ahead a hold may be asked for
    MaxSweep,       \* bound: how long a sweep may take
    MaxTime,        \* bound: the last instant
    MaxEnv,         \* bound: what people do, up to EnvUntil
    EnvUntil

ASSUME TimesAssumption ==
    /\ Ttl \in Nat /\ WriteInterval \in Nat /\ Warning \in Nat \ {0}
    /\ Graces \subseteq Nat /\ Idles \subseteq Nat /\ Caps \subseteq Nat
    /\ Holds \subseteq Nat
ASSUME TimerBoundsAssumption ==
    {MaxSweep, MaxTime, MaxEnv, EnvUntil} \subseteq Nat

NoTime == -1   \* a null timestamp
Times == Nat \union {NoTime}

VARIABLES
    now,         \* the clock
    state,       \* workspaces.state: running, stopping or stopped
    desired,     \* workspaces.desired_state
    row,         \* the row's timestamps
    seenAt,      \* presence: last_seen_at of a socket's row, null without one
    socket,      \* whether the socket is open, as its browser sees it
    settings,    \* shutdown_grace_seconds, idle_stop_minutes, the hold cap
    lastWrite,   \* lastWrites: when the API last wrote activity
    pc,          \* the sweep's next statement
    sweepAt,     \* the time the sweep began
    copy,        \* what the statement under way read when it started
    env,         \* steps counted against MaxEnv
    beat,        \* ghost: when the socket last showed a sign of life
    steady,      \* ghost: it was never silent for longer than the TTL
    opened,      \* ghost: when a socket was last opened
    acted,       \* ghost: when the owner last did something on purpose
    heldTo,      \* ghost: when the last hold to end ended
    lateHold,    \* ghost: a hold was set since this sweep read the holds
    lateSockets  \* ghost: those opened since the grace stop counted

sweepVars == <<pc, sweepAt, copy>>
ghostVars == <<beat, steady, opened, acted, heldTo, lateHold, lateSockets>>
presenceVars == <<seenAt, socket, beat, steady, opened, lateSockets>>
vars == <<now, state, desired, row, seenAt, socket, settings, lastWrite,
          sweepVars, env, ghostVars>>

Row == [lastActivity : Times, idleStop : Times, until : Times,
        disconnected : Times, deadline : Times]

Statements == {"rest", "off", "cut", "expired", "stamp", "clear", "graceRead",
               "graceWrite", "graceCount", "grace", "withdraw", "warnRead",
               "warnWrite", "idle"}

(* No statement has read anything. *)
NoCopy == [due |-> FALSE, deadline |-> NoTime, grace |-> 0]

Init ==
    /\ now = 0
    /\ state = "running"
    /\ desired = "running"
    /\ row = [lastActivity |-> 0, idleStop |-> NoTime, until |-> NoTime,
              disconnected |-> NoTime, deadline |-> NoTime]
    /\ seenAt = [s \in Sockets |-> NoTime]
    /\ socket = [s \in Sockets |-> FALSE]
    /\ settings \in [grace : Graces, idle : Idles, cap : Caps]
    /\ lastWrite = NoTime
    /\ pc = "rest"
    /\ sweepAt = 0
    /\ copy = NoCopy
    /\ env = 0
    /\ beat = [s \in Sockets |-> NoTime]
    /\ steady = [s \in Sockets |-> FALSE]
    /\ opened = NoTime
    /\ acted = 0
    /\ heldTo = NoTime
    /\ lateHold = FALSE
    /\ lateSockets = {}

Present == \E s \in Sockets : seenAt[s] # NoTime

(* SQL's greatest and case over a nullable column. *)
Later(a, b) == IF a >= b THEN a ELSE b
MovedTo(column, t) == IF column = NoTime THEN NoTime ELSE t

-----------------------------------------------------------------------------
(* People *)

Act == env < MaxEnv /\ now <= EnvUntil /\ env' = env + 1

(* The clock: it waits for a sweep that has lasted MaxSweep, and beyond
   MaxTime it runs on to the times the sweep is waiting for. *)
Tick ==
    /\ \E t \in {MaxTime, row.idleStop, row.deadline,
                 row.lastActivity + settings.idle} : now < t
    /\ pc = "rest" \/ now < sweepAt + MaxSweep
    /\ now' = now + 1
    /\ steady' = [s \in Sockets |-> steady[s] /\ now + 1 <= beat[s] + Ttl]
    /\ UNCHANGED <<state, desired, row, seenAt, socket, settings, lastWrite,
                   sweepVars, env, beat, opened, acted, heldTo, lateHold,
                   lateSockets>>

(* The workspace socket is set up: openPresence inserts a row and asks for
   the workspace to run. *)
OpenSocket(s) ==
    /\ Act
    /\ ~socket[s] /\ seenAt[s] = NoTime
    /\ socket' = [socket EXCEPT ![s] = TRUE]
    /\ seenAt' = [seenAt EXCEPT ![s] = now]
    /\ desired' = "running"
    /\ beat' = [beat EXCEPT ![s] = now]
    /\ steady' = [steady EXCEPT ![s] = TRUE]
    /\ opened' = now
    /\ lateSockets' = IF pc = "grace" THEN lateSockets \union {s} ELSE {}
    /\ UNCHANGED <<now, state, row, settings, lastWrite, sweepVars, acted,
                   heldTo, lateHold>>

(* touchPresence, on a heartbeat or an activity message: it updates the row
   if there is one. *)
touchPresence(s) ==
    /\ seenAt' = [seenAt EXCEPT ![s] = MovedTo(@, now)]
    /\ beat' = [beat EXCEPT ![s] = now]

Heartbeat(s) ==
    /\ socket[s]
    /\ touchPresence(s)
    /\ UNCHANGED <<now, state, desired, row, socket, settings, lastWrite,
                   sweepVars, env, steady, opened, acted, heldTo, lateHold,
                   lateSockets>>

(* The socket's close reaches the API, which drops the row; or it does not
   (the API process died), and the row is left to expire. *)
CloseSocket(s) ==
    /\ Act
    /\ socket[s]
    /\ socket' = [socket EXCEPT ![s] = FALSE]
    /\ seenAt' \in {seenAt, [seenAt EXCEPT ![s] = NoTime]}
    /\ steady' = [steady EXCEPT ![s] = FALSE]
    /\ beat' = [beat EXCEPT ![s] = NoTime]
    /\ lateSockets' = lateSockets \ {s}
    /\ UNCHANGED <<now, state, desired, row, settings, lastWrite, sweepVars,
                   opened, acted, heldTo, lateHold>>

(* recordActivity: at most one write each WriteInterval. *)
Throttled == lastWrite # NoTime /\ now - lastWrite < WriteInterval

recordKeepsWarning ==   \* fault: the warning outlives the activity
    IF Throttled THEN UNCHANGED <<row, lastWrite>>
    ELSE /\ lastWrite' = now
         /\ row' = [row EXCEPT !.lastActivity = now]

recordActivity ==
    IF Throttled THEN UNCHANGED <<row, lastWrite>>
    ELSE /\ lastWrite' = now
         /\ row' = [row EXCEPT !.lastActivity = now, !.idleStop = NoTime]

(* A key press, a file write or a preview page of the owner's. *)
Activity ==
    /\ Act
    /\ recordActivity
    /\ acted' = now
    /\ UNCHANGED <<now, state, desired, settings, sweepVars, presenceVars,
                   heldTo, lateHold>>

(* keepRunningRefusal: off, past or too far; the skew it tolerates is cut
   off by the caller, so a hold is at most the cap ahead. *)
KeepRunningRefused(ahead) == settings.cap = 0 \/ ahead <= 0 \/ ahead > settings.cap

(* PUT /workspaces/:id/keep-running *)
HoldSet(r, ahead) ==
    [r EXCEPT !.until = now + ahead, !.lastActivity = now, !.idleStop = NoTime]

SetHold(ahead) ==
    /\ Act
    /\ ~KeepRunningRefused(ahead)
    /\ row' = HoldSet(row, ahead)
    /\ acted' = now
    /\ lateHold' = (pc # "rest")
    /\ UNCHANGED <<now, state, desired, settings, lastWrite, sweepVars,
                   presenceVars, heldTo>>

(* DELETE /workspaces/:id/keep-running: nothing without a hold ahead. *)
EndHold ==
    /\ Act
    /\ row.until > now
    /\ row' = [row EXCEPT !.until = NoTime, !.lastActivity = now,
                          !.idleStop = NoTime,
                          !.disconnected = MovedTo(@, now)]
    /\ acted' = now
    /\ heldTo' = now
    /\ UNCHANGED <<now, state, desired, settings, lastWrite, sweepVars,
                   presenceVars, lateHold>>

(* An administrator changes the platform's values or this workspace's. *)
ChangeSettings ==
    /\ Act
    /\ settings' \in [grace : Graces, idle : Idles, cap : Caps] \ {settings}
    /\ UNCHANGED <<now, state, desired, row, lastWrite, sweepVars,
                   presenceVars, acted, heldTo, lateHold>>

-----------------------------------------------------------------------------
(* The sweep *)

(* The sweep goes on; of the sockets opened during a statement only those of
   the grace stop matter. *)
Then(next) ==
    /\ pc' = next
    /\ lateSockets' = {}
    /\ UNCHANGED <<now, socket, settings, lastWrite, env, beat, steady, opened,
                   acted>>

(* What a sweep knows ends with it. *)
NoSweep ==
    /\ sweepAt' = 0
    /\ copy' = NoCopy
    /\ lateHold' = FALSE
    /\ lateSockets' = {}

OnlyRow == UNCHANGED <<state, desired, seenAt, sweepAt, copy>>

(* Step 1, expireConnections, at the start of a sweep. *)
Stale(s) == seenAt[s] # NoTime /\ seenAt[s] < now - Ttl

expireConnections ==
    /\ pc = "rest"
    /\ Then("off")
    /\ sweepAt' = now
    /\ seenAt' = [s \in Sockets |-> IF Stale(s) THEN NoTime ELSE seenAt[s]]
    /\ UNCHANGED <<state, desired, row, copy, heldTo, lateHold>>

(* settleKeepRunning: a hold is ended by a cap of zero, cut to the cap, or
   ended because its time has come. *)
HoldAhead(r) == r.until # NoTime /\ r.until > sweepAt

HoldOff(r) ==
    [r EXCEPT !.until = NoTime, !.lastActivity = sweepAt, !.idleStop = NoTime,
              !.disconnected = MovedTo(@, sweepAt)]

settleOff ==
    /\ pc = "off"
    /\ Then("cut")
    /\ LET ends == HoldAhead(row) /\ settings.cap = 0 IN
         /\ row' = IF ends THEN HoldOff(row) ELSE row
         /\ heldTo' = IF ends THEN sweepAt ELSE heldTo
    /\ OnlyRow /\ UNCHANGED lateHold

settleCut ==
    /\ pc = "cut"
    /\ Then("expired")
    /\ row' = IF row.until > sweepAt + settings.cap
              THEN [row EXCEPT !.until = sweepAt + settings.cap] ELSE row
    /\ OnlyRow /\ UNCHANGED <<heldTo, lateHold>>

HoldForgotten(r) ==   \* fault: the hold ends and moves no clock
    [r EXCEPT !.until = NoTime]

HoldExpired(r) ==
    [r EXCEPT !.until = NoTime, !.idleStop = NoTime,
              !.lastActivity = Later(@, r.until),
              !.disconnected = MovedTo(@, Later(@, r.until))]

settleExpired ==
    /\ pc = "expired"
    /\ Then("stamp")
    /\ LET ends == row.until # NoTime /\ row.until <= sweepAt IN
         /\ row' = IF ends THEN HoldExpired(row) ELSE row
         /\ heldTo' = IF ends THEN Later(heldTo, row.until) ELSE heldTo
    /\ OnlyRow /\ UNCHANGED lateHold

(* Step 2, trackDisconnections. *)
stampDisconnected ==
    /\ pc = "stamp"
    /\ Then("clear")
    /\ row' = IF state = "running" /\ row.disconnected = NoTime /\ ~Present
              THEN [row EXCEPT !.disconnected = sweepAt] ELSE row
    /\ OnlyRow /\ UNCHANGED <<heldTo, lateHold>>

clearConnected ==
    /\ pc = "clear"
    /\ Then("graceRead")
    /\ row' = IF state = "running" /\ Present
              THEN [row EXCEPT !.disconnected = NoTime, !.deadline = NoTime]
              ELSE row
    /\ OnlyRow /\ UNCHANGED <<heldTo, lateHold>>

NewDeadlineHeld(r) ==   \* fault: the deadline ignores the hold
    IF settings.grace = 0 THEN NoTime ELSE r.disconnected + settings.grace

(* The deadline recomputed from the joined copy, then written to the row. *)
NewDeadline(r) ==
    IF settings.grace = 0 \/ r.until # NoTime THEN NoTime
    ELSE r.disconnected + settings.grace

recomputeRead ==
    /\ pc = "graceRead"
    /\ Then("graceWrite")
    /\ copy' = [due |-> state = "running" /\ row.disconnected # NoTime,
                deadline |-> NewDeadline(row), grace |-> settings.grace]
    /\ lateHold' = FALSE
    /\ UNCHANGED <<state, desired, row, seenAt, sweepAt, heldTo>>

recomputeWrite ==
    /\ pc = "graceWrite"
    /\ Then("graceCount")
    /\ row' = IF copy.due THEN [row EXCEPT !.deadline = copy.deadline] ELSE row
    /\ OnlyRow /\ UNCHANGED <<heldTo, lateHold>>

(* Step 3c's last statement: the deadline has passed with no connection.  It
   counts the connections of its start, and tests the row again when it
   writes it.  A desired state of restarting, which it keeps running, is in
   WorkspaceLifecycle. *)
DeadlinePassed ==
    /\ state = "running"
    /\ row.deadline # NoTime /\ row.deadline <= sweepAt

GraceDueAlone == DeadlinePassed   \* fault: connections are not counted again
GraceDue == DeadlinePassed /\ ~Present

countConnections ==
    /\ pc = "graceCount"
    /\ Then("grace")
    /\ copy' = [copy EXCEPT !.due = GraceDue]
    /\ UNCHANGED <<state, desired, row, seenAt, sweepAt, heldTo, lateHold>>

stopAfterGrace ==
    /\ pc = "grace"
    /\ Then("withdraw")
    /\ IF copy.due /\ DeadlinePassed
       THEN state' = "stopping" /\ desired' = "stopped"
       ELSE UNCHANGED <<state, desired>>
    /\ UNCHANGED <<row, seenAt, sweepAt, copy, heldTo, lateHold>>

WithdrawnWhenOff(r) == settings.idle = 0   \* fault: a hold keeps the warning

(* stopIdle: withdraw a warning, warn, stop. *)
Withdrawn(r) == settings.idle = 0 \/ r.until # NoTime

withdrawWarning ==
    /\ pc = "withdraw"
    /\ Then("warnRead")
    /\ row' = IF Withdrawn(row) THEN [row EXCEPT !.idleStop = NoTime] ELSE row
    /\ OnlyRow /\ UNCHANGED <<heldTo, lateHold>>

IdleLongEnough(r) ==
    /\ state = "running"
    /\ r.idleStop = NoTime
    /\ r.until = NoTime
    /\ settings.idle > 0
    /\ r.lastActivity # NoTime /\ r.lastActivity + settings.idle <= sweepAt

warnRead ==
    /\ pc = "warnRead"
    /\ Then("warnWrite")
    /\ copy' = [copy EXCEPT !.due = IdleLongEnough(row)]
    /\ UNCHANGED <<state, desired, row, seenAt, sweepAt, heldTo, lateHold>>

warnWrite ==
    /\ pc = "warnWrite"
    /\ Then("idle")
    /\ row' = IF copy.due THEN [row EXCEPT !.idleStop = sweepAt + Warning] ELSE row
    /\ OnlyRow /\ UNCHANGED <<heldTo, lateHold>>

IdleDue == state = "running" /\ row.idleStop # NoTime /\ row.idleStop <= sweepAt

stopIdle ==
    /\ pc = "idle"
    /\ Then("rest")
    /\ IF IdleDue THEN state' = "stopping" /\ desired' = "stopped"
                  ELSE UNCHANGED <<state, desired>>
    /\ NoSweep
    /\ UNCHANGED <<row, seenAt, heldTo>>

(* The worker exits in the middle of a sweep; the next one starts over. *)
WorkerRestarts ==
    /\ Act
    /\ pc # "rest"
    /\ pc' = "rest"
    /\ NoSweep
    /\ UNCHANGED <<now, state, desired, row, settings, lastWrite, seenAt, socket,
                   beat, steady, opened, acted, heldTo>>

-----------------------------------------------------------------------------
(* The stop ends (clearGuardAtStop takes the warning away), and a workspace
   that should run is started and counts as active from then on. *)
StopEnds ==
    /\ state = "stopping"
    /\ state' = "stopped"
    /\ row' = [row EXCEPT !.disconnected = NoTime, !.deadline = NoTime,
                          !.idleStop = NoTime]
    /\ UNCHANGED <<now, desired, seenAt, socket, settings, lastWrite,
                   sweepVars, env, ghostVars>>

Starts ==
    /\ state = "stopped" /\ desired = "running"
    /\ state' = "running"
    /\ row' = [row EXCEPT !.disconnected = NoTime, !.deadline = NoTime,
                          !.lastActivity = now, !.idleStop = NoTime]
    /\ UNCHANGED <<now, desired, seenAt, socket, settings, lastWrite,
                   sweepVars, env, ghostVars>>

Sweep ==
    \/ expireConnections
    \/ settleOff \/ settleCut \/ settleExpired
    \/ stampDisconnected \/ clearConnected
    \/ recomputeRead \/ recomputeWrite \/ countConnections \/ stopAfterGrace
    \/ withdrawWarning \/ warnRead \/ warnWrite \/ stopIdle

People ==
    \/ \E s \in Sockets : OpenSocket(s) \/ CloseSocket(s)
    \/ Activity
    \/ \E ahead \in Holds : SetHold(ahead)
    \/ EndHold
    \/ ChangeSettings
    \/ WorkerRestarts

Next ==
    \/ Tick
    \/ People
    \/ \E s \in Sockets : Heartbeat(s)
    \/ Sweep
    \/ StopEnds
    \/ Starts

Spec == Init /\ [][Next]_vars

-----------------------------------------------------------------------------
(* Properties *)

(* The variables have their types. *)
TypeOK ==
    /\ now \in Nat
    /\ state \in {"running", "stopping", "stopped"}
    /\ desired \in {"running", "stopped"}
    /\ row \in Row
    /\ seenAt \in [Sockets -> Times]
    /\ socket \in [Sockets -> BOOLEAN]
    /\ settings \in [grace : Graces, idle : Idles, cap : Caps]
    /\ lastWrite \in Times
    /\ pc \in Statements
    /\ sweepAt \in Nat
    /\ copy \in [due : BOOLEAN, deadline : Times, grace : Graces \union {0}]
    /\ env \in Nat
    /\ beat \in [Sockets -> Times]
    /\ steady \in [Sockets -> BOOLEAN]
    /\ opened \in Times
    /\ acted \in Nat
    /\ heldTo \in Times
    /\ lateHold \in BOOLEAN
    /\ lateSockets \subseteq Sockets

Stops(by) == pc = by /\ state = "running" /\ state' = "stopping"

(* stopAfterGrace: a workspace is not stopped on grace while a browser that
   was never silent for longer than the presence TTL has its socket open,
   whatever other sockets, dead API processes and exits of the worker left
   behind, unless that socket was opened after the stop counted them. *)
SteadySocketHoldsUp ==
    [][Stops("grace")
          => \A s \in Sockets : socket[s] /\ steady[s] => s \in lateSockets]_vars

(* stopAfterGrace after settleKeepRunning: once a hold has ended, by time, by
   its owner or by a cap of zero, the whole grace period passes before the
   workspace is stopped on grace, unless the hold was set in the middle of
   the very sweep that stops it.  The length of a sweep is lost where the
   hold ended during the sweep that stamps the disconnection, since the stamp
   is the time the sweep began. *)
GraceRestartsAtHoldEnd ==
    [][Stops("grace") /\ heldTo # NoTime /\ ~lateHold
          => sweepAt + MaxSweep >= heldTo + copy.grace]_vars

(* stopAfterGrace: a hold that the sweep could read when it computed the
   deadline keeps the sweep from stopping the workspace on grace. *)
SeenHoldHoldsUp ==
    [][Stops("grace") /\ ~lateHold => row.until = NoTime]_vars

(* stopIdle: a held workspace is never stopped for being idle, even when the
   warning was written over the hold. *)
HeldNotIdleStopped ==
    [][Stops("idle") => row.until = NoTime]_vars

(* stopIdle: however stale the copy that the warning was based on, and though
   the API drops activity that follows a write too closely, the owner has the
   warning time, less the write interval and the length of a sweep, between
   acting and an idle stop. *)
IdleStopNotRightAfterActivity ==
    [][Stops("idle") => sweepAt + WriteInterval + MaxSweep >= acted + Warning]_vars

(* SPEC.md 6.4: "a held workspace is not stopped by grace or idle stop before
   the hold ends". *)
HeldNotGraceStopped ==
    [][Stops("grace") => ~(row.until > now)]_vars

(* SPEC.md 6.4: a workspace gets idle_stop_at when its last_activity_at plus
   the idle time has passed. *)
WarnedOnlyWhenIdle ==
    [][row.idleStop = NoTime /\ row'.idleStop # NoTime
          => row.lastActivity + settings.idle <= now]_vars

(* The comment on stopAfterGrace: setting desired_state "is safe because the
   same statement asserts there are no connections", so none that is there
   when it stops the workspace. *)
NoConnectionIsStopped ==
    [][Stops("grace") => \A s \in Sockets : ~(socket[s] /\ steady[s])]_vars

(* SPEC.md 6.4: "if any authorized browser reconnects before expiry, cancel
   shutdown". *)
ReconnectCancels ==
    [][Stops("grace") => ~(opened > row.disconnected)]_vars

(* presence.ts: touchPresence keeps "a presence row fresh while its socket
   stays open", so a socket whose heartbeats arrive holds the workspace up. *)
BeatingSocketHoldsUp ==
    [][Stops("grace") =>
         \A s \in Sockets : ~(socket[s] /\ beat[s] + Ttl >= now)]_vars
=============================================================================
