------------------------ MODULE ShutdownTimers_proofs ------------------------
(***************************************************************************)
(* What ShutdownTimers promises for every TTL, grace, idle time, hold and  *)
(* warning, however long people and sweeps go on.                          *)
(***************************************************************************)
EXTENDS ShutdownTimers, TLAPS

(* A browser that was never silent for long has a fresh presence row. *)
FreshRows ==
    \A s \in Sockets : socket[s] /\ steady[s] =>
        /\ beat[s] # NoTime
        /\ seenAt[s] = beat[s]
        /\ now <= beat[s] + Ttl

(* A sweep's time is not ahead of the clock, nor far behind it. *)
SweepTime ==
    /\ sweepAt <= now
    /\ pc # "rest" => now <= sweepAt + MaxSweep

(* Once stopIdle has withdrawn warnings, one on a held workspace is new. *)
HeldWarningAhead ==
    pc \in {"warnRead", "warnWrite", "idle"} /\ row.until # NoTime
        /\ row.idleStop # NoTime => row.idleStop > sweepAt

(* A disconnection counts from the end of the last hold, or from the start
   of the sweep in which it ended. *)
CountsFromHold ==
    /\ heldTo # NoTime => heldTo <= now
    /\ heldTo # NoTime /\ row.disconnected # NoTime
          => row.disconnected + MaxSweep >= heldTo

(* A running workspace with a deadline is disconnected. *)
DeadlineOfDisconnected ==
    row.deadline # NoTime /\ state = "running" => row.disconnected # NoTime

(* The deadline d respects the holds that the sweep has seen. *)
Respects(d) ==
    ~lateHold /\ d # NoTime =>
        /\ row.until = NoTime
        /\ heldTo # NoTime => d + MaxSweep >= heldTo + copy.grace

(* ... the one about to be written, and the one that the stop will test. *)
DeadlineRespectsHolds ==
    /\ pc = "graceWrite" =>
          IF copy.due
          THEN /\ Respects(copy.deadline)
               /\ state = "running" /\ row.disconnected # NoTime
          ELSE state = "running" => row.deadline = NoTime
    /\ pc \in {"graceCount", "grace"} /\ state = "running" => Respects(row.deadline)

(* A grace stop that counted no connection has counted every steady socket
   but those opened since. *)
CountedAll ==
    pc = "grace" /\ copy.due
        => \A s \in Sockets : socket[s] /\ steady[s] => s \in lateSockets

IInv ==
    /\ TypeOK
    /\ SweepTime
    /\ FreshRows
    /\ HeldWarningAhead
    /\ CountsFromHold
    /\ DeadlineOfDisconnected
    /\ DeadlineRespectsHolds
    /\ CountedAll
-----------------------------------------------------------------------------
LEMMA InitInv ==
    ASSUME Init
    PROVE  IInv
<1>1. settings \in [grace : Graces, idle : Idles, cap : Caps]
  BY DEF Init
<1>2. row \in Row
  BY DEF Init, Row, Times, NoTime
<1>3. TypeOK
  BY <1>1, <1>2 DEF Init, TypeOK, Times, NoTime, NoCopy, Statements
<1>4. FreshRows
  BY DEF Init, FreshRows
<1> QED
  BY <1>3, <1>4 DEF Init, IInv, NoTime, SweepTime, HeldWarningAhead,
     CountsFromHold, DeadlineOfDisconnected, DeadlineRespectsHolds, CountedAll

LEMMA TickKeeps ==
    ASSUME IInv, Tick
    PROVE  IInv'
<1>1. TypeOK'
  BY TimesAssumption, TimerBoundsAssumption DEF IInv, TypeOK, Row, Times, NoTime, Statements, Tick, sweepVars, ghostVars, presenceVars
<1>2. SweepTime'
  BY TimesAssumption, TimerBoundsAssumption DEF IInv, TypeOK, Row, Times, NoTime, Statements, Tick, sweepVars, ghostVars, presenceVars, SweepTime
<1>3. FreshRows'
  BY TimesAssumption, TimerBoundsAssumption DEF IInv, TypeOK, Row, Times, NoTime, Statements, Tick, sweepVars, ghostVars, presenceVars, FreshRows, SweepTime
<1>4. HeldWarningAhead'
  BY TimesAssumption, TimerBoundsAssumption DEF IInv, TypeOK, Row, Times, NoTime, Statements, Tick, sweepVars, ghostVars, presenceVars, HeldWarningAhead
<1>5. CountsFromHold'
  BY TimesAssumption, TimerBoundsAssumption DEF IInv, TypeOK, Row, Times, NoTime, Statements, Tick, sweepVars, ghostVars, presenceVars, CountsFromHold, SweepTime
<1>6. DeadlineOfDisconnected'
  BY TimesAssumption, TimerBoundsAssumption DEF IInv, TypeOK, Row, Times, NoTime, Statements, Tick, sweepVars, ghostVars, presenceVars, DeadlineOfDisconnected, DeadlineRespectsHolds
<1>7. DeadlineRespectsHolds'
  BY TimesAssumption, TimerBoundsAssumption DEF IInv, TypeOK, Row, Times, NoTime, Statements, Tick, sweepVars, ghostVars, presenceVars, DeadlineRespectsHolds, Respects, DeadlineOfDisconnected, CountsFromHold, SweepTime
<1>8. CountedAll'
  BY TimesAssumption, TimerBoundsAssumption DEF IInv, TypeOK, Row, Times, NoTime, Statements, Tick, sweepVars, ghostVars, presenceVars, CountedAll
<1> QED
  BY <1>1, <1>2, <1>3, <1>4, <1>5, <1>6, <1>7, <1>8 DEF IInv

LEMMA OpenSocketKeeps ==
    ASSUME IInv, NEW s \in Sockets, OpenSocket(s)
    PROVE  IInv'
<1>1. TypeOK'
  BY TimesAssumption, TimerBoundsAssumption DEF IInv, TypeOK, Row, Times, NoTime, Statements, OpenSocket, Act, sweepVars, ghostVars, presenceVars
<1>2. SweepTime'
  BY TimesAssumption, TimerBoundsAssumption DEF IInv, TypeOK, Row, Times, NoTime, Statements, OpenSocket, Act, sweepVars, ghostVars, presenceVars, SweepTime
<1>3. FreshRows'
  BY TimesAssumption, TimerBoundsAssumption DEF IInv, TypeOK, Row, Times, NoTime, Statements, OpenSocket, Act, sweepVars, ghostVars, presenceVars, FreshRows, SweepTime
<1>4. HeldWarningAhead'
  BY TimesAssumption, TimerBoundsAssumption DEF IInv, TypeOK, Row, Times, NoTime, Statements, OpenSocket, Act, sweepVars, ghostVars, presenceVars, HeldWarningAhead
<1>5. CountsFromHold'
  BY TimesAssumption, TimerBoundsAssumption DEF IInv, TypeOK, Row, Times, NoTime, Statements, OpenSocket, Act, sweepVars, ghostVars, presenceVars, CountsFromHold, SweepTime
<1>6. DeadlineOfDisconnected'
  BY TimesAssumption, TimerBoundsAssumption DEF IInv, TypeOK, Row, Times, NoTime, Statements, OpenSocket, Act, sweepVars, ghostVars, presenceVars, DeadlineOfDisconnected, DeadlineRespectsHolds
<1>7. DeadlineRespectsHolds'
  BY TimesAssumption, TimerBoundsAssumption DEF IInv, TypeOK, Row, Times, NoTime, Statements, OpenSocket, Act, sweepVars, ghostVars, presenceVars, DeadlineRespectsHolds, Respects, DeadlineOfDisconnected, CountsFromHold, SweepTime
<1>8. CountedAll'
  BY TimesAssumption, TimerBoundsAssumption DEF IInv, TypeOK, Row, Times, NoTime, Statements, OpenSocket, Act, sweepVars, ghostVars, presenceVars, CountedAll
<1> QED
  BY <1>1, <1>2, <1>3, <1>4, <1>5, <1>6, <1>7, <1>8 DEF IInv

LEMMA CloseSocketKeeps ==
    ASSUME IInv, NEW s \in Sockets, CloseSocket(s)
    PROVE  IInv'
<1>1. TypeOK'
  BY TimesAssumption, TimerBoundsAssumption DEF IInv, TypeOK, Row, Times, NoTime, Statements, CloseSocket, Act, sweepVars, ghostVars, presenceVars
<1>2. SweepTime'
  BY TimesAssumption, TimerBoundsAssumption DEF IInv, TypeOK, Row, Times, NoTime, Statements, CloseSocket, Act, sweepVars, ghostVars, presenceVars, SweepTime
<1>3. FreshRows'
  BY TimesAssumption, TimerBoundsAssumption DEF IInv, TypeOK, Row, Times, NoTime, Statements, CloseSocket, Act, sweepVars, ghostVars, presenceVars, FreshRows, SweepTime
<1>4. HeldWarningAhead'
  BY TimesAssumption, TimerBoundsAssumption DEF IInv, TypeOK, Row, Times, NoTime, Statements, CloseSocket, Act, sweepVars, ghostVars, presenceVars, HeldWarningAhead
<1>5. CountsFromHold'
  BY TimesAssumption, TimerBoundsAssumption DEF IInv, TypeOK, Row, Times, NoTime, Statements, CloseSocket, Act, sweepVars, ghostVars, presenceVars, CountsFromHold, SweepTime
<1>6. DeadlineOfDisconnected'
  BY TimesAssumption, TimerBoundsAssumption DEF IInv, TypeOK, Row, Times, NoTime, Statements, CloseSocket, Act, sweepVars, ghostVars, presenceVars, DeadlineOfDisconnected, DeadlineRespectsHolds
<1>7. DeadlineRespectsHolds'
  BY TimesAssumption, TimerBoundsAssumption DEF IInv, TypeOK, Row, Times, NoTime, Statements, CloseSocket, Act, sweepVars, ghostVars, presenceVars, DeadlineRespectsHolds, Respects, DeadlineOfDisconnected, CountsFromHold, SweepTime
<1>8. CountedAll'
  BY TimesAssumption, TimerBoundsAssumption DEF IInv, TypeOK, Row, Times, NoTime, Statements, CloseSocket, Act, sweepVars, ghostVars, presenceVars, CountedAll
<1> QED
  BY <1>1, <1>2, <1>3, <1>4, <1>5, <1>6, <1>7, <1>8 DEF IInv

LEMMA HeartbeatKeeps ==
    ASSUME IInv, NEW s \in Sockets, Heartbeat(s)
    PROVE  IInv'
<1>1. TypeOK'
  BY TimesAssumption, TimerBoundsAssumption DEF IInv, TypeOK, Row, Times, NoTime, Statements, Heartbeat, touchPresence, MovedTo, sweepVars, ghostVars, presenceVars
<1>2. SweepTime'
  BY TimesAssumption, TimerBoundsAssumption DEF IInv, TypeOK, Row, Times, NoTime, Statements, Heartbeat, touchPresence, MovedTo, sweepVars, ghostVars, presenceVars, SweepTime
<1>3. FreshRows'
  BY TimesAssumption, TimerBoundsAssumption DEF IInv, TypeOK, Row, Times, NoTime, Statements, Heartbeat, touchPresence, MovedTo, sweepVars, ghostVars, presenceVars, FreshRows, SweepTime
<1>4. HeldWarningAhead'
  BY TimesAssumption, TimerBoundsAssumption DEF IInv, TypeOK, Row, Times, NoTime, Statements, Heartbeat, touchPresence, MovedTo, sweepVars, ghostVars, presenceVars, HeldWarningAhead
<1>5. CountsFromHold'
  BY TimesAssumption, TimerBoundsAssumption DEF IInv, TypeOK, Row, Times, NoTime, Statements, Heartbeat, touchPresence, MovedTo, sweepVars, ghostVars, presenceVars, CountsFromHold, SweepTime
<1>6. DeadlineOfDisconnected'
  BY TimesAssumption, TimerBoundsAssumption DEF IInv, TypeOK, Row, Times, NoTime, Statements, Heartbeat, touchPresence, MovedTo, sweepVars, ghostVars, presenceVars, DeadlineOfDisconnected, DeadlineRespectsHolds
<1>7. DeadlineRespectsHolds'
  BY TimesAssumption, TimerBoundsAssumption DEF IInv, TypeOK, Row, Times, NoTime, Statements, Heartbeat, touchPresence, MovedTo, sweepVars, ghostVars, presenceVars, DeadlineRespectsHolds, Respects, DeadlineOfDisconnected, CountsFromHold, SweepTime
<1>8. CountedAll'
  BY TimesAssumption, TimerBoundsAssumption DEF IInv, TypeOK, Row, Times, NoTime, Statements, Heartbeat, touchPresence, MovedTo, sweepVars, ghostVars, presenceVars, CountedAll
<1> QED
  BY <1>1, <1>2, <1>3, <1>4, <1>5, <1>6, <1>7, <1>8 DEF IInv

LEMMA ActivityKeeps ==
    ASSUME IInv, Activity
    PROVE  IInv'
<1>1. TypeOK'
  <2>t. row \in Row /\ lastWrite \in Times /\ now \in Times /\ NoTime \in Times
    BY DEF IInv, TypeOK, Times
  <2>1. row' \in Row /\ lastWrite' \in Times
    <3>1. CASE UNCHANGED <<row, lastWrite>>
      BY <2>t, <3>1
    <3>2. CASE /\ lastWrite' = now
               /\ row' = [row EXCEPT !.lastActivity = now, !.idleStop = NoTime]
      BY ONLY <2>t, <3>2 DEF Row
    <3> QED
      BY <3>1, <3>2 DEF Activity, recordActivity
  <2> QED
    BY TimesAssumption, TimerBoundsAssumption, <2>1 DEF IInv, TypeOK, Row, Times, NoTime, Statements, Activity, Act, recordActivity, Throttled, sweepVars, ghostVars, presenceVars
<1>2. SweepTime'
  BY TimesAssumption, TimerBoundsAssumption DEF IInv, TypeOK, Row, Times, NoTime, Statements, Activity, Act, recordActivity, Throttled, sweepVars, ghostVars, presenceVars, SweepTime
<1>3. FreshRows'
  BY TimesAssumption, TimerBoundsAssumption DEF IInv, TypeOK, Row, Times, NoTime, Statements, Activity, Act, recordActivity, Throttled, sweepVars, ghostVars, presenceVars, FreshRows, SweepTime
<1>4. HeldWarningAhead'
  BY TimesAssumption, TimerBoundsAssumption DEF IInv, TypeOK, Row, Times, NoTime, Statements, Activity, Act, recordActivity, Throttled, sweepVars, ghostVars, presenceVars, HeldWarningAhead
<1>5. CountsFromHold'
  BY TimesAssumption, TimerBoundsAssumption DEF IInv, TypeOK, Row, Times, NoTime, Statements, Activity, Act, recordActivity, Throttled, sweepVars, ghostVars, presenceVars, CountsFromHold, SweepTime
<1>6. DeadlineOfDisconnected'
  BY TimesAssumption, TimerBoundsAssumption DEF IInv, TypeOK, Row, Times, NoTime, Statements, Activity, Act, recordActivity, Throttled, sweepVars, ghostVars, presenceVars, DeadlineOfDisconnected, DeadlineRespectsHolds
<1>7. DeadlineRespectsHolds'
  <2>1. /\ row'.until = row.until /\ row'.deadline = row.deadline
        /\ row'.disconnected = row.disconnected
    BY DEF IInv, TypeOK, Row, Activity, recordActivity
  <2>2. UNCHANGED <<pc, state, copy, heldTo, lateHold>>
    BY DEF Activity, Act, sweepVars
  <2> QED
    BY <2>1, <2>2 DEF IInv, DeadlineRespectsHolds, Respects
<1>8. CountedAll'
  BY TimesAssumption, TimerBoundsAssumption DEF IInv, TypeOK, Row, Times, NoTime, Statements, Activity, Act, recordActivity, Throttled, sweepVars, ghostVars, presenceVars, CountedAll
<1> QED
  BY <1>1, <1>2, <1>3, <1>4, <1>5, <1>6, <1>7, <1>8 DEF IInv

LEMMA SetHoldKeeps ==
    ASSUME IInv, NEW ahead \in Holds, SetHold(ahead)
    PROVE  IInv'
<1>1. TypeOK'
  <2>1. now \in Nat /\ now + ahead \in Nat
    BY TimesAssumption DEF IInv, TypeOK
  <2>2. row' \in Row
    BY <2>1 DEF IInv, TypeOK, Row, Times, SetHold, HoldSet
  <2>3. (pc # "rest") \in BOOLEAN
    OBVIOUS
  <2>4. env' \in Nat /\ acted' \in Nat /\ lateHold' \in BOOLEAN
    BY <2>1, <2>3 DEF IInv, TypeOK, SetHold, Act
  <2> QED
    BY <2>2, <2>4 DEF IInv, TypeOK, SetHold, sweepVars, presenceVars
<1>2. SweepTime'
  BY TimesAssumption, TimerBoundsAssumption DEF IInv, TypeOK, Row, Times, NoTime, Statements, SetHold, Act, KeepRunningRefused, HoldSet, sweepVars, ghostVars, presenceVars, SweepTime
<1>3. FreshRows'
  BY TimesAssumption, TimerBoundsAssumption DEF IInv, TypeOK, Row, Times, NoTime, Statements, SetHold, Act, KeepRunningRefused, HoldSet, sweepVars, ghostVars, presenceVars, FreshRows, SweepTime
<1>4. HeldWarningAhead'
  BY TimesAssumption, TimerBoundsAssumption DEF IInv, TypeOK, Row, Times, NoTime, Statements, SetHold, Act, KeepRunningRefused, HoldSet, sweepVars, ghostVars, presenceVars, HeldWarningAhead
<1>5. CountsFromHold'
  BY TimesAssumption, TimerBoundsAssumption DEF IInv, TypeOK, Row, Times, NoTime, Statements, SetHold, Act, KeepRunningRefused, HoldSet, sweepVars, ghostVars, presenceVars, CountsFromHold, SweepTime
<1>6. DeadlineOfDisconnected'
  BY TimesAssumption, TimerBoundsAssumption DEF IInv, TypeOK, Row, Times, NoTime, Statements, SetHold, Act, KeepRunningRefused, HoldSet, sweepVars, ghostVars, presenceVars, DeadlineOfDisconnected, DeadlineRespectsHolds
<1>7. DeadlineRespectsHolds'
  BY TimesAssumption, TimerBoundsAssumption DEF IInv, TypeOK, Row, Times, NoTime, Statements, SetHold, Act, KeepRunningRefused, HoldSet, sweepVars, ghostVars, presenceVars, DeadlineRespectsHolds, Respects, DeadlineOfDisconnected, CountsFromHold, SweepTime
<1>8. CountedAll'
  BY TimesAssumption, TimerBoundsAssumption DEF IInv, TypeOK, Row, Times, NoTime, Statements, SetHold, Act, KeepRunningRefused, HoldSet, sweepVars, ghostVars, presenceVars, CountedAll
<1> QED
  BY <1>1, <1>2, <1>3, <1>4, <1>5, <1>6, <1>7, <1>8 DEF IInv

LEMMA EndHoldKeeps ==
    ASSUME IInv, EndHold
    PROVE  IInv'
<1>1. TypeOK'
  <2>1. row' \in Row
    BY TimesAssumption DEF IInv, TypeOK, Row, Times, NoTime, EndHold, MovedTo
  <2> QED
    BY TimesAssumption, TimerBoundsAssumption, <2>1 DEF IInv, TypeOK, Row, Times, NoTime, Statements, EndHold, Act, MovedTo, sweepVars, ghostVars, presenceVars
<1>2. SweepTime'
  BY TimesAssumption, TimerBoundsAssumption DEF IInv, TypeOK, Row, Times, NoTime, Statements, EndHold, Act, MovedTo, sweepVars, ghostVars, presenceVars, SweepTime
<1>3. FreshRows'
  BY TimesAssumption, TimerBoundsAssumption DEF IInv, TypeOK, Row, Times, NoTime, Statements, EndHold, Act, MovedTo, sweepVars, ghostVars, presenceVars, FreshRows, SweepTime
<1>4. HeldWarningAhead'
  BY TimesAssumption, TimerBoundsAssumption DEF IInv, TypeOK, Row, Times, NoTime, Statements, EndHold, Act, MovedTo, sweepVars, ghostVars, presenceVars, HeldWarningAhead
<1>5. CountsFromHold'
  BY TimesAssumption, TimerBoundsAssumption DEF IInv, TypeOK, Row, Times, NoTime, Statements, EndHold, Act, MovedTo, sweepVars, ghostVars, presenceVars, CountsFromHold, SweepTime
<1>6. DeadlineOfDisconnected'
  BY TimesAssumption, TimerBoundsAssumption DEF IInv, TypeOK, Row, Times, NoTime, Statements, EndHold, Act, MovedTo, sweepVars, ghostVars, presenceVars, DeadlineOfDisconnected, DeadlineRespectsHolds
<1>7. DeadlineRespectsHolds'
  BY TimesAssumption, TimerBoundsAssumption DEF IInv, TypeOK, Row, Times, NoTime, Statements, EndHold, Act, MovedTo, sweepVars, ghostVars, presenceVars, DeadlineRespectsHolds, Respects, DeadlineOfDisconnected, CountsFromHold, SweepTime
<1>8. CountedAll'
  BY TimesAssumption, TimerBoundsAssumption DEF IInv, TypeOK, Row, Times, NoTime, Statements, EndHold, Act, MovedTo, sweepVars, ghostVars, presenceVars, CountedAll
<1> QED
  BY <1>1, <1>2, <1>3, <1>4, <1>5, <1>6, <1>7, <1>8 DEF IInv

LEMMA ChangeSettingsKeeps ==
    ASSUME IInv, ChangeSettings
    PROVE  IInv'
<1>1. TypeOK'
  BY TimesAssumption, TimerBoundsAssumption DEF IInv, TypeOK, Row, Times, NoTime, Statements, ChangeSettings, Act, sweepVars, ghostVars, presenceVars
<1>2. SweepTime'
  BY TimesAssumption, TimerBoundsAssumption DEF IInv, TypeOK, Row, Times, NoTime, Statements, ChangeSettings, Act, sweepVars, ghostVars, presenceVars, SweepTime
<1>3. FreshRows'
  BY TimesAssumption, TimerBoundsAssumption DEF IInv, TypeOK, Row, Times, NoTime, Statements, ChangeSettings, Act, sweepVars, ghostVars, presenceVars, FreshRows, SweepTime
<1>4. HeldWarningAhead'
  BY TimesAssumption, TimerBoundsAssumption DEF IInv, TypeOK, Row, Times, NoTime, Statements, ChangeSettings, Act, sweepVars, ghostVars, presenceVars, HeldWarningAhead
<1>5. CountsFromHold'
  BY TimesAssumption, TimerBoundsAssumption DEF IInv, TypeOK, Row, Times, NoTime, Statements, ChangeSettings, Act, sweepVars, ghostVars, presenceVars, CountsFromHold, SweepTime
<1>6. DeadlineOfDisconnected'
  BY TimesAssumption, TimerBoundsAssumption DEF IInv, TypeOK, Row, Times, NoTime, Statements, ChangeSettings, Act, sweepVars, ghostVars, presenceVars, DeadlineOfDisconnected, DeadlineRespectsHolds
<1>7. DeadlineRespectsHolds'
  BY TimesAssumption, TimerBoundsAssumption DEF IInv, TypeOK, Row, Times, NoTime, Statements, ChangeSettings, Act, sweepVars, ghostVars, presenceVars, DeadlineRespectsHolds, Respects, DeadlineOfDisconnected, CountsFromHold, SweepTime
<1>8. CountedAll'
  BY TimesAssumption, TimerBoundsAssumption DEF IInv, TypeOK, Row, Times, NoTime, Statements, ChangeSettings, Act, sweepVars, ghostVars, presenceVars, CountedAll
<1> QED
  BY <1>1, <1>2, <1>3, <1>4, <1>5, <1>6, <1>7, <1>8 DEF IInv

LEMMA WorkerRestartsKeeps ==
    ASSUME IInv, WorkerRestarts
    PROVE  IInv'
<1>1. TypeOK'
  <2>1. copy' \in [due : BOOLEAN, deadline : Times, grace : Graces \union {0}]
    BY DEF WorkerRestarts, NoSweep, NoCopy, Times
  <2>2. UNCHANGED <<now, state, desired, row, seenAt, socket, settings, lastWrite,
                    beat, steady, opened, acted, heldTo>>
    BY DEF WorkerRestarts, presenceVars
  <2>3. pc' = "rest" /\ sweepAt' = 0 /\ lateHold' = FALSE /\ env' = env + 1
    BY DEF WorkerRestarts, NoSweep, Act
  <2>4. env' \in Nat /\ sweepAt' \in Nat /\ pc' \in Statements
    BY <2>3 DEF IInv, TypeOK, Statements
  <2>5. lateSockets' \subseteq Sockets
    BY DEF WorkerRestarts, NoSweep
  <2> QED
    BY <2>1, <2>2, <2>3, <2>4, <2>5 DEF IInv, TypeOK
<1>2. SweepTime'
  BY TimesAssumption, TimerBoundsAssumption DEF IInv, TypeOK, Row, Times, NoTime, Statements, WorkerRestarts, Act, NoSweep, NoCopy, sweepVars, ghostVars, presenceVars, SweepTime
<1>3. FreshRows'
  BY TimesAssumption, TimerBoundsAssumption DEF IInv, TypeOK, Row, Times, NoTime, Statements, WorkerRestarts, Act, NoSweep, NoCopy, sweepVars, ghostVars, presenceVars, FreshRows, SweepTime
<1>4. HeldWarningAhead'
  BY TimesAssumption, TimerBoundsAssumption DEF IInv, TypeOK, Row, Times, NoTime, Statements, WorkerRestarts, Act, NoSweep, NoCopy, sweepVars, ghostVars, presenceVars, HeldWarningAhead
<1>5. CountsFromHold'
  BY TimesAssumption, TimerBoundsAssumption DEF IInv, TypeOK, Row, Times, NoTime, Statements, WorkerRestarts, Act, NoSweep, NoCopy, sweepVars, ghostVars, presenceVars, CountsFromHold, SweepTime
<1>6. DeadlineOfDisconnected'
  BY TimesAssumption, TimerBoundsAssumption DEF IInv, TypeOK, Row, Times, NoTime, Statements, WorkerRestarts, Act, NoSweep, NoCopy, sweepVars, ghostVars, presenceVars, DeadlineOfDisconnected, DeadlineRespectsHolds
<1>7. DeadlineRespectsHolds'
  BY TimesAssumption, TimerBoundsAssumption DEF IInv, TypeOK, Row, Times, NoTime, Statements, WorkerRestarts, Act, NoSweep, NoCopy, sweepVars, ghostVars, presenceVars, DeadlineRespectsHolds, Respects, DeadlineOfDisconnected, CountsFromHold, SweepTime
<1>8. CountedAll'
  BY TimesAssumption, TimerBoundsAssumption DEF IInv, TypeOK, Row, Times, NoTime, Statements, WorkerRestarts, Act, NoSweep, NoCopy, sweepVars, ghostVars, presenceVars, CountedAll
<1> QED
  BY <1>1, <1>2, <1>3, <1>4, <1>5, <1>6, <1>7, <1>8 DEF IInv

LEMMA StopEndsKeeps ==
    ASSUME IInv, StopEnds
    PROVE  IInv'
<1>1. TypeOK'
  <2>1. row' \in Row
    BY TimesAssumption DEF IInv, TypeOK, Row, Times, NoTime, StopEnds
  <2> QED
    BY TimesAssumption, TimerBoundsAssumption, <2>1 DEF IInv, TypeOK, Row, Times, NoTime, Statements, StopEnds, sweepVars, ghostVars, presenceVars
<1>2. SweepTime'
  BY TimesAssumption, TimerBoundsAssumption DEF IInv, TypeOK, Row, Times, NoTime, Statements, StopEnds, sweepVars, ghostVars, presenceVars, SweepTime
<1>3. FreshRows'
  BY TimesAssumption, TimerBoundsAssumption DEF IInv, TypeOK, Row, Times, NoTime, Statements, StopEnds, sweepVars, ghostVars, presenceVars, FreshRows, SweepTime
<1>4. HeldWarningAhead'
  BY TimesAssumption, TimerBoundsAssumption DEF IInv, TypeOK, Row, Times, NoTime, Statements, StopEnds, sweepVars, ghostVars, presenceVars, HeldWarningAhead
<1>5. CountsFromHold'
  BY TimesAssumption, TimerBoundsAssumption DEF IInv, TypeOK, Row, Times, NoTime, Statements, StopEnds, sweepVars, ghostVars, presenceVars, CountsFromHold, SweepTime
<1>6. DeadlineOfDisconnected'
  BY TimesAssumption, TimerBoundsAssumption DEF IInv, TypeOK, Row, Times, NoTime, Statements, StopEnds, sweepVars, ghostVars, presenceVars, DeadlineOfDisconnected, DeadlineRespectsHolds
<1>7. DeadlineRespectsHolds'
  BY TimesAssumption, TimerBoundsAssumption DEF IInv, TypeOK, Row, Times, NoTime, Statements, StopEnds, sweepVars, ghostVars, presenceVars, DeadlineRespectsHolds, Respects, DeadlineOfDisconnected, CountsFromHold, SweepTime
<1>8. CountedAll'
  BY TimesAssumption, TimerBoundsAssumption DEF IInv, TypeOK, Row, Times, NoTime, Statements, StopEnds, sweepVars, ghostVars, presenceVars, CountedAll
<1> QED
  BY <1>1, <1>2, <1>3, <1>4, <1>5, <1>6, <1>7, <1>8 DEF IInv

LEMMA StartsKeeps ==
    ASSUME IInv, Starts
    PROVE  IInv'
<1>1. TypeOK'
  <2>1. row' \in Row
    BY DEF IInv, TypeOK, Row, Times, NoTime, Starts
  <2> QED
    BY <2>1 DEF IInv, TypeOK, Statements, Starts, sweepVars, ghostVars
<1>2. SweepTime'
  BY TimesAssumption, TimerBoundsAssumption DEF IInv, TypeOK, Row, Times, NoTime, Statements, Starts, sweepVars, ghostVars, presenceVars, SweepTime
<1>3. FreshRows'
  BY TimesAssumption, TimerBoundsAssumption DEF IInv, TypeOK, Row, Times, NoTime, Statements, Starts, sweepVars, ghostVars, presenceVars, FreshRows, SweepTime
<1>4. HeldWarningAhead'
  BY TimesAssumption, TimerBoundsAssumption DEF IInv, TypeOK, Row, Times, NoTime, Statements, Starts, sweepVars, ghostVars, presenceVars, HeldWarningAhead
<1>5. CountsFromHold'
  BY TimesAssumption, TimerBoundsAssumption DEF IInv, TypeOK, Row, Times, NoTime, Statements, Starts, sweepVars, ghostVars, presenceVars, CountsFromHold, SweepTime
<1>6. DeadlineOfDisconnected'
  BY TimesAssumption, TimerBoundsAssumption DEF IInv, TypeOK, Row, Times, NoTime, Statements, Starts, sweepVars, ghostVars, presenceVars, DeadlineOfDisconnected, DeadlineRespectsHolds
<1>7. DeadlineRespectsHolds'
  BY TimesAssumption, TimerBoundsAssumption DEF IInv, TypeOK, Row, Times, NoTime, Statements, Starts, sweepVars, ghostVars, presenceVars, DeadlineRespectsHolds, Respects, DeadlineOfDisconnected, CountsFromHold, SweepTime
<1>8. CountedAll'
  BY TimesAssumption, TimerBoundsAssumption DEF IInv, TypeOK, Row, Times, NoTime, Statements, Starts, sweepVars, ghostVars, presenceVars, CountedAll
<1> QED
  BY <1>1, <1>2, <1>3, <1>4, <1>5, <1>6, <1>7, <1>8 DEF IInv

LEMMA ExpireConnectionsKeeps ==
    ASSUME IInv, expireConnections
    PROVE  IInv'
<1>1. TypeOK'
  BY TimesAssumption, TimerBoundsAssumption DEF IInv, TypeOK, Row, Times, NoTime, Statements, expireConnections, Stale, Then, OnlyRow, sweepVars, ghostVars, presenceVars
<1>2. SweepTime'
  BY TimesAssumption, TimerBoundsAssumption DEF IInv, TypeOK, Row, Times, NoTime, Statements, expireConnections, Stale, Then, OnlyRow, sweepVars, ghostVars, presenceVars, SweepTime
<1>3. FreshRows'
  BY TimesAssumption, TimerBoundsAssumption DEF IInv, TypeOK, Row, Times, NoTime, Statements, expireConnections, Stale, Then, OnlyRow, sweepVars, ghostVars, presenceVars, FreshRows, SweepTime
<1>4. HeldWarningAhead'
  BY TimesAssumption, TimerBoundsAssumption DEF IInv, TypeOK, Row, Times, NoTime, Statements, expireConnections, Stale, Then, OnlyRow, sweepVars, ghostVars, presenceVars, HeldWarningAhead
<1>5. CountsFromHold'
  BY TimesAssumption, TimerBoundsAssumption DEF IInv, TypeOK, Row, Times, NoTime, Statements, expireConnections, Stale, Then, OnlyRow, sweepVars, ghostVars, presenceVars, CountsFromHold, SweepTime
<1>6. DeadlineOfDisconnected'
  BY TimesAssumption, TimerBoundsAssumption DEF IInv, TypeOK, Row, Times, NoTime, Statements, expireConnections, Stale, Then, OnlyRow, sweepVars, ghostVars, presenceVars, DeadlineOfDisconnected, DeadlineRespectsHolds
<1>7. DeadlineRespectsHolds'
  BY TimesAssumption, TimerBoundsAssumption DEF IInv, TypeOK, Row, Times, NoTime, Statements, expireConnections, Stale, Then, OnlyRow, sweepVars, ghostVars, presenceVars, DeadlineRespectsHolds, Respects, DeadlineOfDisconnected, CountsFromHold, SweepTime
<1>8. CountedAll'
  BY TimesAssumption, TimerBoundsAssumption DEF IInv, TypeOK, Row, Times, NoTime, Statements, expireConnections, Stale, Then, OnlyRow, sweepVars, ghostVars, presenceVars, CountedAll
<1> QED
  BY <1>1, <1>2, <1>3, <1>4, <1>5, <1>6, <1>7, <1>8 DEF IInv

LEMMA SettleOffKeeps ==
    ASSUME IInv, settleOff
    PROVE  IInv'
<1>1. TypeOK'
  <2>1. row' \in Row
    BY TimesAssumption DEF IInv, TypeOK, Row, Times, NoTime, settleOff, HoldAhead, HoldOff, MovedTo
  <2>2. heldTo' \in Times
    BY DEF IInv, TypeOK, Times, settleOff
  <2> QED
    BY TimesAssumption, TimerBoundsAssumption, <2>1, <2>2 DEF IInv, TypeOK, Row, Times, NoTime, Statements, settleOff, HoldAhead, HoldOff, MovedTo, Then, OnlyRow, sweepVars, ghostVars, presenceVars
<1>2. SweepTime'
  BY TimesAssumption, TimerBoundsAssumption DEF IInv, TypeOK, Row, Times, NoTime, Statements, settleOff, HoldAhead, HoldOff, MovedTo, Then, OnlyRow, sweepVars, ghostVars, presenceVars, SweepTime
<1>3. FreshRows'
  BY TimesAssumption, TimerBoundsAssumption DEF IInv, TypeOK, Row, Times, NoTime, Statements, settleOff, HoldAhead, HoldOff, MovedTo, Then, OnlyRow, sweepVars, ghostVars, presenceVars, FreshRows, SweepTime
<1>4. HeldWarningAhead'
  BY TimesAssumption, TimerBoundsAssumption DEF IInv, TypeOK, Row, Times, NoTime, Statements, settleOff, HoldAhead, HoldOff, MovedTo, Then, OnlyRow, sweepVars, ghostVars, presenceVars, HeldWarningAhead
<1>5. CountsFromHold'
  BY TimesAssumption, TimerBoundsAssumption DEF IInv, TypeOK, Row, Times, NoTime, Statements, settleOff, HoldAhead, HoldOff, MovedTo, Then, OnlyRow, sweepVars, ghostVars, presenceVars, CountsFromHold, SweepTime
<1>6. DeadlineOfDisconnected'
  BY TimesAssumption, TimerBoundsAssumption DEF IInv, TypeOK, Row, Times, NoTime, Statements, settleOff, HoldAhead, HoldOff, MovedTo, Then, OnlyRow, sweepVars, ghostVars, presenceVars, DeadlineOfDisconnected, DeadlineRespectsHolds
<1>7. DeadlineRespectsHolds'
  BY TimesAssumption, TimerBoundsAssumption DEF IInv, TypeOK, Row, Times, NoTime, Statements, settleOff, HoldAhead, HoldOff, MovedTo, Then, OnlyRow, sweepVars, ghostVars, presenceVars, DeadlineRespectsHolds, Respects, DeadlineOfDisconnected, CountsFromHold, SweepTime
<1>8. CountedAll'
  BY TimesAssumption, TimerBoundsAssumption DEF IInv, TypeOK, Row, Times, NoTime, Statements, settleOff, HoldAhead, HoldOff, MovedTo, Then, OnlyRow, sweepVars, ghostVars, presenceVars, CountedAll
<1> QED
  BY <1>1, <1>2, <1>3, <1>4, <1>5, <1>6, <1>7, <1>8 DEF IInv

LEMMA SettleCutKeeps ==
    ASSUME IInv, settleCut
    PROVE  IInv'
<1>1. TypeOK'
  BY TimesAssumption, TimerBoundsAssumption DEF IInv, TypeOK, Row, Times, NoTime, Statements, settleCut, Then, OnlyRow, sweepVars, ghostVars, presenceVars
<1>2. SweepTime'
  BY TimesAssumption, TimerBoundsAssumption DEF IInv, TypeOK, Row, Times, NoTime, Statements, settleCut, Then, OnlyRow, sweepVars, ghostVars, presenceVars, SweepTime
<1>3. FreshRows'
  BY TimesAssumption, TimerBoundsAssumption DEF IInv, TypeOK, Row, Times, NoTime, Statements, settleCut, Then, OnlyRow, sweepVars, ghostVars, presenceVars, FreshRows, SweepTime
<1>4. HeldWarningAhead'
  BY TimesAssumption, TimerBoundsAssumption DEF IInv, TypeOK, Row, Times, NoTime, Statements, settleCut, Then, OnlyRow, sweepVars, ghostVars, presenceVars, HeldWarningAhead
<1>5. CountsFromHold'
  BY TimesAssumption, TimerBoundsAssumption DEF IInv, TypeOK, Row, Times, NoTime, Statements, settleCut, Then, OnlyRow, sweepVars, ghostVars, presenceVars, CountsFromHold, SweepTime
<1>6. DeadlineOfDisconnected'
  BY TimesAssumption, TimerBoundsAssumption DEF IInv, TypeOK, Row, Times, NoTime, Statements, settleCut, Then, OnlyRow, sweepVars, ghostVars, presenceVars, DeadlineOfDisconnected, DeadlineRespectsHolds
<1>7. DeadlineRespectsHolds'
  BY TimesAssumption, TimerBoundsAssumption DEF IInv, TypeOK, Row, Times, NoTime, Statements, settleCut, Then, OnlyRow, sweepVars, ghostVars, presenceVars, DeadlineRespectsHolds, Respects, DeadlineOfDisconnected, CountsFromHold, SweepTime
<1>8. CountedAll'
  BY TimesAssumption, TimerBoundsAssumption DEF IInv, TypeOK, Row, Times, NoTime, Statements, settleCut, Then, OnlyRow, sweepVars, ghostVars, presenceVars, CountedAll
<1> QED
  BY <1>1, <1>2, <1>3, <1>4, <1>5, <1>6, <1>7, <1>8 DEF IInv

LEMMA SettleExpiredKeeps ==
    ASSUME IInv, settleExpired
    PROVE  IInv'
<1>1. TypeOK'
  <2>t. row \in Row /\ NoTime \in Times
    BY DEF IInv, TypeOK, Times
  <2>1. row' \in Row
    <3>1. PICK la, dc : /\ la = Later(row.lastActivity, row.until)
                        /\ dc = MovedTo(row.disconnected, Later(row.disconnected, row.until))
      OBVIOUS
    <3>2. la \in Times /\ dc \in Times
      BY <2>t, <3>1 DEF Row, Later, MovedTo
    <3>3. HoldExpired(row) = [row EXCEPT !.until = NoTime, !.idleStop = NoTime,
                                         !.lastActivity = la, !.disconnected = dc]
      BY <2>t, <3>1 DEF HoldExpired, Row
    <3>4. HoldExpired(row) \in Row
      BY ONLY <2>t, <3>2, <3>3 DEF Row
    <3> QED
      BY <2>t, <3>4 DEF settleExpired
  <2>2. heldTo' \in Times
    BY DEF IInv, TypeOK, Row, Times, settleExpired, Later
  <2> QED
    BY TimesAssumption, TimerBoundsAssumption, <2>1, <2>2 DEF IInv, TypeOK, Row, Times, NoTime, Statements, settleExpired, HoldExpired, Later, MovedTo, Then, OnlyRow, sweepVars, ghostVars, presenceVars
<1>2. SweepTime'
  BY TimesAssumption, TimerBoundsAssumption DEF IInv, TypeOK, Row, Times, NoTime, Statements, settleExpired, HoldExpired, Later, MovedTo, Then, OnlyRow, sweepVars, ghostVars, presenceVars, SweepTime
<1>3. FreshRows'
  BY TimesAssumption, TimerBoundsAssumption DEF IInv, TypeOK, Row, Times, NoTime, Statements, settleExpired, HoldExpired, Later, MovedTo, Then, OnlyRow, sweepVars, ghostVars, presenceVars, FreshRows, SweepTime
<1>4. HeldWarningAhead'
  BY TimesAssumption, TimerBoundsAssumption DEF IInv, TypeOK, Row, Times, NoTime, Statements, settleExpired, HoldExpired, Later, MovedTo, Then, OnlyRow, sweepVars, ghostVars, presenceVars, HeldWarningAhead
<1>5. CountsFromHold'
  BY TimesAssumption, TimerBoundsAssumption DEF IInv, TypeOK, Row, Times, NoTime, Statements, settleExpired, HoldExpired, Later, MovedTo, Then, OnlyRow, sweepVars, ghostVars, presenceVars, CountsFromHold, SweepTime
<1>6. DeadlineOfDisconnected'
  BY TimesAssumption, TimerBoundsAssumption DEF IInv, TypeOK, Row, Times, NoTime, Statements, settleExpired, HoldExpired, Later, MovedTo, Then, OnlyRow, sweepVars, ghostVars, presenceVars, DeadlineOfDisconnected, DeadlineRespectsHolds
<1>7. DeadlineRespectsHolds'
  BY TimesAssumption, TimerBoundsAssumption DEF IInv, TypeOK, Row, Times, NoTime, Statements, settleExpired, HoldExpired, Later, MovedTo, Then, OnlyRow, sweepVars, ghostVars, presenceVars, DeadlineRespectsHolds, Respects, DeadlineOfDisconnected, CountsFromHold, SweepTime
<1>8. CountedAll'
  BY TimesAssumption, TimerBoundsAssumption DEF IInv, TypeOK, Row, Times, NoTime, Statements, settleExpired, HoldExpired, Later, MovedTo, Then, OnlyRow, sweepVars, ghostVars, presenceVars, CountedAll
<1> QED
  BY <1>1, <1>2, <1>3, <1>4, <1>5, <1>6, <1>7, <1>8 DEF IInv

LEMMA StampDisconnectedKeeps ==
    ASSUME IInv, stampDisconnected
    PROVE  IInv'
<1>1. TypeOK'
  BY TimesAssumption, TimerBoundsAssumption DEF IInv, TypeOK, Row, Times, NoTime, Statements, stampDisconnected, Then, OnlyRow, sweepVars, ghostVars, presenceVars
<1>2. SweepTime'
  BY TimesAssumption, TimerBoundsAssumption DEF IInv, TypeOK, Row, Times, NoTime, Statements, stampDisconnected, Then, OnlyRow, sweepVars, ghostVars, presenceVars, SweepTime
<1>3. FreshRows'
  BY TimesAssumption, TimerBoundsAssumption DEF IInv, TypeOK, Row, Times, NoTime, Statements, stampDisconnected, Then, OnlyRow, sweepVars, ghostVars, presenceVars, FreshRows, SweepTime
<1>4. HeldWarningAhead'
  BY TimesAssumption, TimerBoundsAssumption DEF IInv, TypeOK, Row, Times, NoTime, Statements, stampDisconnected, Then, OnlyRow, sweepVars, ghostVars, presenceVars, HeldWarningAhead
<1>5. CountsFromHold'
  BY TimesAssumption, TimerBoundsAssumption DEF IInv, TypeOK, Row, Times, NoTime, Statements, stampDisconnected, Then, OnlyRow, sweepVars, ghostVars, presenceVars, CountsFromHold, SweepTime
<1>6. DeadlineOfDisconnected'
  BY TimesAssumption, TimerBoundsAssumption DEF IInv, TypeOK, Row, Times, NoTime, Statements, stampDisconnected, Then, OnlyRow, sweepVars, ghostVars, presenceVars, DeadlineOfDisconnected, DeadlineRespectsHolds
<1>7. DeadlineRespectsHolds'
  BY TimesAssumption, TimerBoundsAssumption DEF IInv, TypeOK, Row, Times, NoTime, Statements, stampDisconnected, Then, OnlyRow, sweepVars, ghostVars, presenceVars, DeadlineRespectsHolds, Respects, DeadlineOfDisconnected, CountsFromHold, SweepTime
<1>8. CountedAll'
  BY TimesAssumption, TimerBoundsAssumption DEF IInv, TypeOK, Row, Times, NoTime, Statements, stampDisconnected, Then, OnlyRow, sweepVars, ghostVars, presenceVars, CountedAll
<1> QED
  BY <1>1, <1>2, <1>3, <1>4, <1>5, <1>6, <1>7, <1>8 DEF IInv

LEMMA ClearConnectedKeeps ==
    ASSUME IInv, clearConnected
    PROVE  IInv'
<1>1. TypeOK'
  <2>1. row' \in Row
    BY TimesAssumption DEF IInv, TypeOK, Row, Times, NoTime, clearConnected
  <2> QED
    BY TimesAssumption, TimerBoundsAssumption, <2>1 DEF IInv, TypeOK, Row, Times, NoTime, Statements, clearConnected, Then, OnlyRow, sweepVars, ghostVars, presenceVars
<1>2. SweepTime'
  BY TimesAssumption, TimerBoundsAssumption DEF IInv, TypeOK, Row, Times, NoTime, Statements, clearConnected, Then, OnlyRow, sweepVars, ghostVars, presenceVars, SweepTime
<1>3. FreshRows'
  BY TimesAssumption, TimerBoundsAssumption DEF IInv, TypeOK, Row, Times, NoTime, Statements, clearConnected, Then, OnlyRow, sweepVars, ghostVars, presenceVars, FreshRows, SweepTime
<1>4. HeldWarningAhead'
  BY TimesAssumption, TimerBoundsAssumption DEF IInv, TypeOK, Row, Times, NoTime, Statements, clearConnected, Then, OnlyRow, sweepVars, ghostVars, presenceVars, HeldWarningAhead
<1>5. CountsFromHold'
  BY TimesAssumption, TimerBoundsAssumption DEF IInv, TypeOK, Row, Times, NoTime, Statements, clearConnected, Then, OnlyRow, sweepVars, ghostVars, presenceVars, CountsFromHold, SweepTime
<1>6. DeadlineOfDisconnected'
  BY TimesAssumption, TimerBoundsAssumption DEF IInv, TypeOK, Row, Times, NoTime, Statements, clearConnected, Then, OnlyRow, sweepVars, ghostVars, presenceVars, DeadlineOfDisconnected, DeadlineRespectsHolds
<1>7. DeadlineRespectsHolds'
  BY TimesAssumption, TimerBoundsAssumption DEF IInv, TypeOK, Row, Times, NoTime, Statements, clearConnected, Then, OnlyRow, sweepVars, ghostVars, presenceVars, DeadlineRespectsHolds, Respects, DeadlineOfDisconnected, CountsFromHold, SweepTime
<1>8. CountedAll'
  BY TimesAssumption, TimerBoundsAssumption DEF IInv, TypeOK, Row, Times, NoTime, Statements, clearConnected, Then, OnlyRow, sweepVars, ghostVars, presenceVars, CountedAll
<1> QED
  BY <1>1, <1>2, <1>3, <1>4, <1>5, <1>6, <1>7, <1>8 DEF IInv

LEMMA RecomputeReadKeeps ==
    ASSUME IInv, recomputeRead
    PROVE  IInv'
<1>0. /\ settings.grace \in Graces
      /\ settings.grace \in Nat
  BY TimesAssumption DEF IInv, TypeOK
<1>1. TypeOK'
  <2>1. row.disconnected = -1 \/ row.disconnected \in Nat
    BY DEF IInv, TypeOK, Row, Times, NoTime
  <2>2. settings.grace # 0 => row.disconnected + settings.grace \in Nat
    BY <1>0, <2>1
  <2>3. NewDeadline(row) \in Times
    BY <2>2 DEF NewDeadline, Times
  <2>4. copy' \in [due : BOOLEAN, deadline : Times, grace : Graces \union {0}]
    BY <1>0, <2>3 DEF recomputeRead
  <2> QED
    BY <2>4 DEF IInv, TypeOK, Statements, recomputeRead, Then
<1>2. SweepTime'
  BY TimesAssumption, TimerBoundsAssumption DEF IInv, TypeOK, Row, Times, NoTime, Statements, recomputeRead, NewDeadline, Then, OnlyRow, sweepVars, ghostVars, presenceVars, SweepTime
<1>3. FreshRows'
  BY TimesAssumption, TimerBoundsAssumption DEF IInv, TypeOK, Row, Times, NoTime, Statements, recomputeRead, NewDeadline, Then, OnlyRow, sweepVars, ghostVars, presenceVars, FreshRows, SweepTime
<1>4. HeldWarningAhead'
  BY TimesAssumption, TimerBoundsAssumption DEF IInv, TypeOK, Row, Times, NoTime, Statements, recomputeRead, NewDeadline, Then, OnlyRow, sweepVars, ghostVars, presenceVars, HeldWarningAhead
<1>5. CountsFromHold'
  BY TimesAssumption, TimerBoundsAssumption DEF IInv, TypeOK, Row, Times, NoTime, Statements, recomputeRead, NewDeadline, Then, OnlyRow, sweepVars, ghostVars, presenceVars, CountsFromHold, SweepTime
<1>6. DeadlineOfDisconnected'
  BY TimesAssumption, TimerBoundsAssumption DEF IInv, TypeOK, Row, Times, NoTime, Statements, recomputeRead, NewDeadline, Then, OnlyRow, sweepVars, ghostVars, presenceVars, DeadlineOfDisconnected, DeadlineRespectsHolds
<1>7. DeadlineRespectsHolds'
  <2> DEFINE due == state = "running" /\ row.disconnected # NoTime
  <2>1. /\ copy'.due = due
        /\ copy'.deadline = NewDeadline(row)
        /\ copy'.grace = settings.grace
        /\ pc' = "graceWrite"
        /\ UNCHANGED <<state, row, heldTo>>
    BY DEF recomputeRead, Then
  <2>2. CASE due
    <3>1. (NewDeadline(row) # NoTime)
             => /\ row.until = NoTime
                /\ NewDeadline(row) = row.disconnected + settings.grace
      BY DEF NewDeadline
    <3>2. heldTo # NoTime => row.disconnected + MaxSweep >= heldTo
      BY <2>2 DEF IInv, CountsFromHold
    <3>3. /\ row.disconnected \in Int
          /\ heldTo \in Int
          /\ MaxSweep \in Int
      BY TimerBoundsAssumption DEF IInv, TypeOK, Row, Times, NoTime
    <3>4. Respects(copy.deadline)'
      BY <1>0, <2>1, <3>1, <3>2, <3>3 DEF Respects
    <3> QED
      BY <2>1, <2>2, <3>4 DEF DeadlineRespectsHolds
  <2>3. CASE ~due
    BY <2>1, <2>3 DEF IInv, DeadlineOfDisconnected, DeadlineRespectsHolds
  <2> QED
    BY <2>2, <2>3
<1>8. CountedAll'
  BY TimesAssumption, TimerBoundsAssumption DEF IInv, TypeOK, Row, Times, NoTime, Statements, recomputeRead, NewDeadline, Then, OnlyRow, sweepVars, ghostVars, presenceVars, CountedAll
<1> QED
  BY <1>1, <1>2, <1>3, <1>4, <1>5, <1>6, <1>7, <1>8 DEF IInv

LEMMA RecomputeWriteKeeps ==
    ASSUME IInv, recomputeWrite
    PROVE  IInv'
<1>1. TypeOK'
  BY TimesAssumption, TimerBoundsAssumption DEF IInv, TypeOK, Row, Times, NoTime, Statements, recomputeWrite, Then, OnlyRow, sweepVars, ghostVars, presenceVars
<1>2. SweepTime'
  BY TimesAssumption, TimerBoundsAssumption DEF IInv, TypeOK, Row, Times, NoTime, Statements, recomputeWrite, Then, OnlyRow, sweepVars, ghostVars, presenceVars, SweepTime
<1>3. FreshRows'
  BY TimesAssumption, TimerBoundsAssumption DEF IInv, TypeOK, Row, Times, NoTime, Statements, recomputeWrite, Then, OnlyRow, sweepVars, ghostVars, presenceVars, FreshRows, SweepTime
<1>4. HeldWarningAhead'
  BY TimesAssumption, TimerBoundsAssumption DEF IInv, TypeOK, Row, Times, NoTime, Statements, recomputeWrite, Then, OnlyRow, sweepVars, ghostVars, presenceVars, HeldWarningAhead
<1>5. CountsFromHold'
  BY TimesAssumption, TimerBoundsAssumption DEF IInv, TypeOK, Row, Times, NoTime, Statements, recomputeWrite, Then, OnlyRow, sweepVars, ghostVars, presenceVars, CountsFromHold, SweepTime
<1>6. DeadlineOfDisconnected'
  BY TimesAssumption, TimerBoundsAssumption DEF IInv, TypeOK, Row, Times, NoTime, Statements, recomputeWrite, Then, OnlyRow, sweepVars, ghostVars, presenceVars, DeadlineOfDisconnected, DeadlineRespectsHolds
<1>7. DeadlineRespectsHolds'
  BY TimesAssumption, TimerBoundsAssumption DEF IInv, TypeOK, Row, Times, NoTime, Statements, recomputeWrite, Then, OnlyRow, sweepVars, ghostVars, presenceVars, DeadlineRespectsHolds, Respects, DeadlineOfDisconnected, CountsFromHold, SweepTime
<1>8. CountedAll'
  BY TimesAssumption, TimerBoundsAssumption DEF IInv, TypeOK, Row, Times, NoTime, Statements, recomputeWrite, Then, OnlyRow, sweepVars, ghostVars, presenceVars, CountedAll
<1> QED
  BY <1>1, <1>2, <1>3, <1>4, <1>5, <1>6, <1>7, <1>8 DEF IInv

LEMMA CountConnectionsKeeps ==
    ASSUME IInv, countConnections
    PROVE  IInv'
<1>1. TypeOK'
  <2>1. GraceDue \in BOOLEAN
    BY DEF GraceDue, DeadlinePassed
  <2>2. copy' \in [due : BOOLEAN, deadline : Times, grace : Graces \union {0}]
    BY <2>1 DEF IInv, TypeOK, countConnections
  <2>3. pc' \in Statements /\ lateSockets' \subseteq Sockets
    BY DEF countConnections, Then, Statements
  <2> QED
    BY <2>2, <2>3 DEF IInv, TypeOK, countConnections, Then
<1>2. SweepTime'
  BY TimesAssumption, TimerBoundsAssumption DEF IInv, TypeOK, Row, Times, NoTime, Statements, countConnections, DeadlinePassed, GraceDue, Then, OnlyRow, sweepVars, ghostVars, presenceVars, SweepTime
<1>3. FreshRows'
  BY TimesAssumption, TimerBoundsAssumption DEF IInv, TypeOK, Row, Times, NoTime, Statements, countConnections, DeadlinePassed, GraceDue, Then, OnlyRow, sweepVars, ghostVars, presenceVars, FreshRows, SweepTime
<1>4. HeldWarningAhead'
  BY TimesAssumption, TimerBoundsAssumption DEF IInv, TypeOK, Row, Times, NoTime, Statements, countConnections, DeadlinePassed, GraceDue, Then, OnlyRow, sweepVars, ghostVars, presenceVars, HeldWarningAhead
<1>5. CountsFromHold'
  BY TimesAssumption, TimerBoundsAssumption DEF IInv, TypeOK, Row, Times, NoTime, Statements, countConnections, DeadlinePassed, GraceDue, Then, OnlyRow, sweepVars, ghostVars, presenceVars, CountsFromHold, SweepTime
<1>6. DeadlineOfDisconnected'
  BY TimesAssumption, TimerBoundsAssumption DEF IInv, TypeOK, Row, Times, NoTime, Statements, countConnections, DeadlinePassed, GraceDue, Then, OnlyRow, sweepVars, ghostVars, presenceVars, DeadlineOfDisconnected, DeadlineRespectsHolds
<1>7. DeadlineRespectsHolds'
  BY TimesAssumption, TimerBoundsAssumption DEF IInv, TypeOK, Row, Times, NoTime, Statements, countConnections, DeadlinePassed, GraceDue, Then, OnlyRow, sweepVars, ghostVars, presenceVars, DeadlineRespectsHolds, Respects, DeadlineOfDisconnected, CountsFromHold, SweepTime
<1>8. CountedAll'
  BY TimesAssumption, TimerBoundsAssumption DEF IInv, TypeOK, Row, Times, NoTime, Statements, countConnections, DeadlinePassed, GraceDue, Then, OnlyRow, sweepVars, ghostVars, presenceVars, CountedAll, FreshRows, Present
<1> QED
  BY <1>1, <1>2, <1>3, <1>4, <1>5, <1>6, <1>7, <1>8 DEF IInv

LEMMA StopAfterGraceKeeps ==
    ASSUME IInv, stopAfterGrace
    PROVE  IInv'
<1>1. TypeOK'
  BY TimesAssumption, TimerBoundsAssumption DEF IInv, TypeOK, Row, Times, NoTime, Statements, stopAfterGrace, DeadlinePassed, Then, OnlyRow, sweepVars, ghostVars, presenceVars
<1>2. SweepTime'
  BY TimesAssumption, TimerBoundsAssumption DEF IInv, TypeOK, Row, Times, NoTime, Statements, stopAfterGrace, DeadlinePassed, Then, OnlyRow, sweepVars, ghostVars, presenceVars, SweepTime
<1>3. FreshRows'
  BY TimesAssumption, TimerBoundsAssumption DEF IInv, TypeOK, Row, Times, NoTime, Statements, stopAfterGrace, DeadlinePassed, Then, OnlyRow, sweepVars, ghostVars, presenceVars, FreshRows, SweepTime
<1>4. HeldWarningAhead'
  BY TimesAssumption, TimerBoundsAssumption DEF IInv, TypeOK, Row, Times, NoTime, Statements, stopAfterGrace, DeadlinePassed, Then, OnlyRow, sweepVars, ghostVars, presenceVars, HeldWarningAhead
<1>5. CountsFromHold'
  BY TimesAssumption, TimerBoundsAssumption DEF IInv, TypeOK, Row, Times, NoTime, Statements, stopAfterGrace, DeadlinePassed, Then, OnlyRow, sweepVars, ghostVars, presenceVars, CountsFromHold, SweepTime
<1>6. DeadlineOfDisconnected'
  BY TimesAssumption, TimerBoundsAssumption DEF IInv, TypeOK, Row, Times, NoTime, Statements, stopAfterGrace, DeadlinePassed, Then, OnlyRow, sweepVars, ghostVars, presenceVars, DeadlineOfDisconnected, DeadlineRespectsHolds
<1>7. DeadlineRespectsHolds'
  BY TimesAssumption, TimerBoundsAssumption DEF IInv, TypeOK, Row, Times, NoTime, Statements, stopAfterGrace, DeadlinePassed, Then, OnlyRow, sweepVars, ghostVars, presenceVars, DeadlineRespectsHolds, Respects, DeadlineOfDisconnected, CountsFromHold, SweepTime
<1>8. CountedAll'
  BY TimesAssumption, TimerBoundsAssumption DEF IInv, TypeOK, Row, Times, NoTime, Statements, stopAfterGrace, DeadlinePassed, Then, OnlyRow, sweepVars, ghostVars, presenceVars, CountedAll
<1> QED
  BY <1>1, <1>2, <1>3, <1>4, <1>5, <1>6, <1>7, <1>8 DEF IInv

LEMMA WithdrawWarningKeeps ==
    ASSUME IInv, withdrawWarning
    PROVE  IInv'
<1>1. TypeOK'
  BY TimesAssumption, TimerBoundsAssumption DEF IInv, TypeOK, Row, Times, NoTime, Statements, withdrawWarning, Withdrawn, Then, OnlyRow, sweepVars, ghostVars, presenceVars
<1>2. SweepTime'
  BY TimesAssumption, TimerBoundsAssumption DEF IInv, TypeOK, Row, Times, NoTime, Statements, withdrawWarning, Withdrawn, Then, OnlyRow, sweepVars, ghostVars, presenceVars, SweepTime
<1>3. FreshRows'
  BY TimesAssumption, TimerBoundsAssumption DEF IInv, TypeOK, Row, Times, NoTime, Statements, withdrawWarning, Withdrawn, Then, OnlyRow, sweepVars, ghostVars, presenceVars, FreshRows, SweepTime
<1>4. HeldWarningAhead'
  BY TimesAssumption, TimerBoundsAssumption DEF IInv, TypeOK, Row, Times, NoTime, Statements, withdrawWarning, Withdrawn, Then, OnlyRow, sweepVars, ghostVars, presenceVars, HeldWarningAhead
<1>5. CountsFromHold'
  BY TimesAssumption, TimerBoundsAssumption DEF IInv, TypeOK, Row, Times, NoTime, Statements, withdrawWarning, Withdrawn, Then, OnlyRow, sweepVars, ghostVars, presenceVars, CountsFromHold, SweepTime
<1>6. DeadlineOfDisconnected'
  BY TimesAssumption, TimerBoundsAssumption DEF IInv, TypeOK, Row, Times, NoTime, Statements, withdrawWarning, Withdrawn, Then, OnlyRow, sweepVars, ghostVars, presenceVars, DeadlineOfDisconnected, DeadlineRespectsHolds
<1>7. DeadlineRespectsHolds'
  BY TimesAssumption, TimerBoundsAssumption DEF IInv, TypeOK, Row, Times, NoTime, Statements, withdrawWarning, Withdrawn, Then, OnlyRow, sweepVars, ghostVars, presenceVars, DeadlineRespectsHolds, Respects, DeadlineOfDisconnected, CountsFromHold, SweepTime
<1>8. CountedAll'
  BY TimesAssumption, TimerBoundsAssumption DEF IInv, TypeOK, Row, Times, NoTime, Statements, withdrawWarning, Withdrawn, Then, OnlyRow, sweepVars, ghostVars, presenceVars, CountedAll
<1> QED
  BY <1>1, <1>2, <1>3, <1>4, <1>5, <1>6, <1>7, <1>8 DEF IInv

LEMMA WarnReadKeeps ==
    ASSUME IInv, warnRead
    PROVE  IInv'
<1>1. TypeOK'
  <2>1. IdleLongEnough(row) \in BOOLEAN
    BY DEF IdleLongEnough
  <2>2. copy' \in [due : BOOLEAN, deadline : Times, grace : Graces \union {0}]
    BY <2>1 DEF IInv, TypeOK, warnRead
  <2> QED
    BY <2>2 DEF IInv, TypeOK, Statements, warnRead, Then
<1>2. SweepTime'
  BY TimesAssumption, TimerBoundsAssumption DEF IInv, TypeOK, Row, Times, NoTime, Statements, warnRead, IdleLongEnough, Then, OnlyRow, sweepVars, ghostVars, presenceVars, SweepTime
<1>3. FreshRows'
  BY TimesAssumption, TimerBoundsAssumption DEF IInv, TypeOK, Row, Times, NoTime, Statements, warnRead, IdleLongEnough, Then, OnlyRow, sweepVars, ghostVars, presenceVars, FreshRows, SweepTime
<1>4. HeldWarningAhead'
  BY TimesAssumption, TimerBoundsAssumption DEF IInv, TypeOK, Row, Times, NoTime, Statements, warnRead, IdleLongEnough, Then, OnlyRow, sweepVars, ghostVars, presenceVars, HeldWarningAhead
<1>5. CountsFromHold'
  BY TimesAssumption, TimerBoundsAssumption DEF IInv, TypeOK, Row, Times, NoTime, Statements, warnRead, IdleLongEnough, Then, OnlyRow, sweepVars, ghostVars, presenceVars, CountsFromHold, SweepTime
<1>6. DeadlineOfDisconnected'
  BY TimesAssumption, TimerBoundsAssumption DEF IInv, TypeOK, Row, Times, NoTime, Statements, warnRead, IdleLongEnough, Then, OnlyRow, sweepVars, ghostVars, presenceVars, DeadlineOfDisconnected, DeadlineRespectsHolds
<1>7. DeadlineRespectsHolds'
  BY TimesAssumption, TimerBoundsAssumption DEF IInv, TypeOK, Row, Times, NoTime, Statements, warnRead, IdleLongEnough, Then, OnlyRow, sweepVars, ghostVars, presenceVars, DeadlineRespectsHolds, Respects, DeadlineOfDisconnected, CountsFromHold, SweepTime
<1>8. CountedAll'
  BY TimesAssumption, TimerBoundsAssumption DEF IInv, TypeOK, Row, Times, NoTime, Statements, warnRead, IdleLongEnough, Then, OnlyRow, sweepVars, ghostVars, presenceVars, CountedAll
<1> QED
  BY <1>1, <1>2, <1>3, <1>4, <1>5, <1>6, <1>7, <1>8 DEF IInv

LEMMA WarnWriteKeeps ==
    ASSUME IInv, warnWrite
    PROVE  IInv'
<1>1. TypeOK'
  BY TimesAssumption, TimerBoundsAssumption DEF IInv, TypeOK, Row, Times, NoTime, Statements, warnWrite, Then, OnlyRow, sweepVars, ghostVars, presenceVars
<1>2. SweepTime'
  BY TimesAssumption, TimerBoundsAssumption DEF IInv, TypeOK, Row, Times, NoTime, Statements, warnWrite, Then, OnlyRow, sweepVars, ghostVars, presenceVars, SweepTime
<1>3. FreshRows'
  BY TimesAssumption, TimerBoundsAssumption DEF IInv, TypeOK, Row, Times, NoTime, Statements, warnWrite, Then, OnlyRow, sweepVars, ghostVars, presenceVars, FreshRows, SweepTime
<1>4. HeldWarningAhead'
  BY TimesAssumption, TimerBoundsAssumption DEF IInv, TypeOK, Row, Times, NoTime, Statements, warnWrite, Then, OnlyRow, sweepVars, ghostVars, presenceVars, HeldWarningAhead
<1>5. CountsFromHold'
  BY TimesAssumption, TimerBoundsAssumption DEF IInv, TypeOK, Row, Times, NoTime, Statements, warnWrite, Then, OnlyRow, sweepVars, ghostVars, presenceVars, CountsFromHold, SweepTime
<1>6. DeadlineOfDisconnected'
  BY TimesAssumption, TimerBoundsAssumption DEF IInv, TypeOK, Row, Times, NoTime, Statements, warnWrite, Then, OnlyRow, sweepVars, ghostVars, presenceVars, DeadlineOfDisconnected, DeadlineRespectsHolds
<1>7. DeadlineRespectsHolds'
  BY TimesAssumption, TimerBoundsAssumption DEF IInv, TypeOK, Row, Times, NoTime, Statements, warnWrite, Then, OnlyRow, sweepVars, ghostVars, presenceVars, DeadlineRespectsHolds, Respects, DeadlineOfDisconnected, CountsFromHold, SweepTime
<1>8. CountedAll'
  BY TimesAssumption, TimerBoundsAssumption DEF IInv, TypeOK, Row, Times, NoTime, Statements, warnWrite, Then, OnlyRow, sweepVars, ghostVars, presenceVars, CountedAll
<1> QED
  BY <1>1, <1>2, <1>3, <1>4, <1>5, <1>6, <1>7, <1>8 DEF IInv

LEMMA StopIdleKeeps ==
    ASSUME IInv, stopIdle
    PROVE  IInv'
<1>1. TypeOK'
  <2>1. pc' \in Statements /\ copy' \in [due : BOOLEAN, deadline : Times, grace : Graces \union {0}]
    BY DEF IInv, TypeOK, Times, NoTime, Statements, stopIdle, NoSweep, NoCopy, Then
  <2>2. state' \in {"running", "stopping", "stopped"} /\ desired' \in {"running", "stopped"}
    BY DEF IInv, TypeOK, stopIdle, IdleDue
  <2> QED
    BY <2>1, <2>2 DEF IInv, TypeOK, stopIdle, NoSweep, Then, presenceVars
<1>2. SweepTime'
  BY TimesAssumption, TimerBoundsAssumption DEF IInv, TypeOK, Row, Times, NoTime, Statements, stopIdle, IdleDue, NoSweep, NoCopy, Then, OnlyRow, sweepVars, ghostVars, presenceVars, SweepTime
<1>3. FreshRows'
  BY TimesAssumption, TimerBoundsAssumption DEF IInv, TypeOK, Row, Times, NoTime, Statements, stopIdle, IdleDue, NoSweep, NoCopy, Then, OnlyRow, sweepVars, ghostVars, presenceVars, FreshRows, SweepTime
<1>4. HeldWarningAhead'
  BY TimesAssumption, TimerBoundsAssumption DEF IInv, TypeOK, Row, Times, NoTime, Statements, stopIdle, IdleDue, NoSweep, NoCopy, Then, OnlyRow, sweepVars, ghostVars, presenceVars, HeldWarningAhead
<1>5. CountsFromHold'
  BY TimesAssumption, TimerBoundsAssumption DEF IInv, TypeOK, Row, Times, NoTime, Statements, stopIdle, IdleDue, NoSweep, NoCopy, Then, OnlyRow, sweepVars, ghostVars, presenceVars, CountsFromHold, SweepTime
<1>6. DeadlineOfDisconnected'
  BY TimesAssumption, TimerBoundsAssumption DEF IInv, TypeOK, Row, Times, NoTime, Statements, stopIdle, IdleDue, NoSweep, NoCopy, Then, OnlyRow, sweepVars, ghostVars, presenceVars, DeadlineOfDisconnected, DeadlineRespectsHolds
<1>7. DeadlineRespectsHolds'
  BY TimesAssumption, TimerBoundsAssumption DEF IInv, TypeOK, Row, Times, NoTime, Statements, stopIdle, IdleDue, NoSweep, NoCopy, Then, OnlyRow, sweepVars, ghostVars, presenceVars, DeadlineRespectsHolds, Respects, DeadlineOfDisconnected, CountsFromHold, SweepTime
<1>8. CountedAll'
  BY TimesAssumption, TimerBoundsAssumption DEF IInv, TypeOK, Row, Times, NoTime, Statements, stopIdle, IdleDue, NoSweep, NoCopy, Then, OnlyRow, sweepVars, ghostVars, presenceVars, CountedAll
<1> QED
  BY <1>1, <1>2, <1>3, <1>4, <1>5, <1>6, <1>7, <1>8 DEF IInv

-----------------------------------------------------------------------------
LEMMA NextKeeps ==
    ASSUME IInv, [Next]_vars
    PROVE  IInv'
<1>1. CASE Sweep
  BY <1>1, ExpireConnectionsKeeps, SettleOffKeeps, SettleCutKeeps,
     SettleExpiredKeeps, StampDisconnectedKeeps, ClearConnectedKeeps,
     RecomputeReadKeeps, RecomputeWriteKeeps, CountConnectionsKeeps,
     StopAfterGraceKeeps,
     WithdrawWarningKeeps, WarnReadKeeps, WarnWriteKeeps, StopIdleKeeps
  DEF Sweep
<1>2. CASE People
  BY <1>2, OpenSocketKeeps, CloseSocketKeeps, ActivityKeeps, SetHoldKeeps,
     EndHoldKeeps, ChangeSettingsKeeps, WorkerRestartsKeeps
  DEF People
<1>3. CASE Tick \/ StopEnds \/ Starts \/ \E s \in Sockets : Heartbeat(s)
  BY <1>3, TickKeeps, StopEndsKeeps, StartsKeeps, HeartbeatKeeps
<1>4. CASE UNCHANGED vars
  BY <1>4 DEF vars, sweepVars, ghostVars, IInv, TypeOK, SweepTime, FreshRows,
     HeldWarningAhead, CountsFromHold, DeadlineOfDisconnected,
     DeadlineRespectsHolds, Respects, CountedAll
<1> QED
  BY <1>1, <1>2, <1>3, <1>4 DEF Next

(* The invariant the theorems rest on, the types among it. *)
THEOREM TimersInvariant == Spec => []IInv
<1>1. Init => IInv
  BY InitInv
<1>2. IInv /\ [Next]_vars => IInv'
  BY NextKeeps
<1> QED
  BY <1>1, <1>2, PTL DEF Spec

(* The clocks have their types, whatever is done to them. *)
THEOREM TimersTyped == Spec => []TypeOK
<1>1. IInv => TypeOK
  BY DEF IInv
<1> QED
  BY <1>1, TimersInvariant, PTL

(* Only two statements of a sweep stop a running workspace here. *)
LEMMA GraceStop ==
    ASSUME IInv, [Next]_vars, Stops("grace")
    PROVE  stopAfterGrace /\ copy.due /\ DeadlinePassed
BY DEF Stops, Next, Sweep, People, vars, Tick, OpenSocket, CloseSocket, Heartbeat,
   Activity, SetHold, EndHold, ChangeSettings, WorkerRestarts, StopEnds, Starts,
   expireConnections, settleOff, settleCut, settleExpired, stampDisconnected,
   clearConnected, recomputeRead, recomputeWrite, countConnections, stopAfterGrace,
   withdrawWarning, warnRead, warnWrite, stopIdle

LEMMA IdleStop ==
    ASSUME IInv, [Next]_vars, Stops("idle")
    PROVE  stopIdle /\ IdleDue
BY DEF Stops, Next, Sweep, People, vars, Tick, OpenSocket, CloseSocket, Heartbeat,
   Activity, SetHold, EndHold, ChangeSettings, WorkerRestarts, StopEnds, Starts,
   expireConnections, settleOff, settleCut, settleExpired, stampDisconnected,
   clearConnected, recomputeRead, recomputeWrite, countConnections, stopAfterGrace,
   withdrawWarning, warnRead, warnWrite, stopIdle

(* The grace period spares a workspace whose browser was never silent for
   longer than the presence TTL and was there when the stop counted, with any
   number of sockets. *)
THEOREM SteadySockets == Spec => SteadySocketHoldsUp
<1>1. IInv /\ [Next]_vars
        => (Stops("grace")
              => \A s \in Sockets : socket[s] /\ steady[s] => s \in lateSockets)
  BY GraceStop DEF Stops, IInv, CountedAll
<1> QED
  BY <1>1, TimersInvariant, PTL DEF Spec, SteadySocketHoldsUp

(* A hold that the sweep could read keeps the workspace from a grace stop. *)
THEOREM SeenHold == Spec => SeenHoldHoldsUp
<1>1. IInv /\ [Next]_vars => (Stops("grace") /\ ~lateHold => row.until = NoTime)
  BY GraceStop DEF Stops, DeadlinePassed, IInv, DeadlineRespectsHolds, Respects
<1> QED
  BY <1>1, TimersInvariant, PTL DEF Spec, SeenHoldHoldsUp

(* The end of a hold starts the grace period again. *)
THEOREM GraceAfterHold == Spec => GraceRestartsAtHoldEnd
<1>1. IInv /\ [Next]_vars
        => (Stops("grace") /\ heldTo # NoTime /\ ~lateHold
              => sweepAt + MaxSweep >= heldTo + copy.grace)
  <2> SUFFICES ASSUME IInv, [Next]_vars, Stops("grace"), heldTo # NoTime, ~lateHold
               PROVE  sweepAt + MaxSweep >= heldTo + copy.grace
    OBVIOUS
  <2>1. row.deadline # NoTime /\ row.deadline <= sweepAt
    BY GraceStop DEF DeadlinePassed
  <2>2. row.deadline + MaxSweep >= heldTo + copy.grace
    BY <2>1 DEF Stops, IInv, DeadlineRespectsHolds, Respects
  <2>3. row.deadline \in Int /\ sweepAt \in Int /\ MaxSweep \in Int
          /\ heldTo \in Int /\ copy.grace \in Int
    <3>1. copy.grace \in Nat
      <4>1. CASE copy.grace \in Graces
        BY <4>1, TimesAssumption
      <4>2. CASE copy.grace = 0
        BY <4>2
      <4> QED
        BY <4>1, <4>2 DEF IInv, TypeOK
    <3>2. MaxSweep \in Nat
      BY TimerBoundsAssumption
    <3>3. row \in Row /\ heldTo \in Times /\ sweepAt \in Nat
      BY DEF IInv, TypeOK
    <3> QED
      BY <3>1, <3>2, <3>3 DEF Row, Times, NoTime
  <2> QED
    BY <2>1, <2>2, <2>3
<1> QED
  BY <1>1, TimersInvariant, PTL DEF Spec, GraceRestartsAtHoldEnd

(* A held workspace is never stopped for being idle, whatever stale copy the
   warning was written from. *)
THEOREM HeldNotIdle == Spec => HeldNotIdleStopped
<1>1. IInv /\ [Next]_vars => (Stops("idle") => row.until = NoTime)
  BY IdleStop DEF Stops, IdleDue, IInv, HeldWarningAhead, TypeOK, Row, Times, NoTime
<1> QED
  BY <1>1, TimersInvariant, PTL DEF Spec, HeldNotIdleStopped

-----------------------------------------------------------------------------
(* The idle warning and what the owner did last.  Activity that is written
   clears a warning, so a warning is newer than the last write, less a sweep;
   activity that is dropped follows that write within the write interval. *)
WarningIsNewer ==
    /\ acted <= now /\ lastWrite <= now
    /\ row.idleStop # NoTime =>
          /\ row.idleStop + MaxSweep >= lastWrite + Warning
          /\ row.idleStop + WriteInterval + MaxSweep >= acted + Warning

(* The warning is as it was, or gone; nobody acted. *)
Unwarned ==
    /\ row'.idleStop \in {row.idleStop, NoTime}
    /\ UNCHANGED <<acted, lastWrite>>
    /\ now' \in {now, now + 1}

LEMMA TimerTypes ==
    ASSUME IInv
    PROVE  /\ now \in Nat /\ acted \in Nat /\ sweepAt \in Nat
           /\ lastWrite \in Int /\ row.idleStop \in Int /\ row \in Row
           /\ MaxSweep \in Nat /\ Warning \in Nat /\ WriteInterval \in Nat
BY TimesAssumption, TimerBoundsAssumption DEF IInv, TypeOK, Row, Times, NoTime

LEMMA UnwarnedKeeps ==
    ASSUME IInv, WarningIsNewer, Unwarned
    PROVE  WarningIsNewer'
BY TimerTypes DEF WarningIsNewer, Unwarned, NoTime

LEMMA SweepWarns ==
    ASSUME IInv, WarningIsNewer, Sweep
    PROVE  WarningIsNewer'
<1>0. UNCHANGED <<acted, lastWrite, now>>
  BY DEF Sweep, expireConnections, settleOff, settleCut, settleExpired, stampDisconnected,
     clearConnected, recomputeRead, recomputeWrite, countConnections, stopAfterGrace, withdrawWarning, warnRead,
     warnWrite, stopIdle, Then
<1>1. CASE expireConnections \/ recomputeRead \/ countConnections \/ stopAfterGrace \/ warnRead
           \/ stopIdle
  <2>1. row' = row
    BY <1>1 DEF expireConnections, recomputeRead, countConnections, stopAfterGrace, warnRead,
       stopIdle
  <2> QED
    BY <1>0, <2>1, UnwarnedKeeps DEF Unwarned
<1>2. CASE settleOff \/ settleCut \/ settleExpired \/ stampDisconnected \/ clearConnected
           \/ recomputeWrite \/ withdrawWarning
  <2>1. row'.idleStop \in {row.idleStop, NoTime}
    BY <1>2, TimerTypes DEF Row, settleOff, settleCut, settleExpired, stampDisconnected,
       clearConnected, recomputeWrite, withdrawWarning, HoldOff, HoldExpired
  <2> QED
    BY <1>0, <2>1, UnwarnedKeeps DEF Unwarned
<1>3. CASE warnWrite
  <2>1. row' = row \/ row' = [row EXCEPT !.idleStop = sweepAt + Warning]
    BY <1>3 DEF warnWrite
  <2>2. [row EXCEPT !.idleStop = sweepAt + Warning].idleStop = sweepAt + Warning
    BY TimerTypes DEF Row
  <2>3. now <= sweepAt + MaxSweep
    BY <1>3 DEF warnWrite, IInv, SweepTime
  <2>4. CASE row'.idleStop = sweepAt + Warning
    BY <1>0, <2>3, <2>4, TimerTypes DEF WarningIsNewer
  <2>5. CASE row' = row
    BY <1>0, <2>5, UnwarnedKeeps DEF Unwarned
  <2> QED
    BY <2>1, <2>2, <2>4, <2>5
<1> QED
  BY <1>1, <1>2, <1>3 DEF Sweep

LEMMA OwnerActs ==
    ASSUME IInv, WarningIsNewer,
           Activity \/ EndHold \/ \E ahead \in Holds : SetHold(ahead)
    PROVE  WarningIsNewer'
<1>1. acted' = now /\ now' = now
  BY DEF Activity, EndHold, SetHold
<1>2. CASE Activity /\ Throttled
  <2>1. UNCHANGED <<row, lastWrite>>
    BY <1>2 DEF Activity, recordActivity
  <2>2. now - lastWrite < WriteInterval
    BY <1>2 DEF Throttled
  <2> QED
    BY <1>1, <2>1, <2>2, TimerTypes DEF WarningIsNewer
<1>3. CASE \/ Activity /\ ~Throttled
           \/ EndHold \/ \E ahead \in Holds : SetHold(ahead)
  <2>1. row'.idleStop = NoTime /\ lastWrite' \in {lastWrite, now}
    BY <1>3, TimerTypes DEF Row, Activity, recordActivity, EndHold, SetHold, HoldSet
  <2> QED
    BY <1>1, <2>1, TimerTypes DEF WarningIsNewer
<1> QED
  BY <1>2, <1>3

LEMMA WarningStaysNewer ==
    ASSUME IInv, WarningIsNewer, [Next]_vars
    PROVE  WarningIsNewer'
<1>1. CASE Sweep
  BY <1>1, SweepWarns
<1>2. CASE Activity \/ EndHold \/ \E ahead \in Holds : SetHold(ahead)
  BY <1>2, OwnerActs
<1>3. CASE \/ Tick \/ UNCHANGED vars \/ ChangeSettings \/ WorkerRestarts
           \/ \E s \in Sockets : OpenSocket(s) \/ CloseSocket(s) \/ Heartbeat(s)
  <2>1. Unwarned
    BY <1>3 DEF Unwarned, vars, ghostVars, presenceVars, Tick, ChangeSettings, WorkerRestarts,
       OpenSocket, CloseSocket, Heartbeat
  <2> QED
    BY <2>1, UnwarnedKeeps
<1>4. CASE StopEnds \/ Starts
  <2>1. row'.idleStop = NoTime
    BY <1>4, TimerTypes DEF Row, StopEnds, Starts
  <2>2. Unwarned
    BY <1>4, <2>1 DEF Unwarned, ghostVars, StopEnds, Starts
  <2> QED
    BY <2>2, UnwarnedKeeps
<1> QED
  BY <1>1, <1>2, <1>3, <1>4 DEF Next, People

(* The owner has the warning time between acting and an idle stop, less the
   write interval and a sweep, though the API drops activity that follows a
   write too closely and the warning is written from an older copy. *)
THEOREM IdleStopComesLate == Spec => IdleStopNotRightAfterActivity
<1>1. Init => WarningIsNewer
  BY DEF Init, WarningIsNewer, NoTime
<1>2. IInv /\ WarningIsNewer /\ [Next]_vars => WarningIsNewer'
  BY WarningStaysNewer
<1>3. IInv /\ WarningIsNewer /\ [Next]_vars
        => (Stops("idle") => sweepAt + WriteInterval + MaxSweep >= acted + Warning)
  <2> SUFFICES ASSUME IInv, WarningIsNewer, [Next]_vars, Stops("idle")
               PROVE  sweepAt + WriteInterval + MaxSweep >= acted + Warning
    OBVIOUS
  <2>1. row.idleStop # NoTime /\ row.idleStop <= sweepAt
    BY IdleStop DEF IdleDue
  <2> QED
    BY <2>1, TimerTypes DEF WarningIsNewer
<1> QED
  BY <1>1, <1>2, <1>3, TimersInvariant, PTL DEF Spec, IdleStopNotRightAfterActivity
=============================================================================
