--------------------------- MODULE ResourceGuard ---------------------------
(***************************************************************************)
(* The resource guard of one workspace (ADR 0032): the worker's tick in    *)
(* apps/worker/src/guard.ts, what a stop clears and a start passes on      *)
(* (lifecycle.ts), and the administrator's requests.                       *)
(*                                                                         *)
(* Time is whole sample intervals of GUARD_SAMPLE_SECONDS.  CPU time is in  *)
(* units of which a workspace may use Limit in one interval; a throttled   *)
(* one Share.  An average is compared without dividing.  A tick that does  *)
(* not fail reads the counter at the interval's end; its later steps, each *)
(* between two awaits, interleave with everything else.  Audits and        *)
(* notifications are left out.                                             *)
(***************************************************************************)
EXTENDS Integers, Sequences, FiniteSets

CONSTANT Worlds  \* settings of the site, sizes and bounds, one for each behaviour

Numbers == {"limit", "share", "threshold", "liftBelow", "window", "liftWindow", "holdAfter",
            "holdFor", "retention", "memoryThreshold",
            "maxTime", "maxBoots", "maxMissed", "maxCrashes", "maxAdmin"}

ASSUME WorldsAssumption ==
    \A w \in Worlds :
        /\ \A n \in Numbers : w[n] \in Nat
        /\ w.memories \subseteq 0..100 /\ w.memories # {}
        /\ w.markers \subseteq Nat /\ \E m \in w.markers : m # 0
        /\ w.share <= w.limit /\ w.window < w.retention /\ w.holdFor >= 1

VARIABLE world

Limit == world.limit                      \* CPU units of an interval
Share == world.share                      \* CPU units a throttle leaves
Threshold == world.threshold              \* cpuThresholdPercent, in units per interval
LiftBelow == world.liftBelow              \* cpu_idle_lift_percent, in units per interval
Window == world.window                    \* windowMinutes, in intervals
LiftWindow == world.liftWindow            \* cpu_idle_lift_minutes, in intervals
HoldAfter == world.holdAfter              \* cpu_throttle_hold_after
HoldFor == world.holdFor                  \* cpu_throttle_hold_hours, in intervals
Retention == world.retention              \* SAMPLE_RETENTION_MINUTES, in intervals
Memories == world.memories                \* shares of its memory an instance is seen with, in percent
MemoryThreshold == world.memoryThreshold
NoMarker == 0                             \* a listing without a marker: null
Markers == world.markers \ {NoMarker}     \* boot markers that a boot may have, an old one too
MaxTime == world.maxTime                  \* bounds
MaxBoots == world.maxBoots
MaxMissed == world.maxMissed
MaxCrashes == world.maxCrashes
MaxAdmin == world.maxAdmin

(* Markers are only compared: which of them the first boot has is all one. *)
FirstMarker == CHOOSE m \in Markers : TRUE

VARIABLES
    clock,    \* the interval, and whether its sample is due
    row,      \* workspaces: state, cpu_throttle, memory_flag, cpu_throttle_recent
    samples,  \* workspace_usage_samples
    inst,     \* the instance in Incus; boot is history: which of its boots this is
    tick,     \* the guard's tick
    clear,    \* clearGuardAtStop
    start,    \* the start call: the allowance it carries
    faults,   \* history: missed ticks, crashes and administrators' requests
    seen      \* history: what was really used, and what the throttles were

guardVars == <<world, clock, row, samples, inst, tick, clear, start, faults, seen>>

NoThrottle == [at |-> 0, held |-> FALSE, allow |-> 0]
Idle == [pc |-> "idle", throttle |-> NoThrottle, allowance |-> 0, ns |-> 0, boot |-> 0, marker |-> NoMarker, mem |-> 0,
         total |-> 0, flag |-> FALSE, throttles |-> FALSE, lifts |-> FALSE, anchor |-> 0, clean |-> TRUE]

Throttles == [at : 0..MaxTime, held : BOOLEAN, allow : 0..2]
MaxUse == Limit * (MaxTime + 1)

GuardTypeOK ==
    /\ world \in Worlds
    /\ clock \in [now : 0..MaxTime, due : BOOLEAN]
    /\ row.state \in {"running", "stopping", "stopped", "starting"}
    /\ row.throttle \in Throttles /\ row.flag \in BOOLEAN /\ row.recent \subseteq 0..MaxTime
    /\ \A i \in 1..Len(samples) :
          /\ samples[i].at \in 0..clock.now
          /\ \A j \in 1..i - 1 : samples[j].at < samples[i].at
    /\ Len(samples) <= Retention + 2
    /\ inst \in [on : BOOLEAN, ns : 0..MaxUse, boot : 0..MaxBoots, marker : Markers,
                 allowance : 0..2, used : 0..Limit]
    /\ tick.pc \in {"idle", "usage", "rows", "judged", "sync"}
    /\ clear \in [pc : {"none", "row", "samples"}, at : 0..MaxTime]
    /\ start \in [pc : {"none", "read"}, allow : 0..2]

GuardInit ==
    /\ world \in Worlds
    /\ clock = [now |-> 0, due |-> TRUE]
    /\ row = [state |-> "running", throttle |-> NoThrottle, flag |-> FALSE, recent |-> {}]
    /\ samples = <<>>
    /\ inst = [on |-> TRUE, ns |-> 0, boot |-> 0, marker |-> FirstMarker, allowance |-> 0,
               used |-> 0]
    /\ tick = Idle
    /\ clear = [pc |-> "none", at |-> 0]
    /\ start = [pc |-> "none", allow |-> 0]
    /\ faults = [missed |-> 0, crashes |-> 0, admin |-> 0]
    /\ seen = [total |-> 0, skipped |-> FALSE, throttles |-> {}, ended |-> -1, cut |-> FALSE]

Throttled(r) == r.throttle # NoThrottle

(* Something else than this tick changed the row or the instance. *)
Disturbed == tick' = IF tick.pc = "idle" THEN tick ELSE [tick EXCEPT !.clean = FALSE]

----------------------------------------------------------------------------
(* The workspace: it computes, reboots from inside, and time passes. *)
work ==
    /\ inst.on /\ ~clock.due
    /\ inst.used < IF inst.allowance = 0 THEN Limit ELSE Share
    /\ inst' = [inst EXCEPT !.ns = @ + 1, !.used = @ + 1]
    /\ seen' = [seen EXCEPT !.total = @ + 1]
    /\ UNCHANGED <<world, clock, row, samples, tick, clear, start, faults>>

reboot ==
    /\ inst.on /\ ~clock.due /\ inst.boot < MaxBoots
    /\ \E m \in Markers : inst' = [inst EXCEPT !.ns = 0, !.boot = @ + 1, !.marker = m]
    /\ UNCHANGED <<world, clock, row, samples, tick, clear, start, faults, seen>>

minute ==
    /\ ~clock.due /\ tick.pc = "idle" /\ clock.now < MaxTime
    /\ clock' = [now |-> clock.now + 1, due |-> TRUE]
    /\ inst' = [inst EXCEPT !.used = 0]
    /\ UNCHANGED <<world, row, samples, tick, clear, start, faults, seen>>

----------------------------------------------------------------------------
(* The samples are in the order of their times, so those that a DELETE of the
   older ones leaves are the last. *)
SamplesAfter(t) ==
    SubSeq(samples, Cardinality({i \in 1..Len(samples) : samples[i].at <= t}) + 1, Len(samples))

(* The tick; it ends with the pruning of old samples. *)
Pruned == SamplesAfter(clock.now - Retention - 1)

readUsage ==
    /\ clock.due /\ tick.pc = "idle"
    /\ clock' = [clock EXCEPT !.due = FALSE]
    /\ IF inst.on
       THEN /\ \E mem \in Memories, m \in {inst.marker} \cup (world.markers \ Markers) :
                tick' = [Idle EXCEPT !.pc = "usage", !.allowance = inst.allowance, !.ns = inst.ns,
                                     !.boot = inst.boot, !.marker = m, !.mem = mem,
                                     !.total = seen.total]
            /\ UNCHANGED samples
       ELSE tick' = Idle /\ samples' = Pruned
    /\ UNCHANGED <<world, row, inst, clear, start, faults, seen>>

usageReadFails ==
    /\ clock.due /\ tick.pc = "idle" /\ faults.missed < MaxMissed
    /\ clock' = [clock EXCEPT !.due = FALSE]
    /\ faults' = [faults EXCEPT !.missed = @ + 1]
    /\ seen' = [seen EXCEPT !.skipped = @ \/ inst.on]
    /\ UNCHANGED <<world, row, samples, inst, tick, clear, start>>

(* loadRunning and recordSample. *)
recordSample ==
    /\ tick.pc = "usage"
    /\ IF row.state = "running"
       THEN /\ tick' = [tick EXCEPT !.pc = "rows", !.throttle = row.throttle, !.flag = row.flag]
            /\ samples' = Append(samples,
                  [at |-> clock.now, ns |-> tick.ns, marker |-> tick.marker, mem |-> tick.mem,
                   boot |-> tick.boot, total |-> tick.total, late |-> seen.skipped])
            /\ seen' = [seen EXCEPT !.skipped = FALSE]
       ELSE tick' = Idle /\ seen' = [seen EXCEPT !.skipped = TRUE] /\ samples' = Pruned
    /\ UNCHANGED <<world, clock, row, inst, clear, start, faults>>

(* A boot may have the marker of an earlier one, and a listing may leave the
   marker out: a restart shows only by what this compares. *)
restartedBetween(prev, cur) ==
    \/ NoMarker \notin {prev.marker, cur.marker} /\ prev.marker # cur.marker
    \/ cur.ns < prev.ns

(* What the guard counts between two consecutive samples. *)
PlainUsed(prev, cur) == IF cur.ns < prev.ns THEN cur.ns ELSE cur.ns - prev.ns
Used(prev, cur) ==
    IF restartedBetween(prev, cur)
    THEN cur.ns + (IF cur.at - prev.at < 1 THEN cur.at - prev.at ELSE 1) * Limit
    ELSE cur.ns - prev.ns

(* averageCpu: the CPU time counted since the newest sample at or before
   windowStart and after since; 0 is no such sample. *)
Anchor(since, windowStart) ==
    LET old == {i \in 1..Len(samples) : samples[i].at <= windowStart /\ samples[i].at > since}
    IN  IF old = {} THEN 0 ELSE CHOOSE i \in old : \A j \in old : j <= i

UsedSince == [i \in 1..Len(samples) |->
    LET sum[j \in i..Len(samples)] == IF j = i THEN 0 ELSE sum[j - 1] + Used(samples[j - 1], samples[j])
    IN  sum[Len(samples)]]

Elapsed(i) == clock.now - samples[i].at

(* Quiet: below the lift percentage and below half the share. *)
Quiet(used, elapsed) == 2 * used < (IF Share < 2 * LiftBelow THEN Share ELSE 2 * LiftBelow) * elapsed

LiftDue ==
    LET i == Anchor(tick.throttle.at, clock.now - LiftWindow)
    IN  i # 0 /\ Elapsed(i) > 0 /\ Quiet(UsedSince[i], Elapsed(i))

ThrottleDue ==
    LET i == Anchor(-1, clock.now - Window)
    IN  i # 0 /\ Elapsed(i) > 0 /\ UsedSince[i] > Threshold * Elapsed(i)

(* judgeMemory: the samples of this run within the window. *)
AnyRun(i) == TRUE
ThisRun(i) ==
    \A j \in i + 1..Len(samples) :
        ~restartedBetween(samples[j - 1], samples[j]) /\ samples[j].at - samples[j - 1].at <= 2

MemorySamples == {i \in 1..Len(samples) : samples[i].at > clock.now - Window /\ ThisRun(i)}

MemoryHigh ==
    LET n == Cardinality(MemorySamples)
        sum[i \in 0..Len(samples)] ==
            IF i = 0 THEN 0 ELSE sum[i - 1] + (IF i \in MemorySamples THEN samples[i].mem ELSE 0)
    IN  n # 0 /\ 2 * n >= Window /\ sum[Len(samples)] > MemoryThreshold * n

(* The samples are read and judged: a lift for a throttled row, else a throttle. *)
judge ==
    /\ tick.pc = "rows"
    /\ LET was == tick.throttle # NoThrottle
       IN  tick' = [tick EXCEPT
               !.pc = "judged",
               !.lifts = was /\ LiftDue,
               !.throttles = ~was /\ ThrottleDue,
               !.anchor = IF ~was /\ ThrottleDue
                          THEN samples[Anchor(-1, clock.now - Window)].at ELSE 0,
               !.flag = ~tick.flag /\ MemoryHigh]
    /\ UNCHANGED <<world, clock, row, samples, inst, clear, start, faults, seen>>

(* throttleHold: the times kept, this one included. *)
KeptOneMore == {t \in row.recent : t >= clock.now - HoldFor} \cup {clock.now}
KeptRecent == {t \in row.recent : t > clock.now - HoldFor} \cup {clock.now}

Holds == HoldAfter > 0 /\ Cardinality(KeptRecent) >= HoldAfter

(* What the tick takes the throttle to be after the lift it judged. *)
Remaining(lifted) == IF lifted THEN NoThrottle ELSE tick.throttle

(* The transactions: each tests the row again. *)
decide ==
    /\ tick.pc = "judged"
    /\ LET lifted == tick.lifts /\ row.throttle.at = tick.throttle.at /\ Throttled(row)
           throttled == tick.throttles /\ row.state = "running" /\ ~Throttled(row)
           new == [at |-> clock.now, held |-> Holds, allow |-> 1]
       IN  /\ row' = [row EXCEPT
                  !.throttle = IF lifted THEN NoThrottle ELSE IF throttled THEN new ELSE @,
                  !.recent = IF throttled THEN KeptRecent ELSE @,
                  !.flag = @ \/ (tick.flag /\ row.state = "running")]
           /\ samples' = IF lifted THEN SamplesAfter(tick.throttle.at) ELSE samples
           /\ tick' = [tick EXCEPT !.pc = "sync",
                  !.throttle = IF throttled THEN new ELSE Remaining(lifted)]
           /\ seen' = [seen EXCEPT
                  !.ended = IF lifted THEN tick.throttle.at ELSE @,
                  !.throttles = IF throttled THEN @ \cup {clock.now} ELSE @]
    /\ UNCHANGED <<world, clock, inst, clear, start, faults>>

(* syncAllowance. *)
Wanted == tick.throttle.allow

syncAllowance ==
    /\ tick.pc = "sync"
    /\ inst' = [inst EXCEPT !.allowance = IF tick.allowance = Wanted THEN @ ELSE Wanted]
    /\ samples' = Pruned
    /\ tick' = Idle
    /\ UNCHANGED <<world, clock, row, clear, start, faults, seen>>

syncFails ==
    /\ tick.pc = "sync" /\ tick.allowance # Wanted /\ faults.missed < MaxMissed
    /\ faults' = [faults EXCEPT !.missed = @ + 1]
    /\ samples' = Pruned
    /\ tick' = Idle
    /\ UNCHANGED <<world, clock, row, inst, clear, start, seen>>

----------------------------------------------------------------------------
(* A stop, and a start. *)
beginStop ==
    /\ row.state = "running"
    /\ row' = [row EXCEPT !.state = "stopping"] /\ Disturbed
    /\ UNCHANGED <<world, clock, samples, inst, clear, start, faults, seen>>

instanceStops ==
    /\ inst.on /\ row.state = "stopping"
    /\ inst' = [inst EXCEPT !.on = FALSE] /\ Disturbed
    /\ UNCHANGED <<world, clock, row, samples, clear, start, faults, seen>>

stopRecorded ==
    /\ row.state = "stopping" /\ ~inst.on
    /\ row' = [row EXCEPT !.state = "stopped"] /\ Disturbed
    /\ clear' = [pc |-> "row", at |-> 0]
    /\ UNCHANGED <<world, clock, samples, inst, start, faults, seen>>

Clears(r) == ~r.throttle.held

clearGuardAtStop ==
    /\ clear.pc = "row" /\ Disturbed
    /\ LET lifts == Throttled(row) /\ Clears(row)
       IN  /\ row' = [row EXCEPT !.flag = FALSE, !.throttle = IF lifts THEN NoThrottle ELSE @]
           /\ clear' = IF lifts THEN [pc |-> "samples", at |-> row.throttle.at]
                       ELSE [pc |-> "none", at |-> 0]
           /\ seen' = [seen EXCEPT !.ended = IF lifts THEN row.throttle.at ELSE @]
    /\ UNCHANGED <<world, clock, samples, inst, start, faults>>

ForgetsNothing(t) == samples
FreshStart(t) == SamplesAfter(t)

clearSamples ==
    /\ clear.pc = "samples" /\ Disturbed
    /\ samples' = FreshStart(clear.at)
    /\ clear' = [pc |-> "none", at |-> 0]
    /\ UNCHANGED <<world, clock, row, inst, start, faults, seen>>

(* The start reads heldAllowance and the controller sets it before the
   instance runs. *)
heldAllowance == IF row.throttle.held THEN row.throttle.allow ELSE 0

beginStart ==
    /\ row.state \in {"stopped", "starting"} /\ clear.pc = "none" /\ start.pc = "none"
    /\ inst.boot < MaxBoots
    /\ row' = [row EXCEPT !.state = "starting"] /\ Disturbed
    /\ start' = [pc |-> "read", allow |-> heldAllowance]
    /\ UNCHANGED <<world, clock, samples, inst, clear, faults, seen>>

startInstance ==
    /\ start.pc = "read" /\ Disturbed
    /\ \E m \in Markers :
          inst' = [inst EXCEPT !.on = TRUE, !.ns = 0, !.boot = @ + 1, !.marker = m,
                               !.allowance = start.allow]
    /\ row' = [row EXCEPT !.state = "running"]
    /\ start' = [pc |-> "none", allow |-> 0]
    /\ UNCHANGED <<world, clock, samples, clear, faults, seen>>

----------------------------------------------------------------------------
(* The administrator. *)
Asks == /\ faults.admin < MaxAdmin /\ faults' = [faults EXCEPT !.admin = @ + 1] /\ Disturbed

liftThrottle ==
    /\ Asks /\ Throttled(row)
    /\ row' = [row EXCEPT !.throttle = NoThrottle]
    /\ samples' = <<>>
    /\ seen' = [seen EXCEPT !.ended = row.throttle.at]
    /\ UNCHANGED <<world, clock, inst, clear, start>>

clearMemoryFlag ==
    /\ Asks /\ row.flag
    /\ row' = [row EXCEPT !.flag = FALSE]
    /\ samples' = <<>>
    /\ UNCHANGED <<world, clock, inst, clear, start, seen>>

(* Other limits: the slice of a throttle follows the CPU count. *)
setLimits ==
    /\ Asks /\ Throttled(row)
    /\ row' = [row EXCEPT !.throttle.allow = 3 - @]
    /\ UNCHANGED <<world, clock, samples, inst, clear, start, seen>>

(* The worker dies and another starts: a tick, a clearing and a start call are
   lost; the start is made again. *)
workerCrash ==
    /\ faults.crashes < MaxCrashes
    /\ (tick.pc # "idle" \/ clear.pc # "none" \/ start.pc # "none")
    /\ faults' = [faults EXCEPT !.crashes = @ + 1]
    /\ tick' = Idle /\ clear' = [pc |-> "none", at |-> 0] /\ start' = [pc |-> "none", allow |-> 0]
    /\ seen' = [seen EXCEPT !.skipped = @ \/ tick.pc = "usage",
                            !.cut = @ \/ clear.pc = "samples"]
    /\ UNCHANGED <<world, clock, row, samples, inst>>

----------------------------------------------------------------------------
GuardNext ==
    \/ work \/ reboot \/ minute
    \/ readUsage \/ usageReadFails \/ recordSample \/ judge \/ decide
    \/ syncAllowance \/ syncFails
    \/ beginStop \/ instanceStops \/ stopRecorded \/ clearGuardAtStop \/ clearSamples
    \/ beginStart \/ startInstance
    \/ liftThrottle \/ clearMemoryFlag \/ setLimits \/ workerCrash

GuardSpec == GuardInit /\ [][GuardNext]_guardVars

----------------------------------------------------------------------------
(* A restart between two samples shows when the two differ in what the guard
   compares: two markers, or a counter that went down. *)
RestartShows(prev, cur) == prev.boot # cur.boot => restartedBetween(prev, cur)
RestartsShow == \A j \in 2..Len(samples) : RestartShows(samples[j - 1], samples[j])

(* No boot since sample i went without a sample, and no end of an interval by
   unsampled while the instance ran. *)
Sampled(i) ==
    \A j \in i + 1..Len(samples) :
        ~samples[j].late /\ samples[j].boot <= samples[j - 1].boot + 1
Followed(i) ==
    \A j \in i + 1..Len(samples) :
        /\ ~samples[j].late /\ samples[j].boot <= samples[j - 1].boot + 1
        /\ RestartShows(samples[j - 1], samples[j])

Counts(i) == UsedSince[i] >= samples[Len(samples)].total - samples[i].total

(* A reboot or a restart that shows hides nothing: what the guard counts since
   a sample is at least what was used since (guard.ts, averageCpu), however
   many missed ticks, stops and starts came before.  One that does not show
   may hide use: see the README's divergences. *)
NeverHides == \A i \in 1..Len(samples) : Followed(i) => Counts(i)

(* A throttle is held exactly when it is at least the HoldAfter-th of the
   hold period, whatever lifts and stops came between. *)
HeldExactly ==
    Throttled(row) =>
        (row.throttle.held <=>
            /\ HoldAfter > 0
            /\ Cardinality({t \in seen.throttles : t <= row.throttle.at
                                                   /\ t > row.throttle.at - HoldFor}) >= HoldAfter)

(* After a lift, or a stop that cleared the throttle, the next throttle counts
   no use from before the one that ended (judgeLift, clearGuardAtStop,
   lift-throttle).  A worker that dies between the clearing of a throttle and
   the deletion of its samples may break it: see the README's divergences. *)
ThrottleIsFresh ==
    [][(~Throttled(row) /\ Throttled(row)') => seen.cut \/ tick.anchor > seen.ended]_guardVars

(* The memory flag is about the run that it is set in: when every restart among
   the samples shows, half a window of them at least is of the boot that the
   tick read (judgeMemory).  A restart that does not show lets samples of an
   earlier run count: see the README's divergences. *)
OfThisRun == 2 * Cardinality({i \in 1..Len(samples) : samples[i].boot = tick.boot}) >= Window
FlagOfThisRun ==
    [][(~row.flag /\ row'.flag /\ tick.clean /\ RestartsShow) => OfThisRun]_guardVars

(* "A stop lifts a throttle" unless it is held (lifecycle.ts, clearGuardAtStop):
   a worker that dies between the record of the stop and the clearing leaves
   it, see the README's divergences. *)
StopLifts ==
    (row.state = "stopped" /\ clear.pc = "none" /\ Throttled(row)) => row.throttle.held

(* The same of every throttle: the samples are deleted after the throttle is
   cleared, and a worker that dies in between leaves them. *)
AlwaysFresh ==
    [][(~Throttled(row) /\ Throttled(row)') => tick.anchor > seen.ended]_guardVars

(* "a reboot from inside the workspace must not hide what ran before it"
   (guard.ts, judgeCpu), whatever the markers say. *)
RebootNeverHides == \A i \in 1..Len(samples) : Sampled(i) => Counts(i)

(* "only samples since the latest restart count, and at least half a window of
   them is needed" (guard.ts, judgeMemory), whatever the markers say. *)
OnlySinceTheRestart == [][(~row.flag /\ row'.flag /\ tick.clean) => OfThisRun]_guardVars
=============================================================================
