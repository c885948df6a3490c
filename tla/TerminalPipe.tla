---------------------------- MODULE TerminalPipe ----------------------------
(***************************************************************************)
(* One terminal socket in the API: the upgrade route and pipeTerminal      *)
(* (apps/api/src/routes/terminals.ts, workspaces/terminal-pipe.ts), between *)
(* the browser's socket and the workspace agent's.                         *)
(*                                                                         *)
(* Grain: one event handler, or the part of an async function between two  *)
(* awaits.  The browser and the agent act at any time: frames, closes,     *)
(* failures, and the agent's last word that the terminal ended.  A socket  *)
(* the API closes goes on delivering frames until its close event.         *)
(* Presence refresh is in ShutdownTimers.                                  *)
(***************************************************************************)
EXTENDS Integers

CONSTANTS
    MaxFrames,  \* bound: frames the browser sends
    MaxQueued   \* MAX_QUEUED_BYTES in frames

ASSUME FramesAssumption == MaxFrames \in Nat /\ MaxQueued \in Nat

VARIABLES
    pc,        \* the route and the promise of pipeTerminal
    slot,      \* the user's terminal-socket slot
    row,       \* the presence row
    browser,   \* the browser socket: its state, who closed it, reading paused
    upstream,  \* the agent socket: its state, reading paused
    stopped,   \* inputStopped
    queued,    \* how many frames are held while the agent socket connects
    ending,    \* the agent's last word has come
    explain,   \* explaining: the lookup of why the terminal is gone
    check,     \* sessionStillValid under way
    allowed,   \* whether the sign-in (and live help) still allow this socket
    sent,      \* history: how many frames the browser sent
    told       \* history: the browser got the terminal's last word

pipeVars == <<pc, slot, row, browser, upstream, stopped, queued, ending, explain, check, allowed,
          sent, told>>

SocketStates == {"connecting", "open", "closing", "closed"}

PipeTypeOK ==
    /\ pc \in {"start", "presence", "piping", "dropping", "over"}
    /\ slot \in BOOLEAN /\ row \in BOOLEAN /\ allowed \in BOOLEAN
    /\ browser \in [state : SocketStates \ {"connecting"}, by : {"none", "peer", "api", "agent"},
                    paused : BOOLEAN]
    /\ upstream \in [state : SocketStates, paused : BOOLEAN]
    /\ stopped \in BOOLEAN /\ ending \in BOOLEAN /\ told \in BOOLEAN
    /\ queued \in 0..MaxQueued
    /\ explain \in {"none", "looking", "done"}
    /\ check \in {"none", "loading"}
    /\ sent \in 0..MaxFrames

PipeInit ==
    /\ pc = "start" /\ slot = FALSE /\ row = FALSE /\ allowed = TRUE
    /\ browser = [state |-> "open", by |-> "none", paused |-> FALSE]
    /\ upstream = [state |-> "connecting", paused |-> FALSE]
    /\ stopped = FALSE /\ ending = FALSE /\ told = FALSE
    /\ queued = 0 /\ explain = "none" /\ check = "none" /\ sent = 0

Piping == pc = "piping"

Closing(s) == IF s.state \in {"open", "connecting"} THEN [s EXCEPT !.state = "closing"] ELSE s
ClosedBy(b, who) == IF b.state = "open" THEN [b EXCEPT !.state = "closing", !.by = who] ELSE b

----------------------------------------------------------------------------
(* The route: the slot, then the presence row. *)
pipeUnchanged == UNCHANGED <<stopped, queued, ending, explain, check, sent, told>>

takeSlot ==
    /\ pc = "start"
    /\ pc' = "presence" /\ slot' = TRUE
    /\ UNCHANGED <<row, browser, upstream, allowed>> /\ pipeUnchanged

(* No agent to reach, or too many terminal sockets of this user. *)
slotRefused ==
    /\ pc = "start"
    /\ pc' = "over" /\ browser' = ClosedBy(browser, "api")
    /\ UNCHANGED <<slot, row, upstream, allowed>> /\ pipeUnchanged

openPresence ==
    /\ pc = "presence"
    /\ row' = TRUE
    /\ IF browser.state = "open" THEN pc' = "piping" /\ UNCHANGED slot
       ELSE pc' = "dropping" /\ slot' = FALSE
    /\ UNCHANGED <<browser, upstream, allowed>> /\ pipeUnchanged

(* The insert fails, or its answer is lost. *)
presenceFails ==
    /\ pc = "presence"
    /\ pc' = "over" /\ slot' = FALSE /\ row' \in BOOLEAN
    /\ browser' = ClosedBy(browser, "api")
    /\ UNCHANGED <<upstream, allowed>> /\ pipeUnchanged

(* What is left when the pipe is done; a failed delete is only logged. *)
dropPresence ==
    /\ pc = "dropping"
    /\ pc' = "over" /\ row' \in {FALSE, row} /\ slot' = FALSE
    /\ UNCHANGED <<browser, upstream, allowed>> /\ pipeUnchanged

(* The worker's sweep expires a row that nothing refreshes. *)
rowExpires ==
    /\ pc = "over" /\ row
    /\ row' = FALSE
    /\ UNCHANGED <<pc, slot, browser, upstream, allowed>> /\ pipeUnchanged

----------------------------------------------------------------------------
(* endBrowser: input stops, the queue goes, both sockets are closed. *)
endBrowser(who) ==
    /\ stopped' = TRUE /\ queued' = 0
    /\ upstream' = Closing(upstream)
    /\ browser' = ClosedBy(browser, who)

(* finish: once, and with it both backpressures are cancelled. *)
Cancelled(s) == [s EXCEPT !.paused = FALSE]

finish(b, u) ==
    /\ browser' = Cancelled(b) /\ upstream' = Cancelled(u)
    /\ pc' = "dropping"

----------------------------------------------------------------------------
(* The browser. *)
MayQueue == queued < MaxQueued

QueueFull == endBrowser("api")

(* A frame: dropped after the end, sent, held, or one too many. *)
onMessage ==
    /\ Piping /\ ~browser.paused /\ sent < MaxFrames
    /\ browser.state = "open" \/ (browser.state = "closing" /\ browser.by # "peer")
    /\ sent' = sent + 1
    /\ CASE stopped \/ upstream.state \in {"closing", "closed"} ->
              UNCHANGED <<queued, stopped, upstream, browser>>
         [] ~stopped /\ upstream.state = "open" ->
              /\ \E full \in BOOLEAN : browser' = [browser EXCEPT !.paused = full]
              /\ UNCHANGED <<queued, stopped, upstream>>
         [] ~stopped /\ upstream.state = "connecting" /\ MayQueue ->
              /\ queued' = queued + 1
              /\ UNCHANGED <<stopped, upstream, browser>>
         [] OTHER -> QueueFull
    /\ UNCHANGED <<pc, slot, row, ending, explain, check, allowed, told>>

(* A paused socket does not read its peer's close. *)
browserCloses ==
    /\ browser.state = "open" /\ ~browser.paused
    /\ browser' = ClosedBy(browser, "peer")
    /\ UNCHANGED <<pc, slot, row, upstream, allowed>> /\ pipeUnchanged

(* Its close event, or its error; also the 30 s limit on a close handshake. *)
onBrowserClose ==
    /\ browser.state = "closing"
    /\ IF Piping THEN finish([browser EXCEPT !.state = "closed"], Closing(upstream))
       ELSE browser' = [browser EXCEPT !.state = "closed"] /\ UNCHANGED <<pc, upstream>>
    /\ UNCHANGED <<slot, row, allowed>> /\ pipeUnchanged

----------------------------------------------------------------------------
(* The agent. *)
onUpstreamOpen ==
    /\ Piping /\ upstream.state = "connecting"
    /\ upstream' = [upstream EXCEPT !.state = "open"]
    /\ queued' = 0
    /\ UNCHANGED <<pc, slot, row, browser, stopped, ending, explain, check, allowed, sent, told>>

Speaks == Piping /\ upstream.state \in {"open", "closing"} /\ ~upstream.paused

(* Output: ignored for a browser that is going, an end for an agent that goes
   on after its last word, and otherwise passed on under backpressure. *)
onOutput ==
    /\ Speaks /\ browser.state = "open"
    /\ IF ending THEN upstream' = Closing(upstream)
       ELSE \E full \in BOOLEAN : upstream' = [upstream EXCEPT !.paused = full]
    /\ UNCHANGED <<pc, slot, row, browser, allowed>> /\ pipeUnchanged

(* The shell exited: told at once. *)
onExit ==
    /\ Speaks /\ browser.state = "open" /\ ~ending
    /\ ending' = TRUE /\ told' = TRUE
    /\ UNCHANGED <<pc, slot, row, browser, upstream, stopped, queued, explain, check, allowed,
                   sent>>

(* The session or its server is gone: told once the reason is looked up. *)
onGone ==
    /\ Speaks /\ browser.state = "open" /\ ~ending
    /\ ending' = TRUE /\ explain' = "looking"
    /\ UNCHANGED <<pc, slot, row, browser, upstream, stopped, queued, check, allowed, sent,
                   told>>

(* explainedFrame: with the record, or at the deadline without it. *)
ExplainsIfRecorded == FALSE
ExplainEnds == TRUE

explained ==
    /\ explain = "looking" /\ ExplainEnds
    /\ explain' = "done"
    /\ told' = (told \/ browser.state = "open")
    /\ UNCHANGED <<pc, slot, row, browser, upstream, stopped, queued, ending, check, allowed, sent>>

agentCloses ==
    /\ Piping /\ upstream.state = "open" /\ ~upstream.paused
    /\ upstream' = Closing(upstream)
    /\ UNCHANGED <<pc, slot, row, browser, allowed>> /\ pipeUnchanged

(* The agent's close event, which waits for an explanation under way. *)
ClosesAtOnce == TRUE
MayClose == explain # "looking"

onUpstreamClose ==
    /\ Piping /\ upstream.state = "closing" /\ MayClose
    /\ finish(ClosedBy(browser, "agent"), [upstream EXCEPT !.state = "closed"])
    /\ UNCHANGED <<slot, row, allowed>> /\ pipeUnchanged

(* A connection that fails, or is cut off while connecting. *)
onUpstreamError ==
    /\ Piping /\ upstream.state # "closed"
    /\ finish(ClosedBy(browser, "api"), [upstream EXCEPT !.state = "closed"])
    /\ UNCHANGED <<slot, row, allowed>> /\ pipeUnchanged

(* An agent socket that the pipe left behind closes. *)
upstreamGoes ==
    /\ ~Piping /\ upstream.state = "closing"
    /\ upstream' = [upstream EXCEPT !.state = "closed"]
    /\ UNCHANGED <<pc, slot, row, browser, allowed>> /\ pipeUnchanged

----------------------------------------------------------------------------
(* Backpressure: the poll that runs while a side is paused. *)
drained ==
    /\ Piping /\ (browser.paused \/ upstream.paused)
    /\ \/ browser.paused /\ browser' = Cancelled(browser) /\ UNCHANGED upstream
       \/ upstream.paused /\ upstream' = Cancelled(upstream) /\ UNCHANGED browser
    /\ UNCHANGED <<pc, slot, row, allowed>> /\ pipeUnchanged

(* The sign-in: revoked at any time, checked every second. *)
revoke ==
    /\ allowed /\ allowed' = FALSE
    /\ UNCHANGED <<pc, slot, row, browser, upstream>> /\ pipeUnchanged

OnlyOnInput == FALSE
TimerRuns == Piping

beginCheck ==
    /\ TimerRuns /\ check = "none"
    /\ check' = "loading"
    /\ UNCHANGED <<pc, slot, row, browser, upstream, stopped, queued, ending, explain, allowed, sent,
                   told>>

endCheck ==
    /\ check = "loading"
    /\ check' = "none"
    /\ IF allowed THEN UNCHANGED <<browser, upstream, stopped, queued>> ELSE endBrowser("api")
    /\ UNCHANGED <<pc, slot, row, ending, explain, allowed, sent, told>>

(* A check that fails is swallowed: the next one decides. *)
checkFails ==
    /\ check = "loading"
    /\ check' = "none"
    /\ UNCHANGED <<pc, slot, row, browser, upstream, stopped, queued, ending, explain, allowed, sent,
                   told>>

(* Live help ends or replaces a helper's pipe from elsewhere. *)
endFromElsewhere ==
    /\ Piping /\ ~stopped
    /\ endBrowser("api")
    /\ UNCHANGED <<pc, slot, row, ending, explain, check, allowed, sent, told>>

----------------------------------------------------------------------------
PipeNext ==
    \/ takeSlot \/ slotRefused \/ openPresence \/ presenceFails \/ dropPresence \/ rowExpires
    \/ onMessage \/ browserCloses \/ onBrowserClose
    \/ onUpstreamOpen \/ onOutput \/ onExit \/ onGone \/ explained
    \/ agentCloses \/ onUpstreamClose \/ onUpstreamError \/ upstreamGoes
    \/ drained \/ revoke \/ beginCheck \/ endCheck \/ checkFails \/ endFromElsewhere

PipeSpec == PipeInit /\ [][PipeNext]_pipeVars

(* Promises settle, timers fire, and a socket that is being closed closes
   (ws gives its handshake 30 s).  The database does not fail every check of
   the sign-in.  Nothing is assumed of what the browser and
   the agent choose to do. *)
PipeFairSpec ==
    /\ PipeSpec
    /\ WF_pipeVars(takeSlot \/ slotRefused) /\ WF_pipeVars(openPresence \/ presenceFails) /\ WF_pipeVars(dropPresence)
    /\ WF_pipeVars(onBrowserClose) /\ WF_pipeVars(explained) /\ WF_pipeVars(beginCheck) /\ SF_pipeVars(endCheck)
    /\ WF_pipeVars(onUpstreamClose) /\ WF_pipeVars(rowExpires)

----------------------------------------------------------------------------
(* A browser whose socket closes because the agent's did has been told the
   terminal's last word, if there was one. *)
ToldBeforeClose == browser.by = "agent" /\ ending => told

(* A socket whose sign-in was revoked is closed, even if nobody types. *)
RevokedCloses == [](~allowed => <>(browser.state # "open" \/ pc = "over"))

(* Whichever side goes first, the slot and the presence row are given back. *)
GivesBack ==
    [](browser.state # "open" \/ upstream.state = "closing" => <>(~slot /\ ~row))
=============================================================================
