--------------------------- MODULE TerminalAttach ---------------------------
(***************************************************************************)
(* The agent's side of one terminal: TerminalRegistry of                   *)
(* apps/workspace-agent/src/terminals.ts and the attach route, with tmux.   *)
(*                                                                         *)
(* Grain: one event handler, or the part of attach between two awaits.  The *)
(* route pauses the socket until attach is over, so no frame of the browser *)
(* comes before; a connection that is lost is noticed at any time, since    *)
(* the agent writes to it.  Bytes, colours and the helper's own size are    *)
(* left out.                                                                *)
(***************************************************************************)
EXTENDS Integers, FiniteSets, Sequences

CONSTANTS
    Attachments,  \* browser sockets that attach to this terminal, once each
    Helpers,      \* those of live help, which type and never size the window
    Rooms,        \* values for MAX_ATTACHMENTS_PER_TERMINAL, one in a behaviour
    MaxPending,   \* INPUT_QUEUE_MAX_BYTES in frames
    MaxInput,     \* bound: input frames of one browser
    None

ASSUME AttachAssumption ==
    /\ Helpers \subseteq Attachments /\ None \notin Attachments
    /\ Rooms \subseteq Nat /\ MaxPending \in Nat /\ MaxInput \in Nat

VARIABLES
    room,      \* MAX_ATTACHMENTS_PER_TERMINAL
    attached,  \* attachments.get(id)
    holder,    \* claimers.get(id)
    at,        \* where attach is
    socket,    \* the socket of each attachment
    pty,       \* its tmux client
    pending,   \* pendingInput; None once flushed
    flushing,  \* pendingTimer is set
    draining,  \* drainTimer is set: the PTY is paused
    sized,     \* the browser has sent a measured size
    claim,     \* claimWindowSize of this attachment
    typed,     \* history: input frames that came from the browser
    written,   \* history: input frames written to the PTY
    session,   \* tmux: the session exists
    sizing,    \* tmux: clients without ignore-size
    latest     \* tmux: the client the window takes its size from

vars == <<room, attached, holder, at, socket, pty, pending, flushing, draining, sized, claim, typed,
          written, session, sizing, latest>>

MaybeAttachment == Attachments \cup {None}

TypeOK ==
    /\ room \in Rooms
    /\ attached \subseteq Attachments /\ sizing \subseteq Attachments
    /\ holder \in MaybeAttachment /\ latest \in MaybeAttachment
    /\ at \in [Attachments -> {"new", "checking", "history", "attached", "failed"}]
    /\ socket \in [Attachments -> {"open", "closing", "closed"}]
    /\ pty \in [Attachments -> {"none", "live", "killed", "asking", "answered", "told", "gone"}]
    /\ pending \in [Attachments -> {None} \cup Seq(1..MaxInput)]
    /\ \A a \in Attachments : pending[a] = None \/ Len(pending[a]) <= MaxPending
    /\ flushing \in [Attachments -> BOOLEAN] /\ draining \in [Attachments -> BOOLEAN]
    /\ sized \in [Attachments -> BOOLEAN]
    /\ claim \in [Attachments -> {"none", "listing", "claimed", "missed"}]
    /\ typed \in [Attachments -> 0..MaxInput]
    /\ written \in [Attachments -> Seq(1..MaxInput)]
    /\ session \in BOOLEAN

Init ==
    /\ room \in Rooms
    /\ attached = {} /\ holder = None /\ sizing = {} /\ latest = None /\ session = TRUE
    /\ at = [a \in Attachments |-> "new"]
    /\ socket = [a \in Attachments |-> "open"]
    /\ pty = [a \in Attachments |-> "none"]
    /\ pending = [a \in Attachments |-> <<>>]
    /\ flushing = [a \in Attachments |-> FALSE]
    /\ draining = [a \in Attachments |-> FALSE]
    /\ sized = [a \in Attachments |-> FALSE]
    /\ claim = [a \in Attachments |-> "none"]
    /\ typed = [a \in Attachments |-> 0]
    /\ written = [a \in Attachments |-> <<>>]

Student(a) == a \notin Helpers

----------------------------------------------------------------------------
(* Parts of the handlers. *)
Close(a) == socket' = [socket EXCEPT ![a] = IF @ = "open" THEN "closing" ELSE @]

forget(a) ==
    /\ attached' = attached \ {a}
    /\ holder' = IF holder = a THEN None ELSE holder
    /\ flushing' = [flushing EXCEPT ![a] = FALSE]
    /\ draining' = [draining EXCEPT ![a] = FALSE]

inputUnchanged == UNCHANGED <<pending, typed, written>>
sizeUnchanged == UNCHANGED <<sized, claim, sizing, latest>>
tablesUnchanged == UNCHANGED <<attached, holder, flushing, draining>>

(* tmux drops a client: the window goes to another one that sizes it. *)
ClientGone(a) ==
    /\ sizing' = sizing \ {a}
    /\ IF latest # a THEN UNCHANGED latest
       ELSE IF sizing \ {a} = {} THEN latest' = None
       ELSE latest' \in sizing \ {a}

----------------------------------------------------------------------------
(* attach. *)
HasRoom == Cardinality(attached) < room

attach(a) ==
    /\ at[a] = "new" /\ HasRoom
    /\ attached' = attached \cup {a}
    /\ at' = [at EXCEPT ![a] = "checking"]
    /\ UNCHANGED <<holder, socket, pty, flushing, draining, session, room>> /\ inputUnchanged /\ sizeUnchanged

attachRefused(a) ==
    /\ at[a] = "new" /\ ~HasRoom
    /\ at' = [at EXCEPT ![a] = "failed"]
    /\ Close(a)
    /\ UNCHANGED <<pty, session, room>> /\ tablesUnchanged /\ inputUnchanged /\ sizeUnchanged

SpawnsAlways(a) == TRUE
StillWanted(a) == socket[a] # "closed"

(* The end of attach: a student's client ignores size until its browser has
   measured one, a helper's always does. *)
spawnPty(a) ==
  /\ at' = [at EXCEPT ![a] = "attached"]
  /\ IF StillWanted(a) THEN
         /\ pty' = [pty EXCEPT ![a] = "live"]
         /\ flushing' = [flushing EXCEPT ![a] = TRUE]
         /\ sized' = [sized EXCEPT ![a] = ~Student(a)]
     ELSE UNCHANGED <<pty, flushing, sized>>

(* hasSession has answered. *)
sessionFound(a) ==
    /\ at[a] = "checking" /\ session
    /\ IF Student(a) /\ socket[a] # "closed" THEN
           at' = [at EXCEPT ![a] = "history"] /\ UNCHANGED <<pty, flushing, sized>>
       ELSE spawnPty(a)
    /\ UNCHANGED <<attached, holder, draining, socket, session, claim, sizing, latest, room>> /\ inputUnchanged

sessionMissing(a) ==
    /\ at[a] = "checking" /\ ~session
    /\ forget(a)
    /\ at' = [at EXCEPT ![a] = "failed"]
    /\ Close(a)
    /\ UNCHANGED <<pty, session, room>> /\ inputUnchanged /\ sizeUnchanged

(* captureHistory has answered or failed. *)
historySent(a) ==
    /\ at[a] = "history"
    /\ spawnPty(a)
    /\ UNCHANGED <<attached, holder, draining, socket, session, claim, sizing, latest, room>> /\ inputUnchanged

(* A tmux call that times out, or a PTY that cannot be made: the slot is left
   to the close of the socket. *)
attachFails(a) ==
    /\ at[a] \in {"checking", "history"}
    /\ at' = [at EXCEPT ![a] = "failed"]
    /\ Close(a)
    /\ UNCHANGED <<pty, session, room>> /\ tablesUnchanged /\ inputUnchanged /\ sizeUnchanged

----------------------------------------------------------------------------
(* The PTY. *)
flushPendingInput(a) ==
    /\ flushing' = [flushing EXCEPT ![a] = FALSE]
    /\ pending' = [pending EXCEPT ![a] = None]
    /\ IF pending[a] = None THEN UNCHANGED <<written, latest>>
       ELSE /\ written' = [written EXCEPT ![a] = @ \o pending[a]]
            /\ latest' = IF pending[a] # <<>> /\ a \in sizing THEN a ELSE latest

flushTimer(a) ==
    /\ flushing[a]
    /\ flushPendingInput(a)
    /\ UNCHANGED <<attached, holder, at, socket, pty, draining, sized, claim, typed, session, sizing, room>>

(* Output also comes between the kill of a client and its exit. *)
onData(a) ==
    /\ pty[a] \in {"live", "killed"} /\ ~draining[a]
    /\ flushPendingInput(a)
    /\ \E full \in BOOLEAN : draining' = [draining EXCEPT ![a] = full]
    /\ UNCHANGED <<attached, holder, at, socket, pty, sized, claim, typed, session, sizing, room>>

drained(a) ==
    /\ draining[a]
    /\ draining' = [draining EXCEPT ![a] = FALSE]
    /\ UNCHANGED <<attached, holder, at, socket, pty, flushing, session, room>> /\ inputUnchanged /\ sizeUnchanged

(* The attach client ends: with its session, or because it was killed.  A
   browser that is there is to be told whether the tmux server died too: the
   client has said so, or tmux is asked. *)
onExit(a) ==
    /\ pty[a] = "killed" \/ (pty[a] = "live" /\ ~session)
    /\ forget(a)
    /\ \E next \in (IF socket[a] = "closed" THEN {"gone"} ELSE {"asking", "answered"}) :
          pty' = [pty EXCEPT ![a] = next]
    /\ ClientGone(a)
    /\ UNCHANGED <<at, socket, session, sized, claim, room>> /\ inputUnchanged

exitUnchanged ==
    UNCHANGED <<at, session, room>> /\ tablesUnchanged /\ inputUnchanged /\ sizeUnchanged

tmuxAnswers(a) ==
    /\ pty[a] = "asking"
    /\ pty' = [pty EXCEPT ![a] = "answered"]
    /\ UNCHANGED socket /\ exitUnchanged

(* The question fails: the catch takes the server for alive. *)
UncaughtQuestion(a) == pty[a] = "asking" /\ pty' = [pty EXCEPT ![a] = "gone"]
CaughtQuestion(a) == pty[a] = "asking" /\ pty' = [pty EXCEPT ![a] = "answered"]

questionFails(a) == CaughtQuestion(a) /\ UNCHANGED socket /\ exitUnchanged

tellExit(a) ==
    /\ pty[a] = "answered"
    /\ pty' = [pty EXCEPT ![a] = "told"]
    /\ Close(a)
    /\ exitUnchanged

(* The socket's close event, which also comes when a connection is lost. *)
onClose(a) ==
    /\ socket[a] # "closed" /\ at[a] # "new"
    /\ socket' = [socket EXCEPT ![a] = "closed"]
    /\ forget(a)
    /\ IF pty[a] = "live" THEN pty' = [pty EXCEPT ![a] = "killed"] /\ ClientGone(a)
       ELSE UNCHANGED <<pty, sizing, latest>>
    /\ UNCHANGED <<at, session, sized, claim, room>> /\ inputUnchanged

----------------------------------------------------------------------------
(* The browser's frames. *)
Listens(a) == at[a] = "attached" /\ socket[a] # "closed"

Held(a) == sized[a] /\ Student(a)

QueueHasRoom(a) == Len(pending[a]) < MaxPending

WritesThrough(a) ==
    /\ written' = [written EXCEPT ![a] = Append(@, typed[a] + 1)]
    /\ UNCHANGED <<pending, latest>>
DropsFrame(a) == UNCHANGED <<pending, written, latest>>

onInput(a) ==
    /\ Listens(a) /\ typed[a] < MaxInput
    /\ typed' = [typed EXCEPT ![a] = @ + 1]
    /\ holder' = IF Held(a) THEN a ELSE holder
    /\ CASE pending[a] = None /\ pty[a] = "live" ->
              /\ written' = [written EXCEPT ![a] = Append(@, typed[a] + 1)]
              /\ latest' = IF a \in sizing THEN a ELSE latest
              /\ UNCHANGED pending
         [] pending[a] # None /\ QueueHasRoom(a) ->
              /\ pending' = [pending EXCEPT ![a] = Append(@, typed[a] + 1)]
              /\ UNCHANGED <<written, latest>>
         [] OTHER -> DropsFrame(a)
    /\ UNCHANGED <<attached, at, socket, pty, flushing, draining, sized, claim, session, sizing, room>>

(* A frame that is malformed or too large. *)
rejectFrame(a) ==
    /\ Listens(a) /\ socket[a] = "open"
    /\ Close(a)
    /\ UNCHANGED <<at, pty, session, room>> /\ tablesUnchanged /\ inputUnchanged /\ sizeUnchanged

(* A new size: tmux makes the client the latest by itself.  One for a client
   that has exited is caught, and counts as the holder's. *)
onResizeChanged(a) ==
    /\ Listens(a) /\ Student(a) /\ pty[a] # "none" /\ sized[a]
    /\ holder' = a
    /\ latest' = IF a \in sizing THEN a ELSE latest
    /\ UNCHANGED <<attached, at, socket, pty, flushing, draining, sized, claim, session, sizing, room>>
    /\ inputUnchanged

(* The first size, or the same again: claimed unless it would change nothing. *)
NothingToClaim(a) == sized[a] /\ (holder = a \/ Cardinality(attached) = 1)

onResizeClaims(a) ==
    /\ Listens(a) /\ Student(a) /\ pty[a] # "none" /\ ~NothingToClaim(a) /\ claim[a] = "none"
    /\ claim' = [claim EXCEPT ![a] = "listing"]
    /\ UNCHANGED <<at, socket, pty, session, sized, sizing, latest, room>> /\ tablesUnchanged /\ inputUnchanged

(* claimWindowSize reaches tmux: the client sizes the window from now on. *)
claimWindowSize(a) ==
    /\ claim[a] = "listing"
    /\ IF pty[a] = "live" /\ session THEN
           /\ claim' = [claim EXCEPT ![a] = "claimed"]
           /\ sizing' = sizing \cup {a}
           /\ latest' = a
       ELSE claim' = [claim EXCEPT ![a] = "missed"] /\ UNCHANGED <<sizing, latest>>
    /\ UNCHANGED <<at, socket, pty, session, sized, room>> /\ tablesUnchanged /\ inputUnchanged

(* No client listed yet, or a tmux call that failed. *)
claimMisses(a) ==
    /\ claim[a] = "listing"
    /\ claim' = [claim EXCEPT ![a] = "missed"]
    /\ UNCHANGED <<at, socket, pty, session, sized, sizing, latest, room>> /\ tablesUnchanged /\ inputUnchanged

(* Its promise settles. *)
Takes(a) == claim[a] = "claimed" /\ socket[a] # "closed"

claimSettles(a) ==
    /\ claim[a] \in {"claimed", "missed"}
    /\ claim' = [claim EXCEPT ![a] = "none"]
    /\ IF Takes(a) THEN sized' = [sized EXCEPT ![a] = TRUE] /\ holder' = a
       ELSE UNCHANGED <<sized, holder>>
    /\ UNCHANGED <<attached, at, socket, pty, flushing, draining, session, sizing, latest, room>>
    /\ inputUnchanged

----------------------------------------------------------------------------
(* The terminal is deleted, or the agent shuts down. *)
closeAll ==
    /\ attached # {}
    /\ attached' = {} /\ holder' = None /\ session' = FALSE
    /\ socket' = [a \in Attachments |->
                     IF a \in attached /\ socket[a] = "open" THEN "closing" ELSE socket[a]]
    /\ UNCHANGED <<at, pty, flushing, draining, room>> /\ inputUnchanged /\ sizeUnchanged

(* The shell exits, or the tmux server dies. *)
sessionEnds ==
    /\ session /\ session' = FALSE
    /\ UNCHANGED <<at, socket, pty, room>> /\ tablesUnchanged /\ inputUnchanged /\ sizeUnchanged

----------------------------------------------------------------------------
Next ==
    \/ closeAll \/ sessionEnds
    \/ \E a \in Attachments :
          \/ attach(a) \/ attachRefused(a) \/ sessionFound(a) \/ sessionMissing(a)
          \/ historySent(a) \/ attachFails(a)
          \/ flushTimer(a) \/ onData(a) \/ drained(a) \/ onExit(a)
          \/ tmuxAnswers(a) \/ questionFails(a) \/ tellExit(a) \/ onClose(a)
          \/ onInput(a) \/ rejectFrame(a) \/ onResizeChanged(a) \/ onResizeClaims(a)
          \/ claimWindowSize(a) \/ claimMisses(a) \/ claimSettles(a)

Spec == Init /\ [][Next]_vars

(* tmux calls end within 5 s, with an answer or not; timers fire; a client that
   is killed or whose session is gone exits; and ws closes a closing socket within 30 s. *)
FairSpec ==
    /\ Spec
    /\ \A a \in Attachments :
          /\ WF_vars(sessionFound(a) \/ sessionMissing(a) \/ attachFails(a))
          /\ WF_vars(historySent(a) \/ attachFails(a))
          /\ WF_vars(flushTimer(a)) /\ WF_vars(onExit(a))
          /\ WF_vars(tmuxAnswers(a) \/ questionFails(a)) /\ WF_vars(tellExit(a))
          /\ WF_vars(socket[a] = "closing" /\ onClose(a))

----------------------------------------------------------------------------
(* A socket that has closed leaves nothing: no slot, no claim on the window,
   no timer and no running client, wherever attach or a claim was then.  Only
   output of a client that is being killed may pause it, until it exits. *)
ClosedHoldsNothing ==
    \A a \in Attachments : socket[a] = "closed" =>
        /\ a \notin attached /\ holder # a
        /\ pty[a] # "live" /\ ~flushing[a]
        /\ draining[a] => pty[a] = "killed"

(* Early input is held and then written in order, with nothing of it twice and
   nothing before what was held. *)
InputInOrder ==
    \A a \in Attachments : \A i, j \in 1..Len(written[a]) : i < j => written[a][i] < written[a][j]

(* A browser whose terminal ended hears so: its socket closes, wherever attach
   was when the session went, and whether or not tmux answers the question that
   the exit asks. *)
ExitIsTold ==
    \A a \in Attachments : []((~session /\ at[a] # "new") => <>(socket[a] # "open"))

(* The remembered holder is the client that the window has its size from, once
   no claim is under way and no input is held: the resend of a size that the
   holder already has is dropped on the strength of it. *)
HolderIsLatest ==
    (/\ holder # None /\ pty[holder] = "live"
     /\ \A a \in Attachments : claim[a] = "none" /\ pending[a] \in {None, <<>>})
        => latest = holder
=============================================================================
