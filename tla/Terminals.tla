------------------------------ MODULE Terminals ------------------------------
(***************************************************************************)
(* The terminals of one workspace: the rows the API keeps, the tmux        *)
(* sessions the workspace agent runs, and the stop that ends both.         *)
(*                                                                         *)
(*   apps/api/src/routes/terminals.ts             create, rename, close    *)
(*   apps/api/src/routes/project-delete.ts        the end of a project     *)
(*   apps/workspace-agent/src/terminals-route.ts  the agent's side         *)
(*   apps/worker/src/reconcile.ts, reconcile-drift.ts, lifecycle.ts        *)
(*                                                the stop, its outcome    *)
(*                                                and endOpenTerminals     *)
(*   apps/worker/src/terminal-prune.ts            old rows                 *)
(*                                                                         *)
(* Grain: one database statement or transaction, one tmux command or one   *)
(* answer; the create's transaction is two steps, since its lock keeps     *)
(* only other creates out.  Creates, renames, closes, the delete of a      *)
(* project and the stop overlap in any way.  A terminal is created once    *)
(* (its id is random), for a project of the workspace or for none.  boot   *)
(* counts the instance's starts; each start gives the agent a new token,   *)
(* so a request that read the row before it is refused after it.  The name *)
(* "Terminal N" is its N; who gives a name may give such a one.            *)
(***************************************************************************)
EXTENDS Integers, FiniteSets

CONSTANTS
    Terminals,     \* the terminals that may be asked for
    MaxTerminals,  \* MAX_TERMINALS_PER_WORKSPACE
    Projects,      \* the projects of the workspace
    NoProject,     \* project_id: null, and a folder outside the projects
    CustomNames,   \* names that are not "Terminal N"
    Worlds         \* bound: what may happen in a behaviour: terminals asked
                   \* for, starts of the instance, calls that fail in the
                   \* agent, stops of the worker and of the instance by
                   \* itself, whether an agent call may time out; the
                   \* projects and folders terminals are asked for, the
                   \* names given, and the projects deleted

ASSUME TerminalsAssumption == IsFiniteSet(Terminals) /\ MaxTerminals \in Nat
ASSUME NamesAssumption == NoProject \notin Projects

ProjectIds == Projects \union {NoProject}
Names == Nat \union CustomNames

ASSUME WorldsAssumption ==
    \A w \in Worlds :
        /\ w.asks \in Nat /\ w.boots \in Nat \ {0} /\ w.faults \in Nat /\ w.crashes \in Nat
        /\ w.lost \in BOOLEAN /\ w.places \subseteq [project : ProjectIds, cwd : ProjectIds]
        /\ w.names \subseteq Names /\ w.deletes \subseteq Projects

VARIABLES
    rows,      \* the terminals table
    sessions,  \* the agent's tmux sessions
    create,    \* the create request of a terminal
    lock,      \* the create that holds the workspace's lock, and its name
    close,     \* the close request of a terminal
    projects,  \* the projects: row and folder there, folder removed, both gone
    deletion,  \* the delete of a project: the terminals it has left to end, the
               \* one it has killed and not yet marked, whether the folder is removed
    ws,        \* the workspace row's state, and the worker's stop of it
    boot, up,  \* the instance: how often it was started, whether it runs
    faults,
    late,      \* history: the stop missed the row, because it was inserted after the
               \* others were ended or the worker died before it ended them
    unlike,    \* history: the terminals whose names were there when the server
               \* chose this one's, without those that were renamed since
    world      \* what happens in this behaviour

vars == <<rows, sessions, create, lock, close, projects, deletion, ws, boot, up, faults, late,
          unlike, world>>

NoName == 0
NoRow == [state |-> "none", project |-> NoProject, cwd |-> NoProject, name |-> NoName]
NoDeletion == [of |-> NoProject, left |-> {}, mark |-> {}, removed |-> FALSE, boot |-> 0]

TypeOK ==
    /\ rows \in [Terminals -> [state : {"none", "open", "ended"}, project : ProjectIds,
                               cwd : ProjectIds, name : Names]]
    /\ sessions \subseteq Terminals
    /\ create \in [Terminals -> [pc : {"new", "checked", "inserted", "admitted", "made", "failed",
                                       "orphan", "over"}, boot : 0..world.boots,
                                 project : ProjectIds, cwd : ProjectIds]]
    /\ lock \in [holder : SUBSET Terminals, name : Names]
    /\ close \in [Terminals -> [pc : {"none", "call", "delete"}, boot : 0..world.boots]]
    /\ projects \in [Projects -> {"there", "removed", "deleted"}]
    /\ deletion \in [of : ProjectIds, left : SUBSET Terminals, mark : SUBSET Terminals,
                     removed : BOOLEAN, boot : 0..world.boots]
    /\ ws \in [state : {"running", "stopping", "stopped"}, ending : BOOLEAN, stopCall : BOOLEAN]
    /\ world \in Worlds
    /\ boot \in 0..world.boots /\ up \in BOOLEAN
    /\ faults \in [calls : 0..world.faults, crashes : 0..world.crashes]
    /\ late \in [Terminals -> BOOLEAN]
    /\ unlike \in [Terminals -> SUBSET Terminals]

Init ==
    /\ rows = [t \in Terminals |-> NoRow]
    /\ sessions = {}
    /\ create = [t \in Terminals |-> [pc |-> "new", boot |-> 0, project |-> NoProject,
                                      cwd |-> NoProject]]
    /\ lock = [holder |-> {}, name |-> NoName]
    /\ close = [t \in Terminals |-> [pc |-> "none", boot |-> 0]]
    /\ projects = [p \in Projects |-> "there"] /\ deletion = NoDeletion
    /\ ws = [state |-> "running", ending |-> FALSE, stopCall |-> FALSE]
    /\ boot = 1 /\ up = TRUE /\ faults = [calls |-> 0, crashes |-> 0]
    /\ late = [t \in Terminals |-> FALSE] /\ unlike = [t \in Terminals |-> {}]
    /\ world \in Worlds

Open == {t \in Terminals : rows[t].state = "open"}
OpenIn(p) == {t \in Open : rows[t].project = p}
Fault == faults.calls < world.faults /\ faults' = [faults EXCEPT !.calls = @ + 1]
Crash == faults.crashes < world.crashes /\ faults' = [faults EXCEPT !.crashes = @ + 1]

(* The agent answers a request that has the current address and token. *)
Reaches(r) == up /\ r.boot = boot

----------------------------------------------------------------------------
(* Create. *)
namesUnchanged == UNCHANGED <<lock, unlike, projects, deletion>>
requestsOnly == UNCHANGED <<ws, boot, up, world>> /\ namesUnchanged

createChecks(t) ==
    /\ create[t].pc = "new"
    /\ Cardinality({u \in Terminals : create[u].pc # "new"}) < world.asks
    /\ ws.state = "running"
    /\ Cardinality(Open) < MaxTerminals
    /\ \E place \in world.places :
        /\ place.project \in Projects => projects[place.project] # "deleted"
        /\ create' = [create EXCEPT ![t] = [pc |-> "checked", boot |-> boot,
                                           project |-> place.project, cwd |-> place.cwd]]
    /\ UNCHANGED <<rows, sessions, close, faults, late>> /\ requestsOnly

(* The name of a new terminal of p: a custom one whose terminal of p has ended
   (of several, the first in position), else the lowest number not shown. *)
CountedName(p) == {Cardinality(OpenIn(p)) + 1}
chooseTerminalName(p) ==
    LET live == {rows[t].name : t \in OpenIn(p)}
        ended == {rows[t].name : t \in {u \in Terminals : /\ rows[u].state = "ended"
                                                          /\ rows[u].project = p}}
        again == (ended \intersect CustomNames) \ live
    IN IF again # {} THEN again
       ELSE {CHOOSE n \in 1..(Cardinality(OpenIn(p)) + 1) :
                n \notin live /\ \A k \in 1..(n - 1) : k \in live}

AlwaysUnderCap == TRUE
UnderCap == Cardinality(Open) < MaxTerminals

(* The transaction takes the lock, counts again and names. *)
lockAndName(t) ==
    /\ create[t].pc = "checked" /\ lock.holder = {}
    /\ \/ /\ UnderCap
          /\ \/ /\ \E n \in chooseTerminalName(create[t].project) :
                      lock' = [holder |-> {t}, name |-> n]
                /\ unlike' = [unlike EXCEPT ![t] = OpenIn(create[t].project)]
             \/ /\ \E n \in world.names : lock' = [holder |-> {t}, name |-> n]
                /\ unlike' = [unlike EXCEPT ![t] = {}]
          /\ UNCHANGED create
       \/ /\ ~UnderCap
          /\ create' = [create EXCEPT ![t].pc = "over"]
          /\ UNCHANGED <<lock, unlike>>
    /\ UNCHANGED <<rows, sessions, close, projects, deletion, ws, boot, up, faults, late, world>>

(* It inserts and commits; a project deleted meanwhile refuses the row. *)
insertTerminal(t) ==
    LET p == create[t].project
    IN /\ t \in lock.holder
       /\ lock' = [holder |-> {}, name |-> NoName]
       /\ IF p \in Projects /\ projects[p] = "deleted"
          THEN create' = [create EXCEPT ![t].pc = "over"] /\ UNCHANGED <<rows, late>>
          ELSE /\ rows' = [rows EXCEPT ![t] = [state |-> "open", project |-> p,
                                              cwd |-> create[t].cwd, name |-> lock.name]]
               /\ create' = [create EXCEPT ![t].pc = "inserted"]
               /\ late' = [late EXCEPT ![t] = ws.state # "running" /\ ~ws.ending]
       /\ UNCHANGED <<sessions, close, projects, deletion, ws, boot, up, faults, unlike, world>>

(* The agent: its own checks, then the session. *)
agentAdmits(t) ==
    /\ create[t].pc = "inserted" /\ Reaches(create[t])
    /\ create' = [create EXCEPT ![t].pc =
                    IF Cardinality(sessions) < MaxTerminals THEN "admitted" ELSE "failed"]
    /\ UNCHANGED <<rows, sessions, close, faults, late>> /\ requestsOnly

FolderThere(p) == p \in Projects => projects[p] = "there"

createSession(t) ==
    /\ create[t].pc = "admitted" /\ Reaches(create[t]) /\ FolderThere(create[t].cwd)
    /\ sessions' = sessions \union {t}
    /\ create' = [create EXCEPT ![t].pc = "made"]
    /\ UNCHANGED <<rows, close, faults, late>> /\ requestsOnly

(* The call fails: the agent or the folder is not there, or tmux failed and
   the half-made session was killed. *)
createCallFails(t) ==
    /\ create[t].pc \in {"inserted", "admitted"}
    /\ IF Reaches(create[t]) /\ FolderThere(create[t].cwd) THEN Fault ELSE UNCHANGED faults
    /\ create' = [create EXCEPT ![t].pc = "failed"]
    /\ UNCHANGED <<rows, sessions, close, late>> /\ requestsOnly

(* The session is made and the answer comes too late. *)
createAnswerLost(t) ==
    /\ world.lost /\ create[t].pc = "made"
    /\ create' = [create EXCEPT ![t].pc = "failed"]
    /\ UNCHANGED <<rows, sessions, close, faults, late>> /\ requestsOnly

createFailed(t) ==
    /\ create[t].pc = "failed"
    /\ rows' = [rows EXCEPT ![t] = NoRow]
    /\ create' = [create EXCEPT ![t].pc = "over"]
    /\ UNCHANGED <<sessions, close, faults, late>> /\ requestsOnly

(* The row is completed; one that a close has deleted meanwhile takes its
   session along. *)
AfterSave(t) == IF rows[t] = NoRow THEN "orphan" ELSE "over"

saveTerminal(t) ==
    /\ create[t].pc = "made"
    /\ create' = [create EXCEPT ![t].pc = AfterSave(t)]
    /\ UNCHANGED <<rows, sessions, close, faults, late>> /\ requestsOnly

endOrphanSession(t) ==
    /\ create[t].pc = "orphan"
    /\ sessions' = IF Reaches(create[t]) THEN sessions \ {t} ELSE sessions
    /\ create' = [create EXCEPT ![t].pc = "over"]
    /\ UNCHANGED <<rows, close, faults, late>> /\ requestsOnly

----------------------------------------------------------------------------
(* Rename and close. *)
renameTerminal(t) ==
    /\ rows[t] # NoRow
    /\ \E n \in world.names : rows' = [rows EXCEPT ![t].name = n]
    /\ unlike' = [u \in Terminals |-> IF u = t THEN {} ELSE unlike[u] \ {t}]
    /\ UNCHANGED <<sessions, create, lock, close, projects, deletion, ws, boot, up, faults, late,
                   world>>

closeBegins(t) ==
    /\ rows[t].state # "none" /\ close[t].pc = "none"
    /\ close' = [close EXCEPT ![t] =
                    [pc |-> IF rows[t].state = "open" THEN "call" ELSE "delete", boot |-> boot]]
    /\ UNCHANGED <<rows, sessions, create, faults, late>> /\ requestsOnly

(* The agent kills the session, or has none, or is not there. *)
closeSession(t) ==
    /\ close[t].pc = "call"
    /\ close' = [close EXCEPT ![t].pc = "delete"]
    /\ sessions' = IF Reaches(close[t]) THEN sessions \ {t} ELSE sessions
    /\ UNCHANGED <<rows, create, faults, late>> /\ requestsOnly

(* The call times out, which reads as an agent that is not there. *)
closeUnanswered(t) ==
    /\ world.lost /\ close[t].pc = "call"
    /\ close' = [close EXCEPT ![t].pc = "delete"]
    /\ UNCHANGED <<rows, sessions, create, faults, late>> /\ requestsOnly

(* Any other error leaves the row. *)
closeFails(t) ==
    /\ close[t].pc = "call" /\ Fault
    /\ close' = [close EXCEPT ![t].pc = "none"]
    /\ UNCHANGED <<rows, sessions, create, late>> /\ requestsOnly

deleteRow(t) ==
    /\ close[t].pc = "delete"
    /\ rows' = [rows EXCEPT ![t] = NoRow]
    /\ close' = [close EXCEPT ![t].pc = "none"]
    /\ UNCHANGED <<sessions, create, faults, late>> /\ requestsOnly

(* The worker removes rows that ended 30 days ago: the stop and the requests
   of then are over. *)
pruneEndedTerminals ==
    LET old == {t \in Terminals : /\ rows[t].state = "ended" /\ create[t].pc = "over"
                                  /\ close[t].pc = "none"}
    IN /\ old # {} /\ ws.state # "stopping"
       /\ rows' = [t \in Terminals |-> IF t \in old THEN NoRow ELSE rows[t]]
       /\ UNCHANGED <<sessions, create, close, faults, late>> /\ requestsOnly

(* A shell that exits ends its session; the row stays until it is closed. *)
shellExits(t) ==
    /\ t \in sessions
    /\ sessions' = sessions \ {t}
    /\ UNCHANGED <<rows, create, close, faults, late>> /\ requestsOnly

----------------------------------------------------------------------------
(* The delete of a project, one at a time: it ends the terminals that began
   in its folder, one by one, then removes folder and row. *)
deletionOnly == UNCHANGED <<create, lock, close, ws, boot, up, late, unlike, world>>

deleteBegins(p) ==
    /\ p \in world.deletes /\ deletion = NoDeletion
    /\ ws.state = "running" /\ projects[p] # "deleted"
    /\ deletion' = [of |-> p, left |-> {t \in Open : rows[t].cwd = p}, mark |-> {},
                    removed |-> FALSE, boot |-> boot]
    /\ UNCHANGED <<rows, sessions, projects, faults>> /\ deletionOnly

(* Whatever the agent answers, the terminal counts as ended. *)
endInside(t) ==
    /\ t \in deletion.left /\ deletion.mark = {}
    /\ deletion' = [deletion EXCEPT !.left = @ \ {t}, !.mark = {t}]
    /\ \/ /\ Reaches(deletion)
          /\ sessions' = sessions \ {t} /\ UNCHANGED faults
       \/ /\ IF Reaches(deletion) /\ ~world.lost THEN Fault ELSE UNCHANGED faults
          /\ UNCHANGED sessions
    /\ UNCHANGED <<rows, projects>> /\ deletionOnly

markEnded(t) ==
    /\ t \in deletion.mark
    /\ deletion' = [deletion EXCEPT !.mark = {}]
    /\ rows' = IF t \in Open THEN [rows EXCEPT ![t].state = "ended"] ELSE rows
    /\ UNCHANGED <<sessions, projects, faults>> /\ deletionOnly

(* A folder that is already gone is as good as removed. *)
removeFolder ==
    /\ deletion.of \in Projects /\ deletion.left = {} /\ deletion.mark = {}
    /\ ~deletion.removed /\ Reaches(deletion)
    /\ deletion' = [deletion EXCEPT !.removed = TRUE]
    /\ projects' = [projects EXCEPT ![deletion.of] = "removed"]
    /\ UNCHANGED <<rows, sessions, faults>> /\ deletionOnly

deleteFails ==
    /\ deletion.of \in Projects /\ deletion.left = {} /\ deletion.mark = {}
    /\ \/ ~deletion.removed /\ IF Reaches(deletion) THEN Fault ELSE UNCHANGED faults
       \/ deletion.removed /\ world.lost /\ UNCHANGED faults
    /\ deletion' = NoDeletion
    /\ UNCHANGED <<rows, sessions, projects>> /\ deletionOnly

(* The terminals that are left lose their project (on delete set null). *)
projectDeleted ==
    /\ deletion.removed
    /\ projects' = [projects EXCEPT ![deletion.of] = "deleted"]
    /\ rows' = [t \in Terminals |-> IF rows[t].project = deletion.of
                                    THEN [rows[t] EXCEPT !.project = NoProject] ELSE rows[t]]
    /\ deletion' = NoDeletion
    /\ UNCHANGED <<sessions, faults>> /\ deletionOnly

----------------------------------------------------------------------------
(* The worker: the stop in its statements, and what resolves a stop whose
   worker has gone. *)
requestsUnchanged == UNCHANGED <<create, close, late, world>> /\ namesUnchanged

EndsNothing == FALSE
Ends == TRUE

stopRunning ==
    /\ ws.state = "running" /\ ~ws.ending
    /\ ws' = [state |-> "stopping", ending |-> Ends, stopCall |-> ~Ends]
    /\ UNCHANGED <<rows, sessions, boot, up, faults>> /\ requestsUnchanged

endOpenTerminals ==
    /\ ws.ending
    /\ rows' = [t \in Terminals |->
                 IF t \in Open THEN [rows[t] EXCEPT !.state = "ended"] ELSE rows[t]]
    /\ ws' = [ws EXCEPT !.ending = FALSE, !.stopCall = (ws.state = "stopping")]
    /\ UNCHANGED <<sessions, boot, up, faults>> /\ requestsUnchanged

instanceStops ==
    /\ ws.stopCall /\ up
    /\ up' = FALSE /\ sessions' = {}
    /\ UNCHANGED <<rows, ws, boot, faults>> /\ requestsUnchanged

(* stopInBackground ends: nothing more happens to terminals. *)
stopEnds ==
    /\ ws.stopCall /\ ~up
    /\ ws' = [ws EXCEPT !.state = "stopped", !.stopCall = FALSE]
    /\ UNCHANGED <<rows, sessions, boot, up, faults>> /\ requestsUnchanged

workerRestarts ==
    /\ ws.ending \/ ws.stopCall
    /\ Crash
    /\ ws' = [ws EXCEPT !.ending = FALSE, !.stopCall = FALSE]
    /\ late' = [t \in Terminals |->
                  late[t] \/ (t \in Open /\ ws.ending /\ ws.state = "stopped")]
    /\ UNCHANGED <<rows, sessions, create, close, boot, up, world>> /\ namesUnchanged

resolveStopping ==
    /\ ws.state = "stopping" /\ ~ws.ending /\ ~ws.stopCall
    /\ ws' = IF up THEN [ws EXCEPT !.state = "running"]
             ELSE [ws EXCEPT !.state = "stopped", !.ending = TRUE]
    /\ UNCHANGED <<rows, sessions, boot, up, faults>> /\ requestsUnchanged

(* The instance stops by itself; the sweep sees it. *)
instanceGoes ==
    /\ up /\ Crash
    /\ up' = FALSE /\ sessions' = {}
    /\ UNCHANGED <<rows, ws, boot>> /\ requestsUnchanged

observeStopped ==
    /\ ws.state = "running" /\ ~up /\ ~ws.ending
    /\ ws' = [ws EXCEPT !.state = "stopped", !.ending = TRUE]
    /\ UNCHANGED <<rows, sessions, boot, up, faults>> /\ requestsUnchanged

startEnds ==
    /\ ws.state = "stopped" /\ ~ws.ending /\ boot < world.boots
    /\ ws' = [ws EXCEPT !.state = "running"]
    /\ boot' = boot + 1 /\ up' = TRUE
    /\ UNCHANGED <<rows, sessions, faults>> /\ requestsUnchanged

----------------------------------------------------------------------------
Create(t) == \/ createChecks(t) \/ lockAndName(t) \/ insertTerminal(t)
             \/ agentAdmits(t) \/ createSession(t)
             \/ createCallFails(t) \/ createAnswerLost(t) \/ createFailed(t)
             \/ saveTerminal(t) \/ endOrphanSession(t)
Close(t) == \/ closeBegins(t) \/ closeSession(t) \/ closeUnanswered(t) \/ closeFails(t)
            \/ deleteRow(t)
DeleteProject == \/ \E p \in Projects : deleteBegins(p)
                 \/ \E t \in Terminals : endInside(t) \/ markEnded(t)
                 \/ removeFolder \/ deleteFails \/ projectDeleted
Worker == \/ stopRunning \/ endOpenTerminals \/ instanceStops \/ stopEnds \/ workerRestarts
          \/ resolveStopping \/ instanceGoes \/ observeStopped \/ startEnds

Next == \/ \E t \in Terminals : Create(t) \/ Close(t) \/ renameTerminal(t) \/ shellExits(t)
        \/ pruneEndedTerminals \/ DeleteProject \/ Worker

Spec == Init /\ [][Next]_vars

----------------------------------------------------------------------------
Busy(t) == create[t].pc \notin {"new", "over"} \/ close[t].pc # "none"

(* Parallel creates pass the cap neither alone nor together. *)
CapHolds == Cardinality(Open) <= MaxTerminals

(* A name the server chose differs from the one of every open terminal that
   its project had then, numbers users gave included, whatever creates, renames
   and deletes come in between, as long as neither is given another. *)
NamesDiffer ==
    \A t, u \in Open : u \in unlike[t] => rows[t].name # rows[u].name

(* Divergence: no two open terminals of a project share a name (terminals.ts:
   386, "parallel creates never share a name"). *)
NamesNeverShared ==
    \A t, u \in Open : t # u /\ rows[t].project = rows[u].project =>
                           rows[t].name # rows[u].name

Orphan(t) == t \in sessions /\ rows[t] = NoRow /\ ~Busy(t)

(* A tmux session does not outlive its row: whatever creates, closes and
   stops overlap, a session without a row has a request that will end it, or
   goes with the instance that is being stopped. *)
NoOrphanSession == ws.state = "running" => ~\E t \in Terminals : Orphan(t)

(* Once a stop has ended the open terminals, only a row it missed shows as
   open: one inserted after that, or one left by a worker that died between
   recording the stop and ending them. *)
StopEndsTerminals ==
    ws.state = "stopped" /\ ~ws.ending => \A t \in Open : late[t]

(* A stopped workspace shows no open terminal. *)
StoppedHasNoOpen == ws.state = "stopped" /\ ~ws.ending => \A t \in Open : Busy(t)
=============================================================================
