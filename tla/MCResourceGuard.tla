-------------------------- MODULE MCResourceGuard --------------------------
(* ResourceGuard for TLC.  Four settings, each with what it is there for:
   throttles that are held, over two restarts and an administrator, with a
   marker that every boot has; averages that a reboot tells apart or not, with
   a real share and a failing tick; the memory flag, with a worker that dies;
   and throttles, with a worker that dies and listings without a marker. *)
EXTENDS ResourceGuard

Holding ==
    [limit |-> 1, share |-> 1, threshold |-> 0, liftBelow |-> 1, window |-> 1, liftWindow |-> 1,
     holdAfter |-> 2, holdFor |-> 3, retention |-> 2, memories |-> {50}, memoryThreshold |-> 90,
     markers |-> {1}, maxTime |-> 4, maxBoots |-> 2, maxMissed |-> 0, maxCrashes |-> 0,
     maxAdmin |-> 1]

Averaging ==
    [Holding EXCEPT !.limit = 2, !.threshold = 1, !.liftBelow = 2, !.window = 2, !.retention = 3,
                    !.markers = {1, 2}, !.maxBoots = 1, !.maxMissed = 1, !.maxAdmin = 0]

Flagging ==
    [Holding EXCEPT !.limit = 0, !.share = 0, !.liftBelow = 0, !.window = 3, !.retention = 4,
                    !.markers = {1, 2}, !.memories = {50, 100}, !.memoryThreshold = 70,
                    !.maxTime = 5, !.maxBoots = 1, !.maxCrashes = 1]

(* A worker that dies between the record of a stop, the clearing of the
   throttle and the deletion of its samples. *)
Dying == [Holding EXCEPT !.markers = {0, 1}, !.maxTime = 3, !.maxBoots = 1, !.maxCrashes = 1,
                         !.maxAdmin = 0]

MCDivergences == {Dying, Averaging, Flagging}
MCWorlds == {Holding, Averaging, Flagging, Dying}
=============================================================================
