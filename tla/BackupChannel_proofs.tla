------------------------- MODULE BackupChannel_proofs -------------------------
(***************************************************************************)
(* Proofs about BackupChannel: for any requests, times and numbers of      *)
(* faults, every request is begun and finished at most once, none is       *)
(* called interrupted while the host has it, and a copy under way keeps    *)
(* its workspace's presence row.                                           *)
(*                                                                         *)
(* A request is lost only in a pull, and at a pull the host has neither a  *)
(* request nor a result (HostShape).  It is begun only by the claim of a   *)
(* pending one and finished only from claimed (StartedOnce, ToldOnce).  A  *)
(* copy's row that did not lapse is no older than the rounds the VM loop   *)
(* has missed since it last refreshed it, nor than the claim, and may go   *)
(* only if a round more passes (PresenceFresh).                            *)
(***************************************************************************)
EXTENDS BackupChannel, SequenceTheorems, TLAPS

ReqRecs == [state : {"none", "pending", "claimed", "done", "failed", "interrupted"},
            age : 0..(ClaimTimeout + 1)]

(* The type invariant in the parts that steps leave alone together. *)
ChannelTypes == /\ running \in HostRequests \union {None}
                /\ req \in [Requests -> ReqRecs]
                /\ conn \in [Copies -> Gone..(PresenceTtl + 1)]
                /\ told \in [Requests -> Nat]
HostTypes == /\ host \in [phase : Phases, id : HostRequests \union {None}, handled : BOOLEAN]
             /\ pending \in Results /\ beat \in HostRequests \union {None}
             /\ starts \in [Requests -> Nat]
LoopTypes == /\ worker \in [phase : {"down", "idle", "claim", "call"}, id : VmDeletes \union {None}]
             /\ volume \in BOOLEAN /\ open \in BOOLEAN /\ due \in BOOLEAN
             /\ missed \in 0..world.skips
WorldTypes == /\ asked \in Seq(Requests) /\ world \in Worlds /\ faults \in 0..MaxFaults
              /\ lapsed \subseteq Copies

(* A finished request was told of once, another never. *)
ToldOnce == \A r \in Requests : told[r] = IF req[r].state \in Over THEN 1 ELSE 0

(* The host begins a request at most once, and after it was claimed. *)
StartedOnce == \A r \in Requests : /\ starts[r] \in {0, 1}
                                   /\ req[r].state \in {"none", "pending"} => starts[r] = 0

(* What the host has in hand in each phase of a run. *)
HostShape ==
    /\ IF host.phase \in {"working", "finish"} THEN host.id \in HostRequests ELSE host.id = None
    /\ host.phase \in {"pull", "nothing", "working"} => pending = NoResult
    /\ host.phase = "finish" => pending.id = host.id

(* What host and VM loop work on is claimed. *)
WorkClaimed == host.phase = "working" => req[host.id].state = "claimed"
CallClaimed == worker.phase = "call" => worker.id \in VmDeletes /\ req[worker.id].state = "claimed"

(* The presence row of a copy under way that did not lapse is there, and as
   old as the rounds missed and the claim; it is one round older while the
   loop is down or about to refresh it. *)
Slack == IF due \/ worker.phase = "down" THEN 1 ELSE 0
RowFresh(c) == /\ conn[c] \in Nat
               /\ conn[c] <= missed + Slack
               /\ conn[c] <= req[c].age
               /\ conn[c] <= PresenceTtl - 2 + Slack
PresenceFresh ==
    \A c \in Copies \ lapsed : host.phase = "working" /\ host.id = c => RowFresh(c)

IInv == /\ TypeOK /\ ToldOnce /\ StartedOnce /\ HostShape /\ WorkClaimed /\ CallClaimed
        /\ InterruptedIsLost /\ PresenceFresh

----------------------------------------------------------------------------
LEMMA TypesByPart ==
  /\ TypeOK <=> ChannelTypes /\ HostTypes /\ LoopTypes /\ WorldTypes
  /\ (TypeOK <=> ChannelTypes /\ HostTypes /\ LoopTypes /\ WorldTypes)'
BY DEF TypeOK, ChannelTypes, HostTypes, LoopTypes, WorldTypes, ReqRecs

LEMMA NoneIsNoRequest == None \notin Requests /\ None \notin HostRequests
BY KindsAssumption DEF None, Requests, HostRequests

LEMMA KindsApart ==
  /\ \A r \in HostRequests : r \in Requests /\ r \notin VmDeletes
  /\ \A r \in VmDeletes : r \in Requests /\ r \notin HostRequests
  /\ \A c \in Copies : c \in HostRequests
BY KindsAssumption DEF Requests, HostRequests

LEMMA NoResultTyped == NoResult \in Results /\ NoResult.id = None
BY DEF Results, NoResult, None

LEMMA ResultStates ==
  ASSUME NEW result \in Results
  PROVE  /\ result.id \in HostRequests \union {None}
         /\ result.id # None => result.id \in HostRequests /\ result.state \in {"done", "failed"}
BY DEF Results, NoResult, None

LEMMA OldestOf == ASSUME NEW rs PROVE Oldest(rs) \subseteq rs
BY DEF Oldest

LEMMA NextPendingIs == \A r \in NextPending : r \in HostRequests /\ req[r].state = "pending"
BY OldestOf DEF NextPending

LEMMA OneFault ==
  ASSUME TypeOK, Fault \/ UNCHANGED faults PROVE faults' \in 0..MaxFaults
BY BoundsAssumption DEF TypeOK, Fault

(* A record that keeps or sets its state. *)
LEMMA SetState ==
  ASSUME NEW q \in ReqRecs,
         NEW s \in {"none", "pending", "claimed", "done", "failed", "interrupted"}
  PROVE  [q EXCEPT !.state = s] \in ReqRecs /\ [q EXCEPT !.state = s].state = s
BY DEF ReqRecs

LEMMA ClaimedRec ==
  [state |-> "claimed", age |-> 0] \in ReqRecs /\ [state |-> "claimed", age |-> 0].state = "claimed"
BY RoundsAssumption DEF ReqRecs

----------------------------------------------------------------------------
(* What the host may do to requests: a claimed one ends, a pending one is
   claimed. *)
HostMoves ==
    \A r \in Requests : \/ req'[r] = req[r]
                        \/ /\ r \in HostRequests /\ req[r].state = "claimed"
                           /\ req'[r].state \in Over
                        \/ /\ r \in HostRequests /\ req[r].state = "pending"
                           /\ req'[r].state = "claimed"

NoneInterrupted ==
    \A r \in Requests : req'[r].state = "interrupted" => req[r].state = "interrupted"

(* acceptReport finishes a claimed request and no other. *)
LEMMA AcceptStep ==
  ASSUME TypeOK, ToldOnce, NEW of \in HostRequests \union {None}, NEW result \in Results,
         acceptReport(of, result)
  PROVE  ChannelTypes' /\ ToldOnce' /\ HostMoves /\ NoneInterrupted
<1>. PICK rs : rs = Accepts(result)
  OBVIOUS
<1>1. /\ running' = of
      /\ req' = [r \in Requests |-> IF r \in rs THEN [req[r] EXCEPT !.state = result.state] ELSE req[r]]
      /\ conn' = [c \in Copies |-> IF c \in rs THEN Gone ELSE conn[c]]
      /\ told' = [r \in Requests |-> IF r \in rs THEN told[r] + 1 ELSE told[r]]
  BY DEF acceptReport, Finished, Told, releasePresence
<1>2. \A r \in rs : /\ r \in HostRequests /\ req[r].state = "claimed"
                    /\ result.state \in {"done", "failed"}
  BY ResultStates DEF Accepts
<1>3. ASSUME NEW r \in Requests
      PROVE  /\ req'[r] \in ReqRecs
             /\ \/ req'[r] = req[r] /\ r \notin rs
                \/ /\ r \in rs /\ r \in HostRequests /\ req[r].state = "claimed"
                   /\ req'[r].state \in {"done", "failed"}
  <2>1. req[r] \in ReqRecs
    BY DEF TypeOK, ReqRecs
  <2>2. CASE r \in rs
    <3>1. req'[r] = [req[r] EXCEPT !.state = result.state]
      BY <1>1, <2>2
    <3>2. r \in HostRequests /\ req[r].state = "claimed" /\ result.state \in {"done", "failed"}
      BY <1>2, <2>2
    <3>3. PICK s \in {"done", "failed"} : s = result.state
      BY <3>2
    <3>4. s \in {"none", "pending", "claimed", "done", "failed", "interrupted"}
      BY <3>3
    <3>5. [req[r] EXCEPT !.state = s] \in ReqRecs /\ [req[r] EXCEPT !.state = s].state = s
      BY ONLY <2>1, <3>4, SetState
    <3>. QED BY <2>2, <3>1, <3>2, <3>3, <3>5
  <2>3. CASE r \notin rs
    BY <1>1, <2>1, <2>3
  <2>. QED BY <2>2, <2>3
<1>4. ChannelTypes'
  <2>1. req' \in [Requests -> ReqRecs]
    BY <1>1, <1>3
  <2>2. conn' \in [Copies -> Gone..(PresenceTtl + 1)]
    BY <1>1, RoundsAssumption DEF TypeOK, Gone
  <2>3. told' \in [Requests -> Nat]
    BY <1>1 DEF TypeOK
  <2>. QED BY <1>1, <2>1, <2>2, <2>3 DEF ChannelTypes
<1>5. ToldOnce'
  <2>1. SUFFICES ASSUME NEW r \in Requests PROVE told'[r] = IF req'[r].state \in Over THEN 1 ELSE 0
    BY DEF ToldOnce
  <2>2. told[r] = IF req[r].state \in Over THEN 1 ELSE 0
    BY DEF ToldOnce
  <2>. QED BY <1>1, <1>3, <2>2 DEF Over
<1>6. HostMoves /\ NoneInterrupted
  BY <1>3 DEF HostMoves, NoneInterrupted, Over
<1>. QED BY <1>4, <1>5, <1>6

(* pullRequest interrupts what is lost and claims what is next. *)
LEMMA PullEffect ==
  ASSUME TypeOK, ToldOnce, pullRequest
  PROVE  /\ ChannelTypes' /\ ToldOnce' /\ HostMoves
         /\ \A r \in NextPending : req'[r].state = "claimed" /\ req'[r].age = 0
         /\ \A c \in Copies : c \in NextPending => conn'[c] = 0
<1>1. PICK next, lost : next = NextPending /\ lost = Lost
  OBVIOUS
<1>2. /\ \A r \in next : r \in HostRequests /\ req[r].state = "pending"
      /\ \A r \in lost : r \in HostRequests /\ req[r].state = "claimed"
      /\ \A r \in lost : r \notin next
  BY <1>1, NextPendingIs DEF Lost
<1>3. /\ req' = [r \in Requests |->
                   CASE r \in next -> [state |-> "claimed", age |-> 0]
                     [] r \in lost \ next -> [req[r] EXCEPT !.state = "interrupted"]
                     [] OTHER -> req[r]]
      /\ conn' = [c \in Copies |-> IF c \in next THEN 0 ELSE IF c \in lost THEN Gone ELSE conn[c]]
      /\ told' = [r \in Requests |-> IF r \in lost \ next THEN told[r] + 1 ELSE told[r]]
      /\ UNCHANGED running
  BY <1>1 DEF pullRequest, releasePresence, Told
<1>4. ASSUME NEW r \in Requests
      PROVE  /\ req'[r] \in ReqRecs
             /\ \/ req'[r] = req[r] /\ r \notin lost /\ r \notin next
                \/ /\ r \in lost /\ r \in HostRequests /\ req[r].state = "claimed"
                   /\ req'[r].state = "interrupted"
                \/ /\ r \in next /\ r \notin lost /\ r \in HostRequests
                   /\ req[r].state = "pending" /\ req'[r].state = "claimed"
  <2>1. req[r] \in ReqRecs
    BY DEF TypeOK, ReqRecs
  <2>2. CASE r \in next
    <3>1. req'[r] = [state |-> "claimed", age |-> 0]
      BY <1>3, <2>2
    <3>. QED BY <1>2, <2>2, <3>1, ClaimedRec
  <2>3. CASE r \in lost
    <3>1. req'[r] = [req[r] EXCEPT !.state = "interrupted"]
      BY <1>2, <1>3, <2>3
    <3>2. req'[r] \in ReqRecs /\ req'[r].state = "interrupted"
      BY ONLY <2>1, <3>1 DEF ReqRecs
    <3>. QED BY <1>2, <2>3, <3>2
  <2>4. CASE r \notin next /\ r \notin lost
    BY <1>3, <2>1, <2>4
  <2>. QED BY <2>2, <2>3, <2>4
<1>5. ChannelTypes'
  <2>1. req' \in [Requests -> ReqRecs]
    BY <1>3, <1>4
  <2>2. conn' \in [Copies -> Gone..(PresenceTtl + 1)]
    BY <1>3, RoundsAssumption DEF TypeOK, Gone
  <2>3. told' \in [Requests -> Nat]
    BY <1>3 DEF TypeOK
  <2>. QED BY <1>3, <2>1, <2>2, <2>3 DEF ChannelTypes, TypeOK
<1>6. ToldOnce'
  <2>1. SUFFICES ASSUME NEW r \in Requests PROVE told'[r] = IF req'[r].state \in Over THEN 1 ELSE 0
    BY DEF ToldOnce
  <2>2. told[r] = IF req[r].state \in Over THEN 1 ELSE 0
    BY DEF ToldOnce
  <2>3. told'[r] = IF r \in lost THEN told[r] + 1 ELSE told[r]
    BY <1>2, <1>3
  <2>. QED BY <1>4, <2>2, <2>3 DEF Over
<1>7. HostMoves
  BY <1>4 DEF HostMoves, Over
<1>8. \A r \in NextPending : req'[r].state = "claimed" /\ req'[r].age = 0
  BY <1>1, <1>2, <1>3, KindsApart
<1>9. \A c \in Copies : c \in NextPending => conn'[c] = 0
  BY <1>1, <1>3
<1>. QED BY <1>5, <1>6, <1>7, <1>8, <1>9

----------------------------------------------------------------------------
(* A step of the host after which no request is in hand: what is left is what
   it does to the requests and to its result. *)
LEMMA HandsEmpty ==
  ASSUME IInv, ChannelTypes', ToldOnce', HostMoves,
         UNCHANGED <<asked, worker, volume, open, missed, due, lapsed, world, starts>>,
         Fault \/ UNCHANGED faults, beat' \in HostRequests \union {None},
         host' \in [phase : {"idle", "deliver", "pull", "nothing"}, id : {None}, handled : BOOLEAN],
         pending' \in {pending, NoResult},
         host'.phase \in {"pull", "nothing"} => pending' = NoResult,
         pending' = NoResult \/ NoneInterrupted
  PROVE  IInv'
<1>. USE DEF IInv
<1>0. /\ host'.phase \in {"idle", "deliver", "pull", "nothing"} /\ host'.id = None
      /\ host' \in [phase : Phases, id : HostRequests \union {None}, handled : BOOLEAN]
  BY DEF Phases
<1>1. TypeOK'
  <2>1. HostTypes'
    BY <1>0, NoResultTyped, TypesByPart DEF HostTypes
  <2>2. LoopTypes'
    BY TypesByPart DEF LoopTypes
  <2>3. WorldTypes'
    BY OneFault, TypesByPart DEF WorldTypes
  <2>. QED BY <2>1, <2>2, <2>3, TypesByPart
<1>2. StartedOnce'
  BY DEF StartedOnce, HostMoves, Over
<1>3. HostShape' /\ WorkClaimed' /\ PresenceFresh'
  BY <1>0 DEF HostShape, WorkClaimed, PresenceFresh
<1>4. CallClaimed'
  BY KindsApart DEF CallClaimed, HostMoves
<1>5. InterruptedIsLost'
  BY <1>0, NoneIsNoRequest, NoResultTyped, KindsApart DEF InterruptedIsLost, NoneInterrupted
<1>. QED BY <1>1, <1>2, <1>3, <1>4, <1>5

LEMMA StopTyped ==
  /\ Stop \in [phase : {"idle", "deliver", "pull", "nothing"}, id : {None}, handled : BOOLEAN]
  /\ Stop.phase = "idle" /\ Stop.id = None
BY DEF Stop

LEMMA SameRequests ==
  ASSUME IInv, vmUnchanged PROVE ChannelTypes' /\ ToldOnce' /\ HostMoves /\ NoneInterrupted
BY TypesByPart DEF IInv, vmUnchanged, ChannelTypes, ToldOnce, HostMoves, NoneInterrupted

LEMMA LostReport ==
  ASSUME IInv, NEW result \in Results, lostReport(None, result) PROVE IInv'
<1>1. ChannelTypes' /\ ToldOnce' /\ HostMoves /\ NoneInterrupted
  BY SameRequests, AcceptStep DEF lostReport, IInv
<1>2. /\ UNCHANGED <<asked, worker, volume, open, missed, due, lapsed, world, pending, beat, starts>>
      /\ Fault /\ host' = Stop
  BY DEF lostReport, restUnchanged
<1>3. beat \in HostRequests \union {None}
  BY DEF IInv, TypeOK
<1>. QED BY <1>1, <1>2, <1>3, StopTyped, HandsEmpty

LEMMA ReportSteps ==
  ASSUME IInv,
         channelRun \/ deliverResult \/ reportNothing \/ lostNothing \/ finish \/ lostResult
         \/ hostCrash
  PROVE  IInv'
<1>. USE DEF restUnchanged
<1>0. /\ beat \in HostRequests \union {None} /\ pending \in Results /\ NoResult \in Results
      /\ host \in [phase : Phases, id : HostRequests \union {None}, handled : BOOLEAN]
      /\ HostShape /\ TypeOK /\ ToldOnce
  BY NoResultTyped DEF IInv, TypeOK
<1>1. CASE channelRun
  <2>1. /\ host' = [Stop EXCEPT !.phase = FirstPhase]
        /\ UNCHANGED <<pending, beat, faults, starts>> /\ vmUnchanged
        /\ UNCHANGED <<asked, worker, volume, open, missed, due, lapsed, world>>
    BY <1>1 DEF channelRun
  <2>2. /\ host' \in [phase : {"idle", "deliver", "pull", "nothing"}, id : {None}, handled : BOOLEAN]
        /\ host'.phase = FirstPhase
    BY <2>1 DEF Stop, FirstPhase
  <2>3. host'.phase \in {"pull", "nothing"} => pending' = NoResult
    BY <2>1, <2>2 DEF FirstPhase
  <2>. QED BY <1>0, <2>1, <2>2, <2>3, SameRequests, HandsEmpty
<1>2. CASE deliverResult
  <2>1. /\ host' = [host EXCEPT !.phase = "pull"] /\ host.phase = "deliver"
        /\ pending' = NoResult /\ acceptReport(None, pending)
        /\ UNCHANGED <<beat, faults, starts, asked, worker, volume, open, missed, due, lapsed, world>>
    BY <1>2 DEF deliverResult
  <2>2. ChannelTypes' /\ ToldOnce' /\ HostMoves
    BY <1>0, <2>1, AcceptStep
  <2>3. host' \in [phase : {"idle", "deliver", "pull", "nothing"}, id : {None}, handled : BOOLEAN]
    BY <1>0, <2>1 DEF HostShape
  <2>. QED BY <1>0, <2>1, <2>2, <2>3, HandsEmpty
<1>3. CASE reportNothing
  <2>1. /\ host' = Stop /\ host.phase = "nothing"
        /\ vmUnchanged \/ acceptReport(None, NoResult)
        /\ UNCHANGED <<pending, beat, faults, starts, asked, worker, volume, open, missed, due, lapsed, world>>
    BY <1>3 DEF reportNothing
  <2>2. ChannelTypes' /\ ToldOnce' /\ HostMoves /\ NoneInterrupted
    BY <1>0, <2>1, AcceptStep, SameRequests
  <2>. QED BY <1>0, <2>1, <2>2, StopTyped, HandsEmpty
<1>4. CASE lostNothing
  BY <1>0, <1>4, LostReport DEF lostNothing
<1>5. CASE finish
  <2>1. /\ host' \in {Stop, [phase |-> "pull", id |-> None, handled |-> TRUE]}
        /\ pending' = NoResult /\ acceptReport(None, pending)
        /\ UNCHANGED <<beat, faults, starts, asked, worker, volume, open, missed, due, lapsed, world>>
    BY <1>5 DEF finish
  <2>2. ChannelTypes' /\ ToldOnce' /\ HostMoves
    BY <1>0, <2>1, AcceptStep
  <2>3. host' \in [phase : {"idle", "deliver", "pull", "nothing"}, id : {None}, handled : BOOLEAN]
    <3>1. [phase |-> "pull", id |-> None, handled |-> TRUE]
            \in [phase : {"idle", "deliver", "pull", "nothing"}, id : {None}, handled : BOOLEAN]
      OBVIOUS
    <3>. QED BY <2>1, <3>1, StopTyped
  <2>. QED BY <1>0, <2>1, <2>2, <2>3, HandsEmpty
<1>6. CASE lostResult
  <2>1. PICK result \in Results : result = pending
    BY <1>0
  <2>2. lostReport(None, result)
    BY <1>6, <2>1 DEF lostResult
  <2>. QED BY <2>2, LostReport
<1>7. CASE hostCrash
  <2>1. /\ host' = Stop /\ Fault /\ vmUnchanged
        /\ UNCHANGED <<pending, beat, starts, asked, worker, volume, open, missed, due, lapsed, world>>
    BY <1>7 DEF hostCrash
  <2>. QED BY <1>0, <2>1, SameRequests, StopTyped, HandsEmpty
<1>. QED BY <1>1, <1>2, <1>3, <1>4, <1>5, <1>6, <1>7

LEMMA PullSteps ==
  ASSUME IInv, pull \/ lostPull PROVE IInv'
<1>. USE DEF IInv
<1>0. /\ host.phase = "pull" /\ pending = NoResult
      /\ UNCHANGED <<asked, worker, volume, open, missed, due, lapsed, world, pending, beat>>
      /\ beat \in HostRequests \union {None} /\ pending \in Results
      /\ host \in [phase : Phases, id : HostRequests \union {None}, handled : BOOLEAN]
      /\ host.id = None
  BY DEF pull, lostPull, restUnchanged, HostShape, TypeOK
<1>1. CASE lostPull
  <2>1. host' = Stop /\ Fault /\ (vmUnchanged \/ pullRequest) /\ UNCHANGED starts
    BY <1>1 DEF lostPull
  <2>2. ChannelTypes' /\ ToldOnce' /\ HostMoves
    BY <2>1, SameRequests, PullEffect
  <2>. QED BY <1>0, <2>1, <2>2, StopTyped, HandsEmpty
<1>2. CASE pull /\ NextPending = {}
  <2>1. host' = [host EXCEPT !.phase = "nothing"] /\ pullRequest /\ UNCHANGED <<faults, starts>>
    BY <1>2 DEF pull
  <2>2. ChannelTypes' /\ ToldOnce' /\ HostMoves
    BY <2>1, PullEffect
  <2>3. host' \in [phase : {"idle", "deliver", "pull", "nothing"}, id : {None}, handled : BOOLEAN]
    BY <1>0, <2>1
  <2>. QED BY <1>0, <2>1, <2>2, <2>3, HandsEmpty
<1>3. CASE pull /\ NextPending # {}
  <2>1. PICK r \in NextPending : /\ host' = [host EXCEPT !.phase = "working", !.id = r]
                                 /\ starts' = [starts EXCEPT ![r] = @ + 1]
    BY <1>3 DEF pull
  <2>2. pullRequest /\ UNCHANGED faults
    BY <1>3 DEF pull
  <2>3. /\ ChannelTypes' /\ ToldOnce' /\ HostMoves
        /\ req'[r].state = "claimed" /\ req'[r].age = 0 /\ (r \in Copies => conn'[r] = 0)
    BY <2>1, <2>2, PullEffect
  <2>4. r \in HostRequests /\ r \in Requests /\ req[r].state = "pending"
    BY <2>1, NextPendingIs, KindsApart
  <2>5. /\ host'.phase = "working" /\ host'.id = r
        /\ host' \in [phase : Phases, id : HostRequests \union {None}, handled : BOOLEAN]
    BY <1>0, <2>1, <2>4 DEF Phases
  <2>6. /\ starts' \in [Requests -> Nat] /\ starts'[r] = 1
        /\ \A q \in Requests : q # r => starts'[q] = starts[q]
    <3>1. starts \in [Requests -> Nat] /\ starts[r] = 0
      BY <2>4 DEF StartedOnce, TypeOK
    <3>. QED BY <2>1, <2>4, <3>1
  <2>7. TypeOK'
    <3>1. HostTypes'
      BY <1>0, <2>5, <2>6 DEF HostTypes
    <3>2. LoopTypes' /\ WorldTypes'
      BY <1>0, <2>2, TypesByPart DEF LoopTypes, WorldTypes
    <3>. QED BY <2>3, <3>1, <3>2, TypesByPart
  <2>8. StartedOnce'
    <3>1. ASSUME NEW q \in Requests
          PROVE  starts'[q] \in {0, 1} /\ (req'[q].state \in {"none", "pending"} => starts'[q] = 0)
      <4>1. CASE q = r
        BY <2>3, <2>6, <4>1
      <4>2. CASE q # r
        BY <2>3, <2>6, <4>2 DEF StartedOnce, HostMoves, Over
      <4>. QED BY <4>1, <4>2
    <3>. QED BY <3>1 DEF StartedOnce
  <2>9. HostShape' /\ WorkClaimed'
    BY <1>0, <2>3, <2>4, <2>5 DEF HostShape, WorkClaimed
  <2>10. CallClaimed'
    BY <1>0, <2>3, KindsApart DEF CallClaimed, HostMoves
  <2>11. InterruptedIsLost'
    BY <1>0, <2>3, <2>5, NoneIsNoRequest, NoResultTyped DEF InterruptedIsLost
  <2>12. PresenceFresh'
    <3>1. missed' \in Nat /\ Slack' \in {0, 1}
      BY <1>0, BoundsAssumption DEF Slack, TypeOK
    <3>2. r \in Copies => RowFresh(r)'
      BY <2>3, <3>1, RoundsAssumption DEF RowFresh
    <3>. QED BY <2>5, <3>2 DEF PresenceFresh
  <2>. QED BY <2>3, <2>7, <2>8, <2>9, <2>10, <2>11, <2>12
<1>. QED BY <1>1, <1>2, <1>3

(* While a job is worked on only its heartbeats and its end are the host's. *)
LEMMA HeartbeatSteps ==
  ASSUME IInv, heartbeat \/ heartbeatArrives \/ heartbeatLost PROVE IInv'
<1>. USE DEF IInv
<1>0. /\ UNCHANGED <<asked, worker, volume, open, missed, due, lapsed, world, host, pending, starts>>
      /\ Fault \/ UNCHANGED faults
      /\ beat' \in HostRequests \union {None}
      /\ vmUnchanged \/ acceptReport(beat, NoResult)
  BY DEF heartbeat, heartbeatArrives, heartbeatLost, restUnchanged, TypeOK, HostShape
<1>1. PICK of : of = beat
  OBVIOUS
<1>2. /\ of \in HostRequests \union {None}
      /\ vmUnchanged \/ acceptReport(of, NoResult)
  BY <1>0, <1>1 DEF TypeOK
<1>3. ChannelTypes' /\ ToldOnce' /\ HostMoves
  BY <1>2, SameRequests, AcceptStep, NoResultTyped
<1>4. UNCHANGED <<req, told, conn>>
  <2>1. ASSUME acceptReport(of, NoResult) PROVE UNCHANGED <<req, told, conn>>
    <3>1. Accepts(NoResult) = {}
      BY NoResultTyped DEF Accepts
    <3>2. /\ req' = [r \in Requests |-> req[r]] /\ told' = [r \in Requests |-> told[r]]
          /\ conn' = [c \in Copies |-> conn[c]]
      BY <2>1, <3>1 DEF acceptReport, Finished, Told, releasePresence
    <3>. QED BY <3>2 DEF TypeOK
  <2>. QED BY <1>2, <2>1 DEF vmUnchanged
<1>5. TypeOK'
  <2>1. HostTypes' /\ LoopTypes'
    BY <1>0, TypesByPart DEF HostTypes, LoopTypes
  <2>2. WorldTypes'
    BY <1>0, OneFault, TypesByPart DEF WorldTypes
  <2>. QED BY <1>3, <2>1, <2>2, TypesByPart
<1>6. StartedOnce' /\ HostShape' /\ WorkClaimed' /\ CallClaimed' /\ InterruptedIsLost'
  BY <1>0, <1>4 DEF StartedOnce, HostShape, WorkClaimed, CallClaimed, InterruptedIsLost
<1>7. PresenceFresh'
  BY <1>0, <1>4 DEF PresenceFresh, RowFresh, Slack
<1>. QED BY <1>3, <1>5, <1>6, <1>7

LEMMA WriteResultStep ==
  ASSUME IInv, writeResult PROVE IInv'
<1>. USE DEF IInv
<1>1. PICK s \in {"done", "failed"} : pending' = [id |-> host.id, state |-> s]
  BY DEF writeResult
<1>2. /\ host.phase = "working" /\ host' = [host EXCEPT !.phase = "finish"]
      /\ UNCHANGED <<asked, worker, volume, open, missed, due, lapsed, world, beat, faults, starts,
                     req, running, conn, told>>
  BY DEF writeResult, vmUnchanged, restUnchanged
<1>3. /\ host.id \in HostRequests /\ host.id \in Requests /\ req[host.id].state = "claimed"
  BY <1>2, KindsApart DEF HostShape, WorkClaimed
<1>4. /\ host'.phase = "finish" /\ host'.id = host.id
      /\ host' \in [phase : Phases, id : HostRequests \union {None}, handled : BOOLEAN]
  BY <1>2 DEF TypeOK, Phases
<1>5. pending' \in Results /\ pending'.id = host.id
  BY <1>1, <1>3 DEF Results
<1>6. TypeOK'
  <2>1. HostTypes'
    BY <1>2, <1>4, <1>5, TypesByPart DEF HostTypes
  <2>2. ChannelTypes' /\ LoopTypes' /\ WorldTypes'
    BY <1>2, TypesByPart DEF ChannelTypes, LoopTypes, WorldTypes
  <2>. QED BY <2>1, <2>2, TypesByPart
<1>7. ToldOnce' /\ StartedOnce' /\ CallClaimed'
  BY <1>2 DEF ToldOnce, StartedOnce, CallClaimed
<1>8. HostShape' /\ WorkClaimed' /\ PresenceFresh'
  BY <1>3, <1>4, <1>5 DEF HostShape, WorkClaimed, PresenceFresh
<1>9. InterruptedIsLost'
  BY <1>2, <1>3, <1>4, <1>5 DEF InterruptedIsLost
<1>. QED BY <1>6, <1>7, <1>8, <1>9

LEMMA HostSteps ==
  ASSUME IInv,
         Host \/ heartbeat \/ heartbeatArrives \/ lostPull \/ lostNothing \/ lostResult
         \/ heartbeatLost \/ hostCrash
  PROVE  IInv'
BY ReportSteps, PullSteps, HeartbeatSteps, WriteResultStep DEF Host

----------------------------------------------------------------------------
(* Steps of time, of administrators and of the VM loop: they leave the host
   alone and change no state of its claimed requests. *)
LEMMA HostUntouched ==
  ASSUME IInv, ChannelTypes', LoopTypes', WorldTypes', ToldOnce', CallClaimed', PresenceFresh',
         UNCHANGED <<host, pending, beat, starts>>,
         \A r \in Requests : \/ req'[r].state = req[r].state
                             \/ /\ req[r].state = "none" \/ r \in VmDeletes
                                /\ req'[r].state # "interrupted"
                                /\ req[r].state = "none" \/ req'[r].state \notin {"none", "pending"}
  PROVE  IInv'
<1>. USE DEF IInv
<1>1. TypeOK'
  <2>1. HostTypes'
    BY TypesByPart DEF HostTypes
  <2>. QED BY <2>1, TypesByPart
<1>2. StartedOnce'
  BY DEF StartedOnce
<1>3. HostShape'
  BY DEF HostShape
<1>4. WorkClaimed'
  <2>1. ASSUME host.phase = "working" PROVE req'[host.id].state = "claimed"
    <3>1. /\ host.id \in Requests /\ host.id \notin VmDeletes
          /\ req[host.id].state = "claimed"
      BY <2>1, KindsApart DEF HostShape, WorkClaimed
    <3>. QED BY <3>1
  <2>. QED BY <2>1 DEF WorkClaimed
<1>5. InterruptedIsLost'
  BY KindsApart DEF InterruptedIsLost
<1>. QED BY <1>1, <1>2, <1>3, <1>4, <1>5

LEMMA RoundsMissed ==
  ASSUME TypeOK
  PROVE  /\ world.skips \in Nat /\ missed \in Nat /\ missed <= world.skips
         /\ Slack \in {0, 1}
<1>1. world.skips \in Nat
  BY BoundsAssumption DEF TypeOK
<1>2. missed \in 0..world.skips
  BY DEF TypeOK
<1>. QED BY <1>1, <1>2 DEF Slack

LEMMA OlderTyped ==
  ASSUME NEW cap \in Nat, NEW age \in Gone..(cap + 1)
  PROVE  /\ Older(age, cap) \in Gone..(cap + 1)
         /\ age \in Nat => Older(age, cap) \in 0..(cap + 1) /\ Older(age, cap) <= age + 1
BY DEF Older, Gone

LEMMA TickStep ==
  ASSUME IInv, Tick PROVE IInv'
<1>. USE DEF IInv
<1>1. /\ ~due /\ worker.phase # "claim" /\ (worker.phase # "idle" => missed < world.skips)
      /\ missed' = IF worker.phase = "idle" THEN missed ELSE missed + 1
      /\ due' = (worker.phase = "idle")
      /\ req' = [r \in Requests |->
                   IF req[r].state = "claimed" THEN [req[r] EXCEPT !.age = Older(@, ClaimTimeout)]
                   ELSE req[r]]
      /\ conn' = [c \in Copies |-> Older(conn[c], PresenceTtl)]
      /\ lapsed' = lapsed \union
                     {c \in Copies : /\ req[c].state = "claimed" /\ req'[c].age >= PresenceTtl - 1
                                     /\ worker.phase # "idle" /\ missed' >= PresenceTtl - 1}
      /\ UNCHANGED <<asked, running, host, pending, beat, worker, volume, open, faults, starts, told,
                     world>>
  BY DEF Tick
<1>2. ASSUME NEW r \in Requests PROVE req'[r] \in ReqRecs /\ req'[r].state = req[r].state
  <2>1. PICK q : q = req[r]
    OBVIOUS
  <2>2. q \in ReqRecs
    BY <2>1, TypesByPart DEF ChannelTypes
  <2>3. q.age \in 0..(ClaimTimeout + 1)
    BY <2>2 DEF ReqRecs
  <2>4. PICK a : a = Older(q.age, ClaimTimeout)
    OBVIOUS
  <2>5. a \in 0..(ClaimTimeout + 1)
    <3>1. q.age \in Gone..(ClaimTimeout + 1) /\ q.age \in Nat
      BY <2>3, RoundsAssumption DEF Gone
    <3>. QED BY <2>4, <3>1, OlderTyped, RoundsAssumption
  <2>6. [q EXCEPT !.age = a] \in ReqRecs /\ [q EXCEPT !.age = a].state = q.state
    BY <2>2, <2>5 DEF ReqRecs
  <2>7. req'[r] = IF q.state = "claimed" THEN [q EXCEPT !.age = a] ELSE q
    BY <1>1, <2>1, <2>4
  <2>. QED BY <2>1, <2>2, <2>6, <2>7
<1>3. ChannelTypes'
  <2>1. req' \in [Requests -> ReqRecs]
    BY <1>1, <1>2
  <2>2. ASSUME NEW c \in Copies PROVE conn'[c] \in Gone..(PresenceTtl + 1)
    BY <1>1, OlderTyped, RoundsAssumption DEF TypeOK
  <2>3. conn' \in [Copies -> Gone..(PresenceTtl + 1)]
    BY <1>1, <2>2
  <2>. QED BY <1>1, <2>1, <2>3, TypesByPart DEF ChannelTypes
<1>4. LoopTypes' /\ WorldTypes'
  <2>1. world.skips \in Nat /\ missed \in 0..world.skips
    BY BoundsAssumption DEF TypeOK
  <2>2. missed' \in 0..world'.skips
    BY <1>1, <2>1
  <2>. QED BY <1>1, <2>2, TypesByPart DEF LoopTypes, WorldTypes
<1>5. ToldOnce' /\ CallClaimed'
  <2>1. ToldOnce'
    BY <1>1, <1>2 DEF ToldOnce
  <2>2. CallClaimed'
    BY <1>1, <1>2, KindsApart DEF CallClaimed
  <2>. QED BY <2>1, <2>2
<1>6. PresenceFresh'
  <2>1. SUFFICES ASSUME NEW c \in Copies, c \notin lapsed', host.phase = "working", host.id = c
                 PROVE  RowFresh(c)'
    BY <1>1 DEF PresenceFresh
  <2>2. c \notin lapsed /\ RowFresh(c) /\ req[c].state = "claimed" /\ c \in Requests
    BY <1>1, <2>1, KindsApart DEF PresenceFresh, WorkClaimed
  <2>3. PICK m \in Nat, n \in Nat, a \in Nat : m = missed /\ n = conn[c] /\ a = req[c].age
    <3>1. req[c] \in ReqRecs
      BY <2>2, TypesByPart DEF ChannelTypes
    <3>. QED BY <2>2, <3>1, RoundsMissed, RoundsAssumption DEF RowFresh, ReqRecs
  <2>4. a <= ClaimTimeout + 1
    <3>1. req[c] \in ReqRecs
      BY <2>2, TypesByPart DEF ChannelTypes
    <3>. QED BY <2>3, <3>1, RoundsAssumption DEF ReqRecs
  <2>5. req'[c].age = Older(a, ClaimTimeout) /\ conn'[c] = Older(n, PresenceTtl)
    <3>1. PICK q : q = req[c]
      OBVIOUS
    <3>2. q \in ReqRecs /\ q.age = a
      BY <2>2, <2>3, <3>1, TypesByPart DEF ChannelTypes
    <3>3. [q EXCEPT !.age = Older(@, ClaimTimeout)].age = Older(a, ClaimTimeout)
      BY <3>2 DEF ReqRecs
    <3>. QED BY <1>1, <2>2, <2>3, <3>1, <3>3
  <2>6. /\ n <= m + Slack /\ n <= a /\ n <= PresenceTtl - 2 + Slack /\ Slack \in {0, 1}
    BY <2>2, <2>3, RoundsMissed DEF RowFresh
  <2>7. PICK k \in {0, 1} : k = Slack
    BY <2>6
  <2>8. conn'[c] = n + 1
    BY <2>5, <2>6, <2>7, RoundsAssumption DEF Older, Gone
  <2>9. req'[c].age \in Nat /\ n + 1 <= req'[c].age
    BY <2>4, <2>5, <2>6, <2>7, RoundsAssumption DEF Older, Gone
  <2>10. CASE worker.phase = "idle"
    <3>1. k = 0 /\ Slack' = 1 /\ missed' = m
      BY <1>1, <2>3, <2>7, <2>10 DEF Slack
    <3>2. n <= m /\ n <= PresenceTtl - 2
      BY <2>6, <2>7, <3>1, RoundsAssumption
    <3>. QED BY <2>8, <2>9, <3>1, <3>2, RoundsAssumption DEF RowFresh
  <2>11. CASE worker.phase # "idle"
    <3>1. Slack' = k /\ missed' = m + 1
      BY <1>1, <2>3, <2>7, <2>11 DEF Slack
    <3>2. PICK b \in Nat : b = req'[c].age
      BY <2>9
    <3>3. ~(m + 1 >= PresenceTtl - 1 /\ b >= PresenceTtl - 1)
      BY <1>1, <2>1, <2>2, <2>11, <3>1, <3>2
    <3>4. n + 1 <= PresenceTtl - 2 + k
      BY <2>6, <2>7, <2>9, <3>2, <3>3, RoundsAssumption
    <3>5. n + 1 <= m + 1 + k
      BY <2>6, <2>7
    <3>. QED BY <2>8, <2>9, <3>1, <3>4, <3>5 DEF RowFresh
  <2>. QED BY <2>10, <2>11
<1>. QED BY <1>1, <1>2, <1>3, <1>4, <1>5, <1>6, HostUntouched

(* A step that keeps the presence rows, the rounds missed and the copy's
   claim, and does not end the slack. *)
LEMMA PresenceKept ==
  ASSUME IInv, UNCHANGED <<host, conn, missed, lapsed>>, Slack' = Slack \/ Slack' = 1,
         host.phase = "working" => req'[host.id] = req[host.id]
  PROVE  PresenceFresh'
<1>1. SUFFICES ASSUME NEW c \in Copies, c \notin lapsed, host.phase = "working", host.id = c
               PROVE  RowFresh(c)'
  BY DEF PresenceFresh
<1>2. PICK m \in Nat, k \in {0, 1} : m = missed /\ k = Slack
  BY RoundsMissed DEF IInv
<1>3. RowFresh(c) /\ req'[c] = req[c]
  BY <1>1 DEF IInv, PresenceFresh
<1>. QED BY <1>2, <1>3, RoundsAssumption DEF RowFresh

LEMMA RecordStep ==
  ASSUME IInv, NEW r \in Requests, record(r) PROVE IInv'
<1>. USE DEF IInv
<1>1. /\ req[r].state = "none" /\ req' = [req EXCEPT ![r].state = "pending"]
      /\ asked' = Append(asked, r)
      /\ UNCHANGED <<running, conn, host, pending, beat, worker, volume, open, missed, due, faults,
                     starts, told, lapsed, world>>
  BY DEF record
<1>2. PICK q : q = [req[r] EXCEPT !.state = "pending"]
  OBVIOUS
<1>3. req \in [Requests -> ReqRecs] /\ q \in ReqRecs /\ q.state = "pending"
  BY <1>2, SetState, TypesByPart DEF ChannelTypes
<1>4. /\ req' \in [Requests -> ReqRecs] /\ req'[r] = q
      /\ \A s \in Requests : s # r => req'[s] = req[s]
  BY <1>1, <1>2, <1>3
<1>5. ChannelTypes' /\ LoopTypes' /\ WorldTypes'
  <2>1. asked' \in Seq(Requests)
    BY <1>1, AppendProperties DEF TypeOK
  <2>. QED BY <1>1, <1>4, <2>1, TypesByPart DEF ChannelTypes, LoopTypes, WorldTypes
<1>6. ToldOnce'
  BY <1>1, <1>3, <1>4 DEF ToldOnce, Over
<1>7. CallClaimed'
  BY <1>1, <1>4, KindsApart DEF CallClaimed
<1>8. PresenceFresh'
  <2>1. UNCHANGED <<host, conn, missed, lapsed>> /\ Slack' = Slack
    BY <1>1 DEF Slack
  <2>2. ASSUME host.phase = "working" PROVE req'[host.id] = req[host.id]
    BY <1>1, <1>4, <2>2 DEF WorkClaimed, HostShape, Requests
  <2>. QED BY <2>1, <2>2, PresenceKept
<1>. QED BY <1>1, <1>3, <1>4, <1>5, <1>6, <1>7, <1>8, HostUntouched

(* A step of the VM loop that changes no request. *)
LEMMA LoopMoves ==
  ASSUME IInv, hostUnchanged, UNCHANGED <<req, told>>, Fault \/ UNCHANGED faults,
         LoopTypes', CallClaimed', PresenceFresh', conn' \in [Copies -> Gone..(PresenceTtl + 1)]
  PROVE  IInv'
<1>. USE DEF IInv
<1>1. UNCHANGED <<asked, running, host, pending, beat, starts, lapsed, world>>
  BY DEF hostUnchanged
<1>2. ChannelTypes'
  BY <1>1, TypesByPart DEF ChannelTypes
<1>3. WorldTypes'
  BY <1>1, OneFault, TypesByPart DEF WorldTypes
<1>4. ToldOnce'
  BY DEF ToldOnce
<1>. QED BY <1>1, <1>2, <1>3, <1>4, HostUntouched

LEMMA RefreshStep ==
  ASSUME IInv, refreshRestorePresence PROVE IInv'
<1>. USE DEF IInv
<1>1. /\ due' = FALSE /\ missed' = 0
      /\ conn' = [c \in Copies |-> IF Refreshed(c) THEN 0 ELSE conn[c]]
      /\ worker' = [worker EXCEPT !.phase = "claim"]
      /\ UNCHANGED <<req, volume, open, faults, told>> /\ hostUnchanged
      /\ UNCHANGED <<host, lapsed, world>>
  BY DEF refreshRestorePresence, hostUnchanged
<1>2. /\ worker'.phase = "claim"
      /\ worker' \in [phase : {"down", "idle", "claim", "call"}, id : VmDeletes \union {None}]
  BY <1>1 DEF TypeOK
<1>3. LoopTypes'
  <2>1. missed' \in 0..world.skips
    BY <1>1, RoundsMissed
  <2>. QED BY <1>1, <1>2, <2>1, TypesByPart DEF LoopTypes
<1>4. CallClaimed'
  BY <1>2 DEF CallClaimed
<1>5. conn' \in [Copies -> Gone..(PresenceTtl + 1)]
  BY <1>1, RoundsAssumption DEF TypeOK, Gone
<1>6. PresenceFresh'
  <2>1. SUFFICES ASSUME NEW c \in Copies, c \notin lapsed, host.phase = "working", host.id = c
                 PROVE  RowFresh(c)'
    BY <1>1 DEF PresenceFresh
  <2>2. RowFresh(c)
    BY <2>1 DEF PresenceFresh
  <2>3. Refreshed(c)
    BY <2>1, <2>2 DEF RowFresh, Refreshed, WorkClaimed, Gone
  <2>4. conn'[c] = 0 /\ missed' = 0 /\ Slack' = 0
    BY <1>1, <1>2, <2>3 DEF Slack
  <2>5. req[c].age >= 0
    <3>1. req[c] \in ReqRecs
      BY <2>1, TypesByPart, KindsApart DEF ChannelTypes
    <3>. QED BY <3>1, RoundsAssumption DEF ReqRecs
  <2>. QED BY <1>1, <2>4, <2>5, RoundsAssumption DEF RowFresh
<1>. QED BY <1>1, <1>3, <1>4, <1>5, <1>6, LoopMoves

LEMMA ClaimStep ==
  ASSUME IInv, claimVmDelete PROVE IInv'
<1>. USE DEF IInv
<1>0. /\ worker.phase = "claim" /\ hostUnchanged
      /\ UNCHANGED <<asked, running, host, pending, beat, starts, lapsed, world,
                     conn, volume, missed, due, faults, told>>
  BY DEF claimVmDelete, hostUnchanged
<1>1. CASE Claimable = {}
  <2>1. worker' = [phase |-> "idle", id |-> None] /\ UNCHANGED <<req, open>>
    BY <1>1 DEF claimVmDelete
  <2>2. LoopTypes' /\ CallClaimed'
    BY <1>0, <2>1, TypesByPart DEF LoopTypes, CallClaimed
  <2>3. Slack' = Slack
    BY <1>0, <2>1 DEF Slack
  <2>4. PresenceFresh'
    BY <1>0, <2>1, <2>3, PresenceKept
  <2>5. conn' \in [Copies -> Gone..(PresenceTtl + 1)]
    BY <1>0 DEF TypeOK
  <2>. QED BY <1>0, <2>1, <2>2, <2>4, <2>5, LoopMoves
<1>2. CASE Claimable # {}
  <2>1. PICK r \in Claimable : /\ req' = [req EXCEPT ![r] = [state |-> "claimed", age |-> 0]]
                               /\ worker' = [phase |-> "call", id |-> r]
                               /\ open' = (open \/ volume)
    BY <1>2 DEF claimVmDelete
  <2>2. r \in VmDeletes /\ r \in Requests /\ req[r].state \in {"pending", "claimed"}
    <3>1. r \in {s \in VmDeletes : \/ req[s].state = "pending"
                                   \/ req[s].state = "claimed" /\ req[s].age > ClaimTimeout}
      BY <2>1, OldestOf DEF Claimable
    <3>. QED BY <3>1, KindsApart
  <2>3. /\ req' \in [Requests -> ReqRecs] /\ req'[r].state = "claimed"
        /\ \A s \in Requests : s # r => req'[s] = req[s]
    BY <2>1, <2>2, ClaimedRec, TypesByPart DEF ChannelTypes
  <2>4. ChannelTypes' /\ WorldTypes'
    BY <1>0, <2>3, TypesByPart DEF ChannelTypes, WorldTypes
  <2>5. LoopTypes'
    <3>1. open' \in BOOLEAN
      BY <2>1, Zenon DEF TypeOK
    <3>. QED BY <1>0, <2>1, <2>2, <3>1, TypesByPart DEF LoopTypes
  <2>6. CallClaimed'
    BY <2>1, <2>2, <2>3 DEF CallClaimed
  <2>7. ToldOnce'
    BY <1>0, <2>2, <2>3 DEF ToldOnce, Over
  <2>8. PresenceFresh'
    <3>1. Slack' = Slack
      BY <1>0, <2>1 DEF Slack
    <3>2. ASSUME host.phase = "working" PROVE req'[host.id] = req[host.id]
      BY <2>2, <2>3, <3>2, KindsApart DEF HostShape
    <3>. QED BY <1>0, <3>1, <3>2, PresenceKept
  <2>. QED BY <1>0, <2>2, <2>3, <2>4, <2>5, <2>6, <2>7, <2>8, HostUntouched
<1>. QED BY <1>1, <1>2

LEMMA DeleteAnsweredStep ==
  ASSUME IInv, deleteAnswered PROVE IInv'
<1>. USE DEF IInv
<1>1. PICK s \in {"done", "failed"} : req' = Finished({worker.id}, s)
  BY DEF deleteAnswered
<1>2. /\ worker.phase = "call" /\ told' = Told({worker.id})
      /\ worker' = [phase |-> "claim", id |-> None]
      /\ UNCHANGED <<conn, volume, open, missed, due>>
      /\ UNCHANGED <<asked, running, host, pending, beat, starts, lapsed, world>>
  BY DEF deleteAnswered, hostUnchanged
<1>3. Fault \/ UNCHANGED faults
  BY DEF deleteAnswered
<1>4. PICK r : r = worker.id
  OBVIOUS
<1>5. r \in VmDeletes /\ r \in Requests /\ req[r].state = "claimed"
  BY <1>2, <1>4, KindsApart DEF CallClaimed
<1>6. PICK q : q = [req[r] EXCEPT !.state = s]
  OBVIOUS
<1>7. req \in [Requests -> ReqRecs] /\ q \in ReqRecs /\ q.state = s
  <2>1. req \in [Requests -> ReqRecs] /\ req[r] \in ReqRecs
    BY <1>5, TypesByPart DEF ChannelTypes
  <2>2. s \in {"none", "pending", "claimed", "done", "failed", "interrupted"}
    OBVIOUS
  <2>. QED BY ONLY <1>6, <2>1, <2>2, SetState
<1>8. /\ req' \in [Requests -> ReqRecs] /\ req'[r] = q
      /\ \A p \in Requests : p # r => req'[p] = req[p]
  <2>1. req' = [p \in Requests |-> IF p = r THEN q ELSE req[p]]
    BY <1>1, <1>4, <1>6 DEF Finished
  <2>. QED BY <1>5, <1>7, <2>1
<1>9. /\ told' \in [Requests -> Nat] /\ told'[r] = told[r] + 1
      /\ \A p \in Requests : p # r => told'[p] = told[p]
  BY <1>2, <1>4, <1>5 DEF Told, TypeOK
<1>10. ChannelTypes' /\ WorldTypes' /\ LoopTypes'
  <2>1. WorldTypes'
    BY <1>2, <1>3, OneFault, TypesByPart DEF WorldTypes
  <2>. QED BY <1>2, <1>8, <1>9, <2>1, TypesByPart DEF ChannelTypes, LoopTypes
<1>11. ToldOnce'
  <2>1. told[r] = 0
    BY <1>5 DEF ToldOnce, Over
  <2>. QED BY <1>7, <1>8, <1>9, <2>1 DEF ToldOnce, Over
<1>12. CallClaimed'
  BY <1>2 DEF CallClaimed
<1>13. PresenceFresh'
  <2>1. Slack' = Slack
    BY <1>2 DEF Slack
  <2>2. ASSUME host.phase = "working" PROVE req'[host.id] = req[host.id]
    BY <1>5, <1>8, <2>2, KindsApart DEF HostShape
  <2>. QED BY <1>2, <2>1, <2>2, PresenceKept
<1>. QED BY <1>2, <1>5, <1>7, <1>8, <1>10, <1>11, <1>12, <1>13, HostUntouched

LEMMA VolumeSteps ==
  ASSUME IInv, volumeGoes \/ deleteFails PROVE IInv'
<1>1. /\ UNCHANGED <<req, conn, worker, missed, due, told>> /\ hostUnchanged
      /\ volume' \in BOOLEAN /\ open' \in BOOLEAN
      /\ Fault \/ UNCHANGED faults
      /\ UNCHANGED <<host, lapsed, world>>
  BY DEF volumeGoes, deleteFails, hostUnchanged, IInv, TypeOK
<1>2. LoopTypes' /\ CallClaimed'
  BY <1>1, TypesByPart DEF IInv, LoopTypes, CallClaimed
<1>3. PresenceFresh'
  <2>1. Slack' = Slack
    BY <1>1 DEF Slack
  <2>. QED BY <1>1, <2>1, PresenceKept
<1>4. conn' \in [Copies -> Gone..(PresenceTtl + 1)]
  BY <1>1 DEF IInv, TypeOK
<1>. QED BY <1>1, <1>2, <1>3, <1>4, LoopMoves

LEMMA WorkerSteps ==
  ASSUME IInv, workerStops \/ workerStarts PROVE IInv'
<1>1. PICK p \in {"down", "idle"} :
        /\ worker' = [phase |-> p, id |-> None] /\ due' = (p = "idle")
  BY DEF workerStops, workerStarts
<1>2. /\ UNCHANGED <<req, conn, volume, open, missed, told>> /\ hostUnchanged
      /\ UNCHANGED <<host, lapsed, world>>
  BY DEF workerStops, workerStarts, hostUnchanged
<1>3. Fault \/ UNCHANGED faults
  BY DEF workerStops, workerStarts
<1>4. LoopTypes' /\ CallClaimed'
  <2>1. due' \in BOOLEAN
    BY <1>1, Zenon
  <2>. QED BY <1>1, <1>2, <2>1, TypesByPart DEF IInv, LoopTypes, CallClaimed
<1>5. PresenceFresh'
  <2>1. Slack' = 1
    BY <1>1 DEF Slack
  <2>. QED BY <1>2, <2>1, PresenceKept
<1>6. conn' \in [Copies -> Gone..(PresenceTtl + 1)]
  BY <1>2 DEF IInv, TypeOK
<1>. QED BY <1>2, <1>3, <1>4, <1>5, <1>6, LoopMoves

(* A row that the sweep removes is older than that of a copy under way that
   did not lapse. *)
LEMMA ExpireStep ==
  ASSUME IInv, NEW c \in Copies, expirePresence(c) PROVE IInv'
<1>1. /\ conn[c] >= PresenceTtl /\ conn' = [conn EXCEPT ![c] = Gone]
      /\ UNCHANGED <<req, worker, volume, open, missed, due, faults, told>> /\ hostUnchanged
      /\ UNCHANGED <<host, lapsed, world>>
  BY DEF expirePresence, hostUnchanged
<1>2. LoopTypes' /\ CallClaimed'
  BY <1>1, TypesByPart DEF IInv, LoopTypes, CallClaimed
<1>3. conn' \in [Copies -> Gone..(PresenceTtl + 1)]
  BY <1>1, RoundsAssumption DEF IInv, TypeOK, Gone
<1>4. PresenceFresh'
  <2>1. SUFFICES ASSUME NEW d \in Copies, d \notin lapsed, host.phase = "working", host.id = d
                 PROVE  RowFresh(d)'
    BY <1>1 DEF PresenceFresh
  <2>2. RowFresh(d) /\ Slack \in {0, 1} /\ Slack' = Slack
    BY <1>1, <2>1, RoundsMissed DEF IInv, PresenceFresh, Slack
  <2>3. conn[d] <= PresenceTtl - 1
    BY <2>2, RoundsAssumption DEF RowFresh
  <2>4. d # c
    BY <1>1, <2>2, <2>3, RoundsAssumption DEF RowFresh
  <2>. QED BY <1>1, <2>2, <2>4 DEF IInv, TypeOK, RowFresh
<1>. QED BY <1>1, <1>2, <1>3, <1>4, LoopMoves

----------------------------------------------------------------------------
LEMMA InitInvariant == Init => IInv
<1>1. SUFFICES ASSUME Init PROVE IInv
  OBVIOUS
<1>2. TypeOK
  <2>1. ChannelTypes
    BY <1>1, RoundsAssumption DEF Init, ChannelTypes, ReqRecs, Gone, None
  <2>2. HostTypes
    BY <1>1, NoResultTyped DEF Init, HostTypes, Phases
  <2>3. LoopTypes
    <3>1. world \in Worlds /\ missed = 0
      BY <1>1 DEF Init
    <3>2. world.skips \in Nat
      BY <3>1, BoundsAssumption
    <3>3. missed \in 0..world.skips
      BY <3>1, <3>2
    <3>. QED BY <1>1, <3>3 DEF Init, LoopTypes
  <2>4. WorldTypes
    BY <1>1, BoundsAssumption, EmptySeq DEF Init, WorldTypes
  <2>. QED BY <2>1, <2>2, <2>3, <2>4, TypesByPart
<1>3. ToldOnce /\ StartedOnce /\ WorkClaimed /\ CallClaimed /\ InterruptedIsLost /\ PresenceFresh
  BY <1>1, KindsApart
     DEF Init, ToldOnce, StartedOnce, WorkClaimed, CallClaimed, InterruptedIsLost, PresenceFresh, Over
<1>4. HostShape
  BY <1>1 DEF Init, HostShape
<1>. QED BY <1>2, <1>3, <1>4 DEF IInv

LEMMA StutterStep ==
  ASSUME IInv, UNCHANGED vars PROVE IInv'
<1>1. UNCHANGED <<asked, req, running, conn, host, pending, beat, worker, volume, open,
                  missed, due, faults, starts, told, lapsed, world>>
  BY DEF vars
<1>2. hostUnchanged
  BY <1>1 DEF hostUnchanged
<1>3. LoopTypes' /\ CallClaimed' /\ conn' \in [Copies -> Gone..(PresenceTtl + 1)]
  BY <1>1, TypesByPart DEF IInv, LoopTypes, CallClaimed, ChannelTypes
<1>4. PresenceFresh'
  BY <1>1 DEF IInv, PresenceFresh, RowFresh, Slack
<1>. QED BY <1>1, <1>2, <1>3, <1>4, LoopMoves

LEMMA Invariant == Spec => []IInv
<1>1. Init => IInv
  BY InitInvariant
<1>2. ASSUME IInv, [Next]_vars PROVE IInv'
  <2>1. CASE Tick \/ \E r \in Requests : record(r)
    BY <1>2, <2>1, TickStep, RecordStep
  <2>2. CASE Host \/ heartbeat \/ heartbeatArrives \/ lostPull \/ lostNothing \/ lostResult
             \/ heartbeatLost \/ hostCrash
    BY <1>2, <2>2, HostSteps
  <2>3. CASE refreshRestorePresence \/ claimVmDelete \/ deleteAnswered
    BY <1>2, <2>3, RefreshStep, ClaimStep, DeleteAnsweredStep
  <2>4. CASE volumeGoes \/ deleteFails \/ workerStops \/ workerStarts
             \/ \E c \in Copies : expirePresence(c)
    BY <1>2, <2>4, VolumeSteps, WorkerSteps, ExpireStep
  <2>. QED BY <1>2, <2>1, <2>2, <2>3, <2>4, StutterStep DEF Next
<1>. QED BY <1>1, <1>2, PTL DEF Spec

(* A request that a pull failed as interrupted is not in the host's hands,
   neither as its job nor as a result that waits to be delivered. *)
THEOREM InterruptedWasLost == Spec => []InterruptedIsLost
<1>1. IInv => InterruptedIsLost
  BY DEF IInv
<1>. QED BY <1>1, Invariant, PTL

(* Whatever is lost and whoever stops, the host begins a request at most once
   and a request is finished, audited and notified exactly when it is over. *)
THEOREM BegunAndToldOnce == Spec => []OnceOnly
<1>1. IInv => OnceOnly
  BY KindsApart DEF IInv, ToldOnce, StartedOnce, OnceOnly
<1>. QED BY <1>1, Invariant, PTL

(* While the host works on a copy its workspace has a presence row, unless the
   VM loop was busy or stopped in every round but the last of the row's life. *)
THEOREM CopyKeepsItsRow == Spec => []CopyHeld
<1>1. IInv => CopyHeld
  BY DEF IInv, PresenceFresh, RowFresh, CopyHeld, Gone
<1>. QED BY <1>1, Invariant, PTL
=============================================================================
