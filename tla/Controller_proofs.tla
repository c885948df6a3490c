-------------------------- MODULE Controller_proofs --------------------------
(***************************************************************************)
(* Proofs about SingleFlight: for any number of callers, two runs never    *)
(* overlap and a run is aborted exactly when nobody waits for it.          *)
(*                                                                         *)
(* Both rest on the counter: Flight.waiters is the number of callers that  *)
(* wait on the run.  A caller that goes on from the queue is counted once  *)
(* only because it stands there once, waits on no run while it does, and   *)
(* stands in no other queue (Places).                                      *)
(*                                                                         *)
(* At the end, for any bounds, the operation that most needs it: the swap  *)
(* of HomeSwap tells the owner the truth about the home.  From the import  *)
(* on, the swap is in one of two states whatever was cut off (HomeIsSafe), *)
(* and what a run has read stays so while it lasts (RunSees), since no     *)
(* second run is on beside it.                                             *)
(***************************************************************************)
EXTENDS SingleFlight, HomeSwap, SequenceTheorems, FiniteSetTheorems, WellFoundedInduction, TLAPS

Distinct(s) == \A i, j \in 1..Len(s) : s[i] = s[j] => i = j
Has(s, c) == \E i \in 1..Len(s) : s[i] = c
AllParked(s) == \A i \in 1..Len(s) : phase[s[i]] = "parked"

(* Flight.waiters is the number of callers that wait on the run. *)
Counted == \A f \in Flights : waiters[f] = Cardinality(Waiting(f))

(* Nobody waits on a run that has settled; only runs are aborted. *)
WaitsOnRun == \A c \in Callers : phase[c] = "waiting" => on[c] \in running
AbortedRuns == aborted \subseteq running

(* Callers are parked on the current run only, and a parked caller stands in
   one queue at one place. *)
ParkedOnEntry == \A f \in Flights : f # entry => parked[f] = <<>>
ParkedQueues == \A f \in Flights : AllParked(parked[f]) /\ Distinct(parked[f])
ResumingQueue == AllParked(resuming) /\ Distinct(resuming)
QueuesApart == \A f \in Flights : \A c \in Callers : ~(Has(parked[f], c) /\ Has(resuming, c))
Places == ParkedOnEntry /\ ParkedQueues /\ ResumingQueue /\ QueuesApart

IInv == /\ TypeOK /\ OneRun /\ AbortedWhenAbandoned
        /\ Counted /\ WaitsOnRun /\ AbortedRuns /\ Places

----------------------------------------------------------------------------
(* Queues. *)
LEMMA EmptyQueue == Len(<<>>) = 0 /\ Distinct(<<>>) /\ AllParked(<<>>) /\ \A c : ~Has(<<>>, c)
BY DEF Distinct, AllParked, Has

LEMMA PushQueue ==
  ASSUME NEW s \in Seq(Callers), NEW c \in Callers, Distinct(s), ~Has(s, c)
  PROVE  /\ Append(s, c) \in Seq(Callers)
         /\ Distinct(Append(s, c))
         /\ \A d \in Callers : Has(Append(s, c), d) => d = c \/ Has(s, d)
<1> DEFINE t == Append(s, c)
<1>1. /\ t \in Seq(Callers) /\ Len(t) = Len(s) + 1 /\ Len(s) \in Nat
      /\ \A i \in 1..Len(s) : t[i] = s[i]
      /\ t[Len(s) + 1] = c
  BY AppendProperties, LenProperties
<1>2. ASSUME NEW i \in 1..Len(t), NEW j \in 1..Len(t), t[i] = t[j] PROVE i = j
  <2>1. i \in 1..Len(s) \/ i = Len(s) + 1
    BY <1>1
  <2>2. j \in 1..Len(s) \/ j = Len(s) + 1
    BY <1>1
  <2>. QED BY <1>1, <1>2, <2>1, <2>2 DEF Distinct, Has
<1>3. ASSUME NEW d \in Callers, Has(t, d) PROVE d = c \/ Has(s, d)
  BY <1>1, <1>3 DEF Has
<1>. QED BY <1>1, <1>2, <1>3 DEF Distinct

LEMMA PopQueue ==
  ASSUME NEW s \in Seq(Callers), s # <<>>, Distinct(s)
  PROVE  /\ Tail(s) \in Seq(Callers) /\ Distinct(Tail(s))
         /\ Head(s) \in Callers /\ Has(s, Head(s)) /\ ~Has(Tail(s), Head(s))
         /\ \A d \in Callers : Has(Tail(s), d) => Has(s, d)
<1> DEFINE t == Tail(s)
<1>1. /\ Head(s) \in Callers /\ t \in Seq(Callers) /\ Len(t) = Len(s) - 1
      /\ \A i \in 1..Len(t) : t[i] = s[i + 1]
      /\ Len(s) \in Nat \ {0} /\ Len(t) \in Nat
  BY HeadTailProperties, EmptySeq, LenProperties
<1>2. Head(s) = s[1]
  OBVIOUS
<1>3. Distinct(t)
  <2>1. ASSUME NEW i \in 1..Len(t), NEW j \in 1..Len(t), t[i] = t[j] PROVE i = j
    <3>1. i + 1 \in 1..Len(s) /\ j + 1 \in 1..Len(s) /\ s[i + 1] = s[j + 1]
      BY <1>1, <2>1
    <3>. QED BY <3>1 DEF Distinct
  <2>. QED BY <2>1 DEF Distinct
<1>4. ~Has(t, Head(s))
  <2>1. SUFFICES ASSUME NEW i \in 1..Len(t), t[i] = Head(s) PROVE FALSE
    BY DEF Has
  <2>2. i + 1 \in 1..Len(s) /\ 1 \in 1..Len(s) /\ s[i + 1] = s[1] /\ i + 1 # 1
    BY <1>1, <1>2, <2>1
  <2>. QED BY <2>2 DEF Distinct
<1>5. ASSUME NEW d \in Callers, Has(t, d) PROVE Has(s, d)
  <2>1. PICK i \in 1..Len(t) : t[i] = d
    BY <1>5 DEF Has
  <2>2. i + 1 \in 1..Len(s) /\ s[i + 1] = d
    BY <1>1, <2>1
  <2>. QED BY <2>2 DEF Has
<1>6. Has(s, Head(s))
  BY <1>1, <1>2 DEF Has
<1>. QED BY <1>1, <1>3, <1>4, <1>5, <1>6

(* A queue of parked callers is one when c's phase changes and c is not in
   it. *)
LEMMA StillParked ==
  ASSUME TypeOK, NEW s \in Seq(Callers), AllParked(s), NEW c \in Callers, ~Has(s, c),
         NEW p, phase' = [phase EXCEPT ![c] = p]
  PROVE  \A i \in 1..Len(s) : phase'[s[i]] = "parked"
<1>. SUFFICES ASSUME NEW i \in 1..Len(s) PROVE phase'[s[i]] = "parked"
  OBVIOUS
<1>2. s[i] \in Callers /\ s[i] # c
  BY ElementOfSeq DEF Has
<1>. QED BY <1>2 DEF AllParked, TypeOK

LEMMA ParkedMembers ==
  ASSUME NEW s \in Seq(Callers), AllParked(s), NEW c \in Callers, Has(s, c)
  PROVE  phase[c] = "parked"
BY DEF AllParked, Has

----------------------------------------------------------------------------
(* Who waits on a run. *)
LEMMA WaitingFinite ==
  ASSUME NEW f PROVE IsFiniteSet(Waiting(f)) /\ Cardinality(Waiting(f)) \in Nat
BY FS_Subset, FS_CardinalityType, CallersAssumption DEF Waiting

LEMMA NobodyOnSettled ==
  ASSUME WaitsOnRun, NEW f \in Flights \ running PROVE Waiting(f) = {}
BY DEF WaitsOnRun, Waiting

LEMMA NobodyCounted ==
  ASSUME TypeOK, Counted, NEW f \in Flights PROVE waiters[f] = 0 <=> Waiting(f) = {}
BY WaitingFinite, FS_EmptySet DEF Counted

(* A caller joins a run. *)
LEMMA JoinCounts ==
  ASSUME TypeOK, Counted, NEW f \in Flights, NEW c \in Callers, phase[c] # "waiting",
         waiters' = [waiters EXCEPT ![f] = @ + 1],
         phase' = [phase EXCEPT ![c] = "waiting"], on' = [on EXCEPT ![c] = f]
  PROVE  /\ Counted'
         /\ Waiting(f)' = Waiting(f) \union {c}
         /\ \A g \in Flights \ {f} : Waiting(g)' = Waiting(g)
<1>1. Waiting(f)' = Waiting(f) \union {c}
  BY DEF Waiting, TypeOK
<1>2. ASSUME NEW g \in Flights \ {f} PROVE Waiting(g)' = Waiting(g)
  BY DEF Waiting, TypeOK
<1>3. Cardinality(Waiting(f)')  = Cardinality(Waiting(f)) + 1
  <2>1. c \notin Waiting(f)
    BY DEF Waiting
  <2>. QED BY <1>1, <2>1, WaitingFinite, FS_AddElement
<1>4. Counted'
  <2>1. SUFFICES ASSUME NEW g \in Flights PROVE waiters'[g] = Cardinality(Waiting(g)')
    BY DEF Counted
  <2>2. CASE g = f
    BY <1>3, <2>2 DEF Counted, TypeOK
  <2>3. CASE g # f
    BY <1>2, <2>3 DEF Counted, TypeOK
  <2>. QED BY <2>2, <2>3
<1>. QED BY <1>1, <1>2, <1>4

(* A caller that waits nowhere changes nobody's wait. *)
LEMMA SameWaiting ==
  ASSUME TypeOK, NEW c \in Callers, phase[c] # "waiting", NEW p, p # "waiting",
         phase' = [phase EXCEPT ![c] = p], UNCHANGED on
  PROVE  \A g \in Flights : Waiting(g)' = Waiting(g)
BY DEF Waiting, TypeOK

----------------------------------------------------------------------------
(* Where callers stand after c, which stands in no queue, has got a phase
   other than "parked" and r is left to be resumed. *)
LEMMA PlacesStep ==
  ASSUME TypeOK, Places, NEW c \in Callers, \A f \in Flights : ~Has(parked[f], c),
         NEW r \in Seq(Callers), resuming' = r, ~Has(r, c), AllParked(r), Distinct(r),
         \A f \in Flights : \A d \in Callers : ~(Has(parked[f], d) /\ Has(r, d)),
         NEW p, phase' = [phase EXCEPT ![c] = p], UNCHANGED parked,
         entry' = entry \/ entry = NoFlight
  PROVE  Places'
<1>1. ParkedOnEntry'
  <2>1. ASSUME NEW f \in Flights, f # entry' PROVE parked'[f] = <<>>
    BY <2>1, NoFlightAssumption DEF Places, ParkedOnEntry
  <2>. QED BY <2>1 DEF ParkedOnEntry
<1>2. ParkedQueues'
  <2>1. ASSUME NEW f \in Flights PROVE AllParked(parked[f])' /\ Distinct(parked[f])'
    <3>1. parked[f] \in Seq(Callers) /\ AllParked(parked[f]) /\ Distinct(parked[f])
      BY DEF TypeOK, Places, ParkedQueues
    <3>2. \A i \in 1..Len(parked[f]) : phase'[parked[f][i]] = "parked"
      BY <3>1, StillParked
    <3>. QED BY <3>1, <3>2 DEF AllParked, Distinct
  <2>. QED BY <2>1 DEF ParkedQueues
<1>3. ResumingQueue'
  <2>1. \A i \in 1..Len(r) : phase'[r[i]] = "parked"
    BY StillParked
  <2>. QED BY <2>1 DEF ResumingQueue, AllParked, Distinct
<1>4. QueuesApart'
  BY DEF QueuesApart, Has
<1>. QED BY <1>1, <1>2, <1>3, <1>4 DEF Places

(* The same when c parks on the current run. *)
LEMMA PlacesPark ==
  ASSUME TypeOK, Places, NEW c \in Callers, \A f \in Flights : ~Has(parked[f], c),
         NEW r \in Seq(Callers), resuming' = r, ~Has(r, c), AllParked(r), Distinct(r),
         \A f \in Flights : \A d \in Callers : ~(Has(parked[f], d) /\ Has(r, d)),
         phase' = [phase EXCEPT ![c] = "parked"], UNCHANGED entry, entry \in Flights,
         parked' = [parked EXCEPT ![entry] = Append(@, c)]
  PROVE  Places'
<1>0. ASSUME NEW f \in Flights
      PROVE  /\ parked[f] \in Seq(Callers) /\ Distinct(parked[f])
             /\ \A i \in 1..Len(parked[f]) : phase'[parked[f][i]] = "parked"
             /\ parked'[f] = IF f = entry THEN Append(parked[f], c) ELSE parked[f]
  <2>1. parked[f] \in Seq(Callers) /\ AllParked(parked[f]) /\ Distinct(parked[f])
    BY DEF TypeOK, Places, ParkedQueues
  <2>2. \A i \in 1..Len(parked[f]) : phase'[parked[f][i]] = "parked"
    BY <2>1, StillParked
  <2>. QED BY <2>1, <2>2 DEF TypeOK
<1>1. ParkedOnEntry'
  BY <1>0 DEF Places, ParkedOnEntry
<1>2. ParkedQueues'
  <2>1. ASSUME NEW f \in Flights PROVE AllParked(parked[f])' /\ Distinct(parked[f])'
    <3>1. CASE f # entry
      <4>1. PICK s : s = parked[f]
        OBVIOUS
      <4>2. parked'[f] = s /\ Distinct(s) /\ \A i \in 1..Len(s) : phase'[s[i]] = "parked"
        BY <1>0, <3>1, <4>1
      <4>. QED BY ONLY <4>2 DEF AllParked, Distinct
    <3>2. CASE f = entry
      <4>1. Distinct(Append(parked[f], c))
        BY <1>0, PushQueue
      <4>2. \A i \in 1..Len(Append(parked[f], c)) : phase'[Append(parked[f], c)[i]] = "parked"
        BY <1>0, AppendProperties, LenProperties DEF TypeOK
      <4>. QED BY <1>0, <3>2, <4>1, <4>2 DEF AllParked, Distinct
    <3>. QED BY <3>1, <3>2
  <2>. QED BY <2>1 DEF ParkedQueues
<1>3. ResumingQueue'
  <2>1. \A i \in 1..Len(r) : phase'[r[i]] = "parked"
    BY StillParked
  <2>. QED BY <2>1 DEF ResumingQueue, AllParked, Distinct
<1>4. QueuesApart'
  <2>1. ASSUME NEW f \in Flights, NEW d \in Callers, Has(parked'[f], d), Has(r, d) PROVE FALSE
    <3>1. CASE f # entry
      BY <1>0, <2>1, <3>1
    <3>2. CASE f = entry
      <4>1. d = c \/ Has(parked[f], d)
        BY <1>0, <2>1, <3>2, PushQueue
      <4>. QED BY <2>1, <4>1
    <3>. QED BY <3>1, <3>2
  <2>. QED BY <2>1 DEF QueuesApart, Has
<1>. QED BY <1>1, <1>2, <1>3, <1>4 DEF Places

(* singleFlight, called by a caller that waits nowhere and stands in no
   queue, with r left to be resumed. *)
LEMMA SingleFlightStep ==
  ASSUME IInv, NEW c \in Callers, phase[c] # "waiting", \A f \in Flights : ~Has(parked[f], c),
         NEW r \in Seq(Callers), resuming' = r, ~Has(r, c), AllParked(r), Distinct(r),
         \A f \in Flights : \A d \in Callers : ~(Has(parked[f], d) /\ Has(r, d)),
         gone' \in SUBSET Callers, singleFlight(c)
  PROVE  IInv'
<1>. USE DEF IInv
<1>1. CASE entry \in aborted
  <2>0. /\ entry \in Flights
        /\ parked' = [parked EXCEPT ![entry] = Append(@, c)]
        /\ phase' = [phase EXCEPT ![c] = "parked"]
        /\ UNCHANGED <<entry, running, aborted, waiters, on>>
    BY <1>1 DEF singleFlight, TypeOK
  <2>1. TypeOK'
    <3>1. Append(parked[entry], c) \in Seq(Callers)
      BY <2>0, AppendProperties DEF TypeOK
    <3>2. parked' \in [Flights -> Seq(Callers)]
      BY <2>0, <3>1 DEF TypeOK
    <3>3. phase' \in [Callers -> {"idle", "waiting", "parked"}]
      BY <2>0 DEF TypeOK
    <3>. QED BY <2>0, <3>2, <3>3 DEF TypeOK
  <2>2. \A g \in Flights : Waiting(g)' = Waiting(g)
    BY <2>0, SameWaiting
  <2>3. Counted' /\ OneRun' /\ AbortedRuns'
    BY <2>0, <2>2 DEF Counted, OneRun, AbortedRuns
  <2>4. AbortedWhenAbandoned'
    BY <2>0, <2>2 DEF AbortedWhenAbandoned, TypeOK
  <2>5. WaitsOnRun'
    BY <2>0 DEF WaitsOnRun, TypeOK
  <2>6. Places'
    BY <2>0, PlacesPark
  <2>. QED BY <2>1, <2>3, <2>4, <2>5, <2>6
<1>2. CASE entry \notin aborted
  <2>0. PICK f \in IF entry = NoFlight THEN Flights \ running ELSE {entry} :
            entry' = f /\ running' = running \union {f} /\ join(f, c) /\ UNCHANGED parked
    BY <1>2 DEF singleFlight
  <2>1. /\ f \in Flights /\ f \notin aborted /\ running' = {f}
        /\ f \in running \/ Waiting(f) = {}
        /\ entry' = entry \/ entry = NoFlight
    <3>1. CASE entry = NoFlight
      BY <2>0, <3>1, NobodyOnSettled DEF OneRun, AbortedRuns
    <3>2. CASE entry # NoFlight
      BY <1>2, <2>0, <3>2 DEF OneRun, TypeOK
    <3>. QED BY <3>1, <3>2
  <2>2. OneRun'
    BY <2>0, <2>1, NoFlightAssumption DEF OneRun
  <2>3. CASE c \notin gone'
    <3>0. /\ waiters' = [waiters EXCEPT ![f] = @ + 1]
          /\ phase' = [phase EXCEPT ![c] = "waiting"]
          /\ on' = [on EXCEPT ![c] = f]
          /\ UNCHANGED aborted
      BY <2>0, <2>3 DEF join
    <3>1. TypeOK'
      BY <2>0, <2>1, <3>0 DEF TypeOK
    <3>2. Counted' /\ c \in Waiting(f)'
      BY <2>1, <3>0, JoinCounts
    <3>3. AbortedWhenAbandoned' /\ AbortedRuns'
      BY <2>0, <2>1, <3>0, <3>2 DEF AbortedWhenAbandoned, AbortedRuns
    <3>4. WaitsOnRun'
      BY <2>0, <3>0 DEF WaitsOnRun, TypeOK
    <3>5. Places'
      BY <2>0, <2>1, <3>0, PlacesStep
    <3>. QED BY <2>2, <3>1, <3>2, <3>3, <3>4, <3>5
  <2>4. CASE c \in gone'
    <3>0. /\ aborted' = IF waiters[f] = 0 THEN aborted \union {f} ELSE aborted
          /\ phase' = [phase EXCEPT ![c] = "idle"]
          /\ UNCHANGED <<waiters, on>>
      BY <2>0, <2>4 DEF join
    <3>1. TypeOK'
      BY <2>0, <2>1, <3>0 DEF TypeOK
    <3>2. \A g \in Flights : Waiting(g)' = Waiting(g)
      BY <3>0, SameWaiting
    <3>3. Counted'
      BY <3>0, <3>2 DEF Counted
    <3>4. waiters[f] = 0 <=> Waiting(f) = {}
      BY <2>1, NobodyCounted
    <3>5. AbortedWhenAbandoned' /\ AbortedRuns'
      BY <2>0, <2>1, <3>0, <3>2, <3>4 DEF AbortedWhenAbandoned, AbortedRuns
    <3>6. WaitsOnRun'
      BY <2>0, <3>0 DEF WaitsOnRun, TypeOK
    <3>7. Places'
      BY <2>0, <2>1, <3>0, PlacesStep
    <3>. QED BY <2>2, <3>1, <3>3, <3>5, <3>6, <3>7
  <2>. QED BY <2>3, <2>4
<1>. QED BY <1>1, <1>2

----------------------------------------------------------------------------
LEMMA InitInvariant == Init => IInv
<1>1. SUFFICES ASSUME Init PROVE IInv
  OBVIOUS
<1>2. \A f : Waiting(f) = {}
  BY <1>1 DEF Init, Waiting
<1>3. TypeOK
  BY <1>1 DEF Init, TypeOK
<1>4. OneRun /\ AbortedWhenAbandoned /\ WaitsOnRun /\ AbortedRuns
  BY <1>1 DEF Init, OneRun, AbortedWhenAbandoned, WaitsOnRun, AbortedRuns
<1>5. Counted
  BY <1>1, <1>2, FS_EmptySet DEF Init, Counted
<1>6. Places
  BY <1>1, EmptyQueue DEF Init, Places, ParkedOnEntry, ParkedQueues, ResumingQueue, QueuesApart
<1>. QED BY <1>3, <1>4, <1>5, <1>6 DEF IInv

LEMMA ArriveStep ==
  ASSUME IInv, NEW c \in Callers, Arrive(c) PROVE IInv'
<1>1. /\ phase[c] = "idle" /\ resuming = <<>> /\ resuming' = resuming
      /\ gone' \in SUBSET Callers /\ singleFlight(c)
  BY DEF Arrive, IInv, TypeOK
<1>2. \A f \in Flights : ~Has(parked[f], c)
  BY <1>1, ParkedMembers DEF IInv, TypeOK, Places, ParkedQueues
<1>3. <<>> \in Seq(Callers)
  BY EmptySeq
<1>. QED BY <1>1, <1>2, <1>3, EmptyQueue, SingleFlightStep

LEMMA ResumeStep ==
  ASSUME IInv, Resume PROVE IInv'
<1>1. PICK c, s, r : s = resuming /\ c = Head(s) /\ r = Tail(s)
  OBVIOUS
<1>2. /\ s \in Seq(Callers) /\ s # <<>> /\ Distinct(s) /\ AllParked(s)
      /\ \A f \in Flights : \A d \in Callers : ~(Has(parked[f], d) /\ Has(s, d))
  BY <1>1 DEF Resume, IInv, TypeOK, Places, ResumingQueue, QueuesApart
<1>3. /\ c \in Callers /\ Has(s, c) /\ ~Has(r, c) /\ r \in Seq(Callers) /\ Distinct(r)
      /\ \A d \in Callers : Has(r, d) => Has(s, d)
  BY <1>1, <1>2, PopQueue
<1>4. phase[c] = "parked" /\ \A f \in Flights : ~Has(parked[f], c)
  BY <1>2, <1>3, ParkedMembers
<1>5. AllParked(r)
  <2>1. SUFFICES ASSUME NEW i \in 1..Len(r) PROVE phase[r[i]] = "parked"
    BY DEF AllParked
  <2>2. r[i] \in Callers /\ Has(r, r[i])
    BY <1>3, ElementOfSeq DEF Has
  <2>. QED BY <1>2, <1>3, <2>2, ParkedMembers
<1>6. resuming' = r /\ gone' \in SUBSET Callers /\ singleFlight(c)
  BY <1>1 DEF Resume, IInv, TypeOK
<1>. QED BY <1>2, <1>3, <1>4, <1>5, <1>6, SingleFlightStep

LEMMA HangUpStep ==
  ASSUME IInv, NEW c \in Callers, HangUp(c) PROVE IInv'
<1>. USE DEF IInv
<1>1. CASE phase[c] = "parked"
  <2>1. UNCHANGED <<entry, running, aborted, waiters, phase, on, parked, resuming>>
    BY <1>1 DEF HangUp
  <2>2. gone' \in SUBSET Callers
    BY DEF HangUp, TypeOK
  <2>. QED BY <2>1, <2>2 DEF TypeOK, OneRun, AbortedWhenAbandoned, Counted, WaitsOnRun,
                AbortedRuns, Places, ParkedOnEntry, ParkedQueues, ResumingQueue, QueuesApart,
                AllParked, Waiting
<1>2. CASE phase[c] = "waiting"
  <2>0. PICK f : f = on[c]
    OBVIOUS
  <2>1. /\ waiters' = [waiters EXCEPT ![f] = @ - 1]
        /\ aborted' = IF waiters[f] = 1 THEN aborted \union {f} ELSE aborted
        /\ phase' = [phase EXCEPT ![c] = "idle"]
        /\ gone' = gone \union {c}
        /\ UNCHANGED <<entry, running, on, parked, resuming>>
    BY <1>2, <2>0 DEF HangUp
  <2>2. f \in Flights /\ f \in running /\ running = {f} /\ entry = f /\ c \in Waiting(f)
    BY <1>2, <2>0 DEF WaitsOnRun, OneRun, TypeOK, Waiting
  <2>3. Waiting(f)' = Waiting(f) \ {c} /\ \A g \in Flights \ {f} : Waiting(g)' = Waiting(g)
    BY <2>0, <2>1 DEF Waiting, TypeOK
  <2>4. Cardinality(Waiting(f)') = waiters[f] - 1 /\ IsFiniteSet(Waiting(f)')
    BY <2>2, <2>3, WaitingFinite, FS_RemoveElement DEF Counted
  <2>5. waiters[f] \in Nat \ {0}
    <3>1. waiters[f] # 0
      BY <2>2, NobodyCounted
    <3>. QED BY <2>2, <3>1 DEF TypeOK
  <2>6. TypeOK'
    BY <2>1, <2>2, <2>5 DEF TypeOK
  <2>7. Counted'
    <3>1. SUFFICES ASSUME NEW g \in Flights PROVE waiters'[g] = Cardinality(Waiting(g)')
      BY DEF Counted
    <3>2. CASE g = f
      BY <2>1, <2>2, <2>4, <3>2 DEF TypeOK
    <3>3. CASE g # f
      BY <2>1, <2>3, <3>3 DEF Counted, TypeOK
    <3>. QED BY <3>2, <3>3
  <2>8. OneRun' /\ WaitsOnRun' /\ AbortedRuns'
    BY <2>1, <2>2 DEF OneRun, WaitsOnRun, AbortedRuns, TypeOK
  <2>9. AbortedWhenAbandoned'
    <3>1. waiters[f] = 1 <=> Waiting(f)' = {}
      BY <2>4, <2>5, FS_EmptySet
    <3>2. f \notin aborted
      BY <2>2 DEF AbortedWhenAbandoned
    <3>. QED BY <2>1, <2>2, <3>1, <3>2 DEF AbortedWhenAbandoned
  <2>10. Places'
    <3>1. \A g \in Flights : ~Has(parked[g], c)
      BY <1>2, ParkedMembers DEF TypeOK, Places, ParkedQueues
    <3>2. PICK r : r = resuming
      OBVIOUS
    <3>3. r \in Seq(Callers) /\ AllParked(r) /\ Distinct(r)
      BY <3>2 DEF TypeOK, Places, ResumingQueue
    <3>4. ~Has(r, c)
      BY <1>2, <3>3, ParkedMembers
    <3>5. \A g \in Flights : \A d \in Callers : ~(Has(parked[g], d) /\ Has(r, d))
      BY <3>2 DEF Places, QueuesApart
    <3>. QED BY <2>1, <3>1, <3>2, <3>3, <3>4, <3>5, PlacesStep
  <2>. QED BY <2>6, <2>7, <2>8, <2>9, <2>10
<1>. QED BY <1>1, <1>2 DEF HangUp

LEMMA SettleStep ==
  ASSUME IInv, NEW f \in Flights, Settle(f) PROVE IInv'
<1>. USE DEF IInv
<1>1. /\ resuming = <<>> /\ f \in running /\ running' = running \ {f}
      /\ aborted' = aborted \ {f} /\ entry' = IF entry = f THEN NoFlight ELSE entry
      /\ waiters' = [waiters EXCEPT ![f] = 0]
      /\ phase' = [c \in Callers |-> IF c \in Waiting(f) THEN "idle" ELSE phase[c]]
      /\ resuming' = parked[f] /\ parked' = [parked EXCEPT ![f] = <<>>]
      /\ UNCHANGED <<on, gone>>
  BY DEF Settle
<1>2. entry = f /\ running = {f} /\ running' = {} /\ entry' = NoFlight
  BY <1>1 DEF OneRun
<1>3. TypeOK'
  <2>1. <<>> \in Seq(Callers)
    BY EmptySeq
  <2>2. parked' \in [Flights -> Seq(Callers)] /\ resuming' \in Seq(Callers)
    BY <1>1, <2>1 DEF TypeOK
  <2>3. phase' \in [Callers -> {"idle", "waiting", "parked"}]
    BY <1>1 DEF TypeOK
  <2>. QED BY <1>1, <1>2, <2>2, <2>3 DEF TypeOK
<1>4. \A g \in Flights : Waiting(g)' = {}
  BY <1>1, <1>2 DEF Waiting, WaitsOnRun, TypeOK
<1>5. Counted'
  <2>1. ASSUME NEW g \in Flights PROVE waiters'[g] = 0
    <3>1. CASE g = f
      BY <1>1, <3>1 DEF TypeOK
    <3>2. CASE g # f
      BY <1>1, <1>2, <3>2, NobodyOnSettled, NobodyCounted DEF TypeOK
    <3>. QED BY <3>1, <3>2
  <2>. QED BY <1>4, <2>1, FS_EmptySet DEF Counted
<1>6. OneRun' /\ AbortedWhenAbandoned' /\ AbortedRuns'
  BY <1>1, <1>2 DEF OneRun, AbortedWhenAbandoned, AbortedRuns
<1>7. WaitsOnRun'
  <2>1. \A c \in Callers : phase'[c] # "waiting"
    BY <1>1, <1>2 DEF WaitsOnRun, TypeOK, Waiting
  <2>. QED BY <2>1 DEF WaitsOnRun
<1>8. Places'
  <2>1. \A g \in Flights : parked'[g] = <<>>
    BY <1>1, <1>2 DEF Places, ParkedOnEntry, TypeOK
  <2>2. parked[f] \in Seq(Callers) /\ AllParked(parked[f]) /\ Distinct(parked[f])
    BY DEF TypeOK, Places, ParkedQueues
  <2>3. \A i \in 1..Len(parked[f]) : phase'[parked[f][i]] = "parked"
    <3>1. ASSUME NEW i \in 1..Len(parked[f]) PROVE phase'[parked[f][i]] = "parked"
      <4>1. parked[f][i] \in Callers /\ phase[parked[f][i]] = "parked"
        BY <2>2, ElementOfSeq DEF AllParked
      <4>. QED BY <1>1, <4>1 DEF Waiting
    <3>. QED BY <3>1
  <2>4. ResumingQueue'
    BY <1>1, <2>2, <2>3 DEF ResumingQueue, AllParked, Distinct
  <2>5. ParkedOnEntry'
    BY <2>1 DEF ParkedOnEntry
  <2>6. ParkedQueues' /\ QueuesApart'
    BY <2>1 DEF ParkedQueues, QueuesApart, AllParked, Distinct, Has
  <2>. QED BY <2>4, <2>5, <2>6 DEF Places
<1>. QED BY <1>3, <1>5, <1>6, <1>7, <1>8

LEMMA StutterStep ==
  ASSUME IInv, UNCHANGED vars PROVE IInv'
<1>1. \A f : Waiting(f)' = Waiting(f)
  BY DEF vars, Waiting
<1>2. (TypeOK /\ OneRun /\ WaitsOnRun /\ AbortedRuns)'
  BY DEF IInv, vars, TypeOK, OneRun, WaitsOnRun, AbortedRuns
<1>3. AbortedWhenAbandoned' /\ Counted'
  BY <1>1 DEF IInv, vars, AbortedWhenAbandoned, Counted
<1>4. Places'
  BY DEF IInv, vars, Places, ParkedOnEntry, ParkedQueues, ResumingQueue, QueuesApart, AllParked
<1>. QED BY <1>2, <1>3, <1>4 DEF IInv

LEMMA Invariant == Spec => []IInv
<1>1. Init => IInv
  BY InitInvariant
<1>2. IInv /\ [Next]_vars => IInv'
  BY ArriveStep, HangUpStep, SettleStep, ResumeStep, StutterStep DEF Next
<1>. QED BY <1>1, <1>2, PTL DEF Spec

(* Two runs of the work on one instance never overlap: singleFlight starts a
   run only when the one before has settled, an aborted one included. *)
THEOREM RunsNeverOverlap == Spec => []OneRun
<1>1. IInv => OneRun
  BY DEF IInv
<1>. QED BY <1>1, Invariant, PTL

(* A run is aborted when, and only when, nobody waits for it: join counts
   every caller once, whether it came now or goes on from `settled`. *)
THEOREM AbortedExactlyWhenAbandoned == Spec => []AbortedWhenAbandoned
<1>1. IInv => AbortedWhenAbandoned
  BY DEF IInv
<1>. QED BY <1>1, Invariant, PTL

-----------------------------------------------------------------------------
(* The swap of a home (HomeSwap). *)
(* Nobody deletes a kept home, and no abandoned request takes effect later. *)
Undisturbed == may \subseteq {"fail"}

KeptSince(c) == \E t \in Times : t >= row.at /\ disk.kept[t] = c

(* The two states a swap can be found in: the import is there and the home is
   still in its place or has been kept, or the import is the home. *)
Unswapped ==
    /\ disk.import = ops
    /\ begun # Detached =>
          \/ disk.home = begun
          \/ ~disk.attached /\ disk.home = NoVolume /\ KeptSince(begun)
Swapped ==
    /\ disk.import = NoVolume /\ disk.home = ops
    /\ begun # Detached => KeptSince(begun)

(* A home is attached only when there is one, and it is left alone until the
   import is done; from then on the swap is in one of its two states. *)
HomeIsSafe ==
    /\ disk.attached => disk.home # NoVolume
    /\ row.pending /\ row.import # "done" => Home(disk) = begun
    /\ row.pending /\ row.import = "done" => Unswapped \/ Swapped

(* The call is for this operation, and what its run has read is still so:
   nothing else touches the volumes. *)
CallIsOfRow ==
    /\ call.pc # "idle" => row.pending /\ row.import = "done"
    /\ run.pc # "none" <=> call.pc = "swap"
    /\ row.pending \/ row.import = "none"
RunSees ==
    /\ run.pc = "find_import" => run.attached = disk.attached
    /\ run.pc = "detach" => disk.attached /\ disk.import = ops
    /\ run.pc \in {"find_home", "keep", "rename"} => ~disk.attached /\ disk.import = ops
    /\ run.pc = "keep" => disk.home # NoVolume
    /\ run.pc = "rename" => disk.home = NoVolume
    /\ run.pc = "attach" => ~disk.attached /\ Swapped
    /\ run.pc = "list" => disk.attached /\ Swapped
AnswerIsTrue ==
    call.pc = "answered" /\ call.answer \in {"kept", "NOT_FOUND"} => disk.attached /\ Swapped

TimesInOrder == late = {} /\ row.at <= now /\ begun # NoVolume

SwapParts == TimesInOrder /\ HomeIsSafe /\ CallIsOfRow /\ RunSees /\ AnswerIsTrue

SwapInv == SwapTypeOK /\ (Undisturbed => SwapParts)

(* A disk's fields after a request that Incus accepts. *)
LEMMA AppliedFields ==
    ASSUME NEW d \in Disk, NEW r \in Requests
    PROVE  LET x == Applied(d, r)
           IN  /\ x \in Disk
               /\ r.kind = "detach" => /\ ~x.attached /\ x.home = d.home /\ x.import = d.import
                                       /\ x.kept = d.kept
               /\ r.kind = "keep" => /\ x.attached = d.attached /\ x.home = NoVolume
                                     /\ x.import = d.import /\ x.kept[r.at] = d.home
                                     /\ \A t \in Times \ {r.at} : x.kept[t] = d.kept[t]
               /\ r.kind = "rename" => /\ x.attached = d.attached /\ x.home = d.import
                                       /\ x.import = NoVolume /\ x.kept = d.kept
               /\ r.kind = "attach" => /\ x.attached /\ x.home = d.home /\ x.import = d.import
                                       /\ x.kept = d.kept
<1>k. r.kind \in {"detach", "keep", "rename", "attach"} /\ (r.kind = "keep" => r.at \in Times)
  BY DEF Requests
<1>v. NoVolume \in Volume
  BY DEF Volume
<1>1. CASE r.kind = "detach"
  <2>1. Applied(d, r) = [d EXCEPT !.attached = FALSE]
    BY <1>1 DEF Applied
  <2> QED
    BY <1>1, <2>1 DEF Disk
<1>2. CASE r.kind = "keep"
  <2>1. Applied(d, r) = [d EXCEPT !.kept[r.at] = d.home, !.home = NoVolume]
    BY <1>2 DEF Applied
  <2>2. PICK k : k = [d.kept EXCEPT ![r.at] = d.home]
    OBVIOUS
  <2>3. d.kept \in [Times -> Volume] /\ d.home \in Volume
    BY DEF Disk
  <2>4. /\ k \in [Times -> Volume] /\ k[r.at] = d.home
        /\ \A t \in Times \ {r.at} : k[t] = d.kept[t]
    BY <1>k, <1>2, <2>2, <2>3
  <2>5. Applied(d, r) = [attached |-> d.attached, home |-> NoVolume,
                              import |-> d.import, kept |-> k]
    BY <2>1, <2>2 DEF Disk
  <2> QED
    BY <1>2, <1>v, <2>4, <2>5 DEF Disk
<1>3. CASE r.kind = "rename"
  <2>1. Applied(d, r) = [d EXCEPT !.home = d.import, !.import = NoVolume]
    BY <1>3 DEF Applied
  <2> QED
    BY <1>3, <1>v, <2>1 DEF Disk
<1>4. CASE r.kind = "attach"
  <2>1. Applied(d, r) = [d EXCEPT !.attached = TRUE]
    BY <1>4 DEF Applied
  <2> QED
    BY <1>4, <2>1 DEF Disk
<1> QED
  BY <1>k, <1>1, <1>2, <1>3, <1>4

(* The open request is of the run's step, at the time it is now. *)
LEMMA OpenRequest ==
    ASSUME SwapTypeOK, NEW r \in Open
    PROVE  /\ r \in Requests /\ r.kind = run.pc
           /\ run.pc \in {"detach", "keep", "rename", "attach"}
           /\ r.kind = "keep" => r.at = now
BY DEF Open, Requests, SwapTypeOK

(* Each request of the swap leaves it in one of its two states and prepares
   the next. *)
LEMMA RequestKeepsHome ==
    ASSUME SwapTypeOK, SwapParts,
           NEW r \in Open, Accepts(disk, r), disk' = Applied(disk, r),
           UNCHANGED <<row, begun, ops>>
    PROVE  /\ disk' \in Disk
           /\ disk'.attached => disk'.home # NoVolume
           /\ Unswapped' \/ Swapped'
           /\ run.pc = "detach" => ~disk'.attached /\ disk'.import = ops
           /\ run.pc = "keep" => /\ ~disk'.attached /\ disk'.import = ops
                                 /\ disk'.home = NoVolume
           /\ run.pc = "rename" => ~disk'.attached /\ Swapped'
           /\ run.pc = "attach" => disk'.attached /\ Swapped'
<1>r. /\ r \in Requests /\ r.kind = run.pc
      /\ run.pc \in {"detach", "keep", "rename", "attach"}
      /\ r.kind = "keep" => r.at = now
  BY OpenRequest
<1>t. /\ disk \in Disk /\ row.at \in Times /\ now \in Times /\ ops \in Nat
      /\ \A t \in Times : t \in Int
  BY BoundsAssumption DEF SwapTypeOK, Row, Times
<1>s. RunSees /\ HomeIsSafe /\ row.at <= now
  BY DEF SwapParts, TimesInOrder
<1>p. (run.pc # "none" => row.pending /\ row.import = "done")
  BY DEF SwapParts, CallIsOfRow
<1>u. Unswapped \/ Swapped
  BY <1>p, <1>r, <1>s DEF HomeIsSafe
<1>f. LET x == disk'
      IN  /\ x \in Disk
          /\ r.kind = "detach" => /\ ~x.attached /\ x.home = disk.home /\ x.import = disk.import
                                  /\ x.kept = disk.kept
          /\ r.kind = "keep" => /\ x.attached = disk.attached /\ x.home = NoVolume
                                /\ x.import = disk.import /\ x.kept[r.at] = disk.home
                                /\ \A t \in Times \ {r.at} : x.kept[t] = disk.kept[t]
          /\ r.kind = "rename" => /\ x.attached = disk.attached /\ x.home = disk.import
                                  /\ x.import = NoVolume /\ x.kept = disk.kept
          /\ r.kind = "attach" => /\ x.attached /\ x.home = disk.home /\ x.import = disk.import
                                  /\ x.kept = disk.kept
  BY <1>r, <1>t, AppliedFields
<1>n. ops # NoVolume
  BY <1>t DEF NoVolume
<1>1. CASE run.pc = "detach"
  <2>1. disk.attached /\ disk.import = ops /\ disk.home # NoVolume
    BY <1>1, <1>s DEF RunSees, HomeIsSafe
  <2>2. begun # Detached => disk.home = begun
    BY <1>u, <1>n, <2>1 DEF Unswapped, Swapped
  <2> QED
    BY <1>1, <1>f, <1>r, <2>1, <2>2 DEF Unswapped
<1>2. CASE run.pc = "keep"
  <2>1. ~disk.attached /\ disk.import = ops /\ disk.home # NoVolume
    BY <1>2, <1>s DEF RunSees
  <2>2. begun # Detached => disk.home = begun
    BY <1>u, <1>n, <2>1 DEF Unswapped, Swapped
  <2>3. begun # Detached => KeptSince(begun)'
    BY <1>2, <1>f, <1>r, <1>s, <1>t, <2>2 DEF KeptSince, Times
  <2> QED
    BY <1>2, <1>f, <1>r, <2>1, <2>3 DEF Unswapped
<1>3. CASE run.pc = "rename"
  <2>1. ~disk.attached /\ disk.import = ops /\ disk.home = NoVolume
    BY <1>3, <1>s DEF RunSees
  <2>2. begun # Detached => KeptSince(begun)
    BY <1>u, <1>n, <2>1 DEF Unswapped, Swapped, SwapParts, TimesInOrder
  <2>3. begun # Detached => KeptSince(begun)'
    BY <1>3, <1>f, <1>r, <2>2 DEF KeptSince
  <2> QED
    BY <1>3, <1>f, <1>r, <2>1, <2>3 DEF Swapped
<1>4. CASE run.pc = "attach"
  <2>1. ~disk.attached /\ Swapped
    BY <1>4, <1>s DEF RunSees
  <2>2. begun # Detached => KeptSince(begun)'
    BY <1>4, <1>f, <1>r, <2>1 DEF KeptSince, Swapped
  <2> QED
    BY <1>4, <1>f, <1>n, <1>r, <2>1, <2>2 DEF Swapped
<1> QED
  BY <1>r, <1>1, <1>2, <1>3, <1>4

(* The newest of some times. *)
LEMMA NewestOf ==
    ASSUME NEW S \in SUBSET Times, S # {}, MaxTime \in Nat
    PROVE  Newest(S) \in S /\ \A u \in S : u =< Newest(S)
<1> DEFINE Left == {n \in Nat : MaxTime - n \in S}
<1>t. \A t \in S : t \in Nat /\ t =< MaxTime
  BY DEF Times
<1>l. \A t \in S : MaxTime - t \in Left
  BY <1>t
<1>1. Left \subseteq Nat /\ Left # {}
  BY <1>l
<1>2. PICK x \in Left : \A y \in Left : ~ (<<y, x>> \in OpToRel(<, Nat))
  BY <1>1, NatLessThanWellFounded, WFMin, Zenon
<1>3. \A y \in Left : <<y, x>> \in Nat \X Nat /\ ~ (y < x)
  <2>1. \A y \in Left : <<y, x>> \in Nat \X Nat /\ <<y, x>>[1] = y /\ <<y, x>>[2] = x
    BY <1>1
  <2> QED
    BY <1>2, <2>1 DEF OpToRel
<1>4. MaxTime - x \in S
  OBVIOUS
<1>5. ASSUME NEW u \in S
      PROVE  u =< MaxTime - x
  <2>1. MaxTime - u \in Left /\ u \in Nat /\ x \in Nat
    BY <1>1, <1>l, <1>t
  <2>2. ~ (MaxTime - u < x)
    BY <1>3, <2>1
  <2> QED
    BY <2>1, <2>2
<1> QED
  BY <1>4, <1>5, Zenon DEF Newest

(* The types. *)
LEMMA SwapTyped ==
    ASSUME SwapTypeOK, [SwapNext]_swapVars
    PROVE  SwapTypeOK'
<1>t. /\ disk \in Disk /\ row \in Row /\ call \in Call /\ run \in Run
      /\ late \subseteq Requests /\ now \in Times /\ ops \in 0..MaxOps
  BY DEF SwapTypeOK
<1>n. MaxOps \in Nat /\ MaxTime \in Nat /\ MaxFaults \in Nat /\ MaxDeletes \in Nat
  BY BoundsAssumption
<1>o. ops \in Volume /\ NoVolume \in Volume /\ 0 \in Times
  BY <1>t, <1>n DEF Volume, Contents, Times
<1>a. Idle \in Call /\ NoRun \in Run
  BY DEF Idle, Call, NoRun, Run, NoKept, RunSteps
<1>1. CASE \/ Tick \/ requestReplaceHome \/ setDesired \/ sweepStops
           \/ sweepStarts \/ startFails \/ askImport
           \/ UNCHANGED swapVars
  <2>1. row' \in Row
    BY <1>1, <1>t DEF Tick, requestReplaceHome, setDesired, sweepStops,
       sweepStarts, startFails, askImport, swapVars, Row
  <2>2. now' \in Times /\ ops' \in 0..MaxOps /\ faults' \in 0..MaxFaults
    BY <1>1, <1>t, <1>n DEF SwapTypeOK, Tick, requestReplaceHome, setDesired, sweepStops,
       sweepStarts, startFails, askImport, swapVars, Times
  <2>4. power' \in {"running", "stopped"}
    BY <1>1 DEF SwapTypeOK, Tick, requestReplaceHome, setDesired, sweepStops, sweepStarts,
       startFails, askImport, swapVars
  <2>5. begun' \in Volume \union {Detached}
    <3>1. begun' = begun \/ begun' = Home(disk)
      BY <1>1 DEF Tick, requestReplaceHome, setDesired, sweepStops,
         sweepStarts, startFails, askImport, swapVars
    <3> QED
      BY <1>t, <3>1 DEF SwapTypeOK, Home, Disk
  <2>3. UNCHANGED <<disk, call, run, late, notice, deletes, may>>
    BY <1>1 DEF Tick, requestReplaceHome, setDesired, sweepStops,
       sweepStarts, startFails, askImport, swapVars
  <2> QED
    BY <2>1, <2>2, <2>3, <2>4, <2>5 DEF SwapTypeOK
<1>2. CASE \/ importFailed \/ finishReplaced \/ finishTouched
           \/ lookForKept
  <2>1. ASSUME NEW what \in {"replaced", "failed", "unchanged"}, finished(what)
        PROVE  row' \in Row /\ call' \in Call /\ notice' = what
    BY <1>t, <1>a, <2>1 DEF finished, Row
  <2>2. ASSUME lookForKept, Mine(disk) # {}
        PROVE  row' = row /\ call' \in Call /\ notice' = notice
    <3>1. Mine(disk) \subseteq Times
      BY DEF Mine, KeptTimes
    <3>2. Newest(Mine(disk)) \in Times
      BY <1>n, <2>2, <3>1, NewestOf
    <3> QED
      BY <1>t, <2>2, <3>2 DEF lookForKept, Call
  <2>3. UNCHANGED <<disk, power, begun, run, late, now, ops, faults, deletes, may>>
    BY <1>2 DEF importFailed, finishReplaced, finishTouched, lookForKept
  <2>4. row' \in Row /\ call' \in Call
        /\ notice' \in {notice, "replaced", "failed", "unchanged"}
    BY <1>2, <1>t, <2>1, <2>2 DEF importFailed, finishReplaced, finishTouched, lookForKept
  <2> QED
    BY <2>3, <2>4 DEF SwapTypeOK
<1>3. CASE deleteKeptHome \/ hostImports \/ hostFails \/ lateEffect
  <2>1. disk' \in Disk
    <3>1. CASE deleteKeptHome
      BY <1>t, <1>o, <3>1 DEF deleteKeptHome, Disk
    <3>2. CASE hostImports
      BY <1>t, <1>o, <3>2 DEF hostImports, Disk
    <3>3. CASE hostFails
      <4>1. PICK v \in {disk.import, NoVolume, ops} : disk' = [disk EXCEPT !.import = v]
        BY <3>3 DEF hostFails
      <4> QED
        BY <1>t, <1>o, <4>1 DEF Disk
    <3>4. CASE lateEffect
      BY <1>t, <3>4, AppliedFields DEF lateEffect
    <3> QED
      BY <1>3, <3>1, <3>2, <3>3, <3>4
  <2>2. row' \in Row
    BY <1>3, <1>t DEF deleteKeptHome, hostImports, hostFails, lateEffect, Row
  <2>3. late' \subseteq Requests /\ faults' \in 0..MaxFaults
        /\ deletes' \in 0..MaxDeletes
    BY <1>3, <1>t, <1>n DEF SwapTypeOK, deleteKeptHome, hostImports, hostFails, lateEffect
  <2>4. UNCHANGED <<power, begun, call, run, notice, now, ops, may>>
    BY <1>3 DEF deleteKeptHome, hostImports, hostFails, lateEffect
  <2> QED
    BY <2>1, <2>2, <2>3, <2>4 DEF SwapTypeOK
<1>4. CASE callReplaceHome \/ swapRequest \/ interrupted \/ requestFails
  <2>1. disk' \in Disk
    <3>1. CASE disk' = disk
      BY <1>t, <3>1
    <3>2. CASE \E r \in Open : disk' = Applied(disk, r)
      BY <1>t, <3>2, OpenRequest, AppliedFields
    <3> QED
      BY <1>4, <3>1, <3>2 DEF callReplaceHome, swapRequest, interrupted, requestFails,
         getInstance, findImport, detachHome, findHome, keepHome, renameImport, attachHome,
         newestKeptHome, requested
  <2>2. late' \subseteq Requests /\ faults' \in 0..MaxFaults
    BY <1>4, <1>t, <1>n, OpenRequest DEF SwapTypeOK, callReplaceHome, swapRequest, interrupted,
       requestFails, getInstance, findImport, detachHome, findHome, keepHome, renameImport,
       attachHome, newestKeptHome, requested, onRun
  <2>3. UNCHANGED <<power, row, begun, notice, now, ops, deletes, may>>
    BY <1>4 DEF callReplaceHome, swapRequest, interrupted, requestFails, getInstance,
       findImport, detachHome, findHome, keepHome, renameImport, attachHome, newestKeptHome,
       requested, onRun
  <2>4. ASSUME NEW a \in {"kept", "NOT_FOUND", "failed"},
               NEW k \in Times \union {NoKept}, answer(a, k)
        PROVE  call' \in Call /\ run' \in Run
    BY <1>a, <2>4 DEF answer, Call
  <2>5. ASSUME NEW pc \in RunSteps, goOn(pc)
        PROVE  call' \in Call /\ run' \in Run
    BY <1>t, <2>5 DEF goOn, Run
  <2>6. call' \in Call /\ run' \in Run
    <3>1. CASE callReplaceHome
      <4>1. /\ call' = [pc |-> "swap", answer |-> "none", kept |-> NoKept]
            /\ run' = [pc |-> "get", attached |-> FALSE, import |-> FALSE]
        BY <3>1 DEF callReplaceHome, Idle, NoRun
      <4> QED
        BY <4>1 DEF Call, Run, RunSteps
    <3>2. CASE interrupted
      BY <1>a, <3>2 DEF interrupted
    <3>3. CASE requestFails
      BY <2>4, <3>3 DEF requestFails
    <3>4. CASE getInstance
      <4>1. CASE answer("failed", NoKept)
        BY <2>4, <4>1
      <4>2. CASE /\ run' = [run EXCEPT !.pc = "find_import", !.attached = disk.attached]
                 /\ UNCHANGED call
        BY <1>t, <4>2 DEF Run, RunSteps, Disk
      <4> QED
        BY <3>4, <4>1, <4>2 DEF getInstance
    <3>5. CASE findImport
      <4>1. CASE answer("NOT_FOUND", NoKept)
        BY <2>4, <4>1
      <4>2. CASE /\ \E f \in BOOLEAN : run' = [run EXCEPT !.pc = AfterImport(f),
                                                          !.import = f]
                 /\ UNCHANGED call
        BY <1>t, <4>2 DEF Run, RunSteps, AfterImport
      <4> QED
        BY <3>5, <4>1, <4>2 DEF findImport
    <3>6. CASE \E pc \in {"detach", "keep", "rename", "attach"}, next \in RunSteps :
                  requested(pc, next)
      BY <2>4, <2>5, <3>6 DEF requested, Refusal
    <3>7. CASE findHome
      BY <2>5, <3>7 DEF findHome, AfterHome, RunSteps
    <3>8. CASE newestKeptHome
      <4>1. CASE KeptTimes(disk) # {}
        <5>1. Newest(KeptTimes(disk)) \in Times
          BY <1>n, <4>1, NewestOf DEF KeptTimes
        <5> QED
          BY <2>4, <3>8, <4>1, <5>1 DEF newestKeptHome
      <4>2. CASE KeptTimes(disk) = {}
        BY <2>4, <3>8, <4>2 DEF newestKeptHome
      <4> QED
        BY <4>1, <4>2
    <3> QED
      BY <1>4, <3>1, <3>2, <3>3, <3>4, <3>5, <3>6, <3>7, <3>8 DEF swapRequest,
         detachHome, keepHome, renameImport, attachHome, RunSteps
  <2> QED
    BY <2>1, <2>2, <2>3, <2>6 DEF SwapTypeOK
<1> QED
  BY <1>1, <1>2, <1>3, <1>4 DEF SwapNext, swapRequest

(* Steps that leave the volumes, the call and its run alone, and of the row
   what the swap is about. *)
LEMMA QuietSwap ==
    ASSUME SwapParts,
           UNCHANGED <<disk, begun, call, run, late, ops, row.pending, row.at>>,
           row'.import = row.import \/ (row.import = "none" /\ row'.import = "asked"),
           row.import = "none" => row.pending \/ row'.import = "none",
           now' >= now, now \in Int, now' \in Int, row.at \in Int
    PROVE  SwapParts'
<1>k. \A c : KeptSince(c)' <=> KeptSince(c)
  BY DEF KeptSince
<1>s. (Unswapped' <=> Unswapped) /\ (Swapped' <=> Swapped)
  BY <1>k DEF Unswapped, Swapped
<1>1. TimesInOrder' /\ CallIsOfRow'
  BY DEF SwapParts, TimesInOrder, CallIsOfRow
<1>2. RunSees' /\ AnswerIsTrue'
  BY <1>s DEF SwapParts, RunSees, AnswerIsTrue
<1>3. HomeIsSafe'
  BY <1>s DEF SwapParts, HomeIsSafe, CallIsOfRow, Home
<1> QED
  BY <1>1, <1>2, <1>3 DEF SwapParts

(* An operation that ends leaves nothing of the call. *)
LEMMA EndOfSwap ==
    ASSUME SwapParts, SwapTypeOK, NEW what, finished(what), run.pc = "none",
           UNCHANGED <<disk, begun, run, late, now, ops>>
    PROVE  SwapParts'
<1>1. /\ row'.pending = FALSE /\ row'.import = "none" /\ row'.at = row.at
      /\ call'.pc = "idle" /\ run'.pc = "none"
  BY DEF finished, Idle, SwapTypeOK, Row
<1> QED
  BY <1>1 DEF SwapParts, TimesInOrder, HomeIsSafe, CallIsOfRow, RunSees, AnswerIsTrue

(* A call that is over, whatever its open request did. *)
LEMMA RequestIsMade ==
    ASSUME SwapParts, SwapTypeOK,
           UNCHANGED <<row, begun, late, now, ops>>, call.pc # "idle",
           \/ UNCHANGED disk
           \/ \E r \in Open : Accepts(disk, r) /\ disk' = Applied(disk, r)
    PROVE  TimesInOrder' /\ HomeIsSafe'
<1>1. row.pending /\ row.import = "done" /\ TimesInOrder /\ HomeIsSafe
  BY DEF SwapParts, CallIsOfRow
<1>2. /\ disk'.attached => disk'.home # NoVolume
      /\ Unswapped' \/ Swapped'
  <2>1. CASE UNCHANGED disk
    <3>1. \A c : KeptSince(c)' <=> KeptSince(c)
      BY <2>1 DEF KeptSince
    <3>2. (Unswapped' <=> Unswapped) /\ (Swapped' <=> Swapped)
      BY <2>1, <3>1 DEF Unswapped, Swapped
    <3> QED
      BY <1>1, <2>1, <3>2 DEF HomeIsSafe
  <2>2. CASE \E r \in Open : Accepts(disk, r) /\ disk' = Applied(disk, r)
    BY <2>2, RequestKeepsHome
  <2> QED
    BY <2>1, <2>2
<1> QED
  BY <1>1, <1>2 DEF HomeIsSafe, TimesInOrder

(* The requests of the run. *)
LEMMA RunKeeps ==
    ASSUME SwapParts, SwapTypeOK, swapRequest
    PROVE  SwapParts'
<1>t. /\ run \in Run /\ call \in Call /\ run.pc # "none"
  BY DEF SwapTypeOK, swapRequest, getInstance, findImport, detachHome, findHome, keepHome,
     renameImport, attachHome, newestKeptHome, requested, onRun
<1>c. call.pc = "swap" /\ row.pending /\ row.import = "done"
  BY <1>t DEF SwapParts, CallIsOfRow
<1>u. UNCHANGED <<power, row, begun, late, notice, now, ops, may>>
  BY DEF swapRequest, getInstance, findImport, detachHome, findHome, keepHome, renameImport,
     attachHome, newestKeptHome, requested, onRun
<1>o. ops # NoVolume
  BY BoundsAssumption DEF SwapTypeOK, NoVolume
<1>k. ASSUME UNCHANGED disk
      PROVE  (Unswapped' <=> Unswapped) /\ (Swapped' <=> Swapped)
  <2>1. \A c : KeptSince(c)' <=> KeptSince(c)
    BY <1>k, <1>u DEF KeptSince
  <2> QED
    BY <1>k, <1>u, <2>1 DEF Unswapped, Swapped
<1>m. TimesInOrder' /\ HomeIsSafe'
  <2>1. \/ UNCHANGED disk
        \/ \E r \in Open : Accepts(disk, r) /\ disk' = Applied(disk, r)
    BY DEF swapRequest, getInstance, findImport, detachHome, findHome, keepHome, renameImport,
       attachHome, newestKeptHome, requested
  <2> QED
    BY <1>c, <1>u, <2>1, RequestIsMade
<1>a. ASSUME NEW a, NEW k, answer(a, k),
             a \in {"kept", "NOT_FOUND"} => disk'.attached /\ Swapped'
      PROVE  CallIsOfRow' /\ RunSees' /\ AnswerIsTrue'
  <2>1. run'.pc = "none" /\ call'.pc = "answered" /\ call'.answer = a
    BY <1>a DEF answer, NoRun
  <2> QED
    BY <1>a, <1>c, <1>u, <2>1 DEF CallIsOfRow, RunSees, AnswerIsTrue
<1>g. ASSUME call' = call, run'.pc # "none"
      PROVE  CallIsOfRow' /\ AnswerIsTrue'
  BY <1>g, <1>c, <1>u DEF CallIsOfRow, AnswerIsTrue
<1>n. ASSUME NEW pc, goOn(pc)
      PROVE  run'.pc = pc /\ call' = call
  BY <1>n, <1>t DEF goOn, Run
<1>1. CASE getInstance
  <2>1. CASE answer("failed", NoKept)
    BY <1>a, <1>m, <2>1 DEF SwapParts
  <2>2. CASE run' = [run EXCEPT !.pc = "find_import", !.attached = disk.attached]
             /\ UNCHANGED call
    <3>1. run'.pc = "find_import" /\ run'.attached = disk'.attached
      BY <1>1, <1>t, <2>2 DEF Run, getInstance
    <3> QED
      BY <1>g, <1>m, <2>2, <3>1 DEF SwapParts, RunSees
  <2> QED
    BY <1>1, <2>1, <2>2 DEF getInstance
<1>2. CASE findImport
  <2>1. /\ run.attached = disk.attached /\ UNCHANGED disk /\ (Unswapped \/ Swapped)
    BY <1>2, <1>c DEF SwapParts, RunSees, HomeIsSafe, findImport, onRun
  <2>2. CASE run.attached /\ disk.import = NoVolume /\ answer("NOT_FOUND", NoKept)
    <3>1. disk'.attached /\ Swapped'
      BY <1>k, <1>o, <2>1, <2>2 DEF Unswapped
    <3> QED
      BY <1>a, <1>m, <2>2, <3>1 DEF SwapParts
  <2>3. ASSUME NEW f \in BOOLEAN, f <=> disk.import # NoVolume,
               ~run.attached \/ f,
               run' = [run EXCEPT !.pc = AfterImport(f), !.import = f],
               UNCHANGED call
        PROVE  SwapParts'
    <3>1. run'.pc = IF disk.attached THEN "detach" ELSE IF f THEN "find_home" ELSE "attach"
      BY <1>t, <2>1, <2>3 DEF Run, AfterImport
    <3>2. f => disk'.import = ops'
      BY <1>u, <2>1, <2>3 DEF Unswapped, Swapped
    <3>3. ~f => Swapped'
      BY <1>k, <1>o, <2>1, <2>3 DEF Unswapped
    <3>4. RunSees'
      BY <2>1, <2>3, <3>1, <3>2, <3>3 DEF RunSees
    <3> QED
      BY <1>g, <1>m, <2>3, <3>1, <3>4 DEF SwapParts
  <2> QED
    BY <1>2, <2>2, <2>3 DEF findImport
<1>3. ASSUME NEW pc \in {"detach", "keep", "rename", "attach"}, NEW next, requested(pc, next),
             next = CASE pc = "detach" -> "find_home" [] pc = "keep" -> "rename"
                      [] pc = "rename" -> "attach" [] pc = "attach" -> "list"
      PROVE  SwapParts'
  <2>0. run.pc = pc
    BY <1>3 DEF requested, onRun
  <2>1. PICK r \in Open :
          \/ Accepts(disk, r) /\ disk' = Applied(disk, r) /\ goOn(next)
          \/ ~Accepts(disk, r) /\ answer(Refusal(disk, r), NoKept)
             /\ UNCHANGED disk
    BY <1>3 DEF requested
  <2>2. CASE Accepts(disk, r) /\ disk' = Applied(disk, r) /\ goOn(next)
    <3>1. run'.pc = next /\ call' = call
      BY <1>n, <2>2
    <3>2. /\ run.pc = "detach" => ~disk'.attached /\ disk'.import = ops
          /\ run.pc = "keep" => /\ ~disk'.attached /\ disk'.import = ops
                                /\ disk'.home = NoVolume
          /\ run.pc = "rename" => ~disk'.attached /\ Swapped'
          /\ run.pc = "attach" => disk'.attached /\ Swapped'
      BY <1>u, <2>2, RequestKeepsHome
    <3>3. RunSees'
      BY <1>3, <1>u, <2>0, <3>1, <3>2 DEF RunSees
    <3> QED
      BY <1>3, <1>g, <1>m, <3>1, <3>3 DEF SwapParts
  <2>3. CASE ~Accepts(disk, r) /\ answer(Refusal(disk, r), NoKept)
             /\ UNCHANGED disk
    <3>1. r.kind = run.pc
      BY OpenRequest
    <3>2. Refusal(disk, r) = "failed"
      BY <1>o, <2>0, <3>1 DEF Refusal, SwapParts, RunSees
    <3> QED
      BY <1>a, <1>m, <2>3, <3>2 DEF SwapParts
  <2> QED
    BY <2>1, <2>2, <2>3
<1>4. CASE findHome
  <2>1. /\ ~disk.attached /\ disk.import = ops /\ UNCHANGED disk
        /\ goOn(AfterHome(disk.home # NoVolume))
    BY <1>4 DEF findHome, onRun, SwapParts, RunSees
  <2>2. run'.pc = (IF disk.home # NoVolume THEN "keep" ELSE "rename") /\ call' = call
    BY <1>n, <2>1 DEF AfterHome
  <2>3. RunSees'
    BY <1>u, <2>1, <2>2 DEF RunSees
  <2> QED
    BY <1>g, <1>m, <2>2, <2>3 DEF SwapParts
<1>5. CASE newestKeptHome
  <2>1. disk'.attached /\ Swapped'
    BY <1>5, <1>k DEF newestKeptHome, onRun, SwapParts, RunSees
  <2>2. \E a, k : answer(a, k)
    BY <1>5 DEF newestKeptHome
  <2> QED
    BY <1>a, <1>m, <2>1, <2>2 DEF SwapParts
<1> QED
  BY <1>1, <1>2, <1>3, <1>4, <1>5 DEF swapRequest, detachHome, keepHome,
     renameImport, attachHome

LEMMA SwapKeeps ==
    ASSUME SwapInv, [SwapNext]_swapVars
    PROVE  SwapInv'
<1>0. SwapTypeOK /\ SwapTypeOK'
  BY SwapTyped DEF SwapInv
<1> SUFFICES ASSUME Undisturbed, SwapParts
             PROVE  SwapParts'
  <2>1. may' = may
    BY DEF SwapNext, swapVars, Tick, requestReplaceHome, setDesired, deleteKeptHome, sweepStops,
       sweepStarts, startFails, askImport, importFailed, callReplaceHome, hostImports,
       hostFails, getInstance, findImport, detachHome, findHome, keepHome, renameImport,
       attachHome, newestKeptHome, requested, onRun, interrupted, requestFails, lateEffect,
       finishReplaced, finishTouched, lookForKept
  <2> QED
    BY <1>0, <2>1 DEF SwapInv, Undisturbed
<1>t. /\ row \in Row /\ row.at \in Int /\ now \in Int /\ now' \in Int
      /\ disk \in Disk /\ call \in Call /\ run \in Run /\ ops \in Nat
  BY <1>0, BoundsAssumption DEF SwapTypeOK, Row, Times
<1>p. TimesInOrder /\ HomeIsSafe /\ CallIsOfRow /\ RunSees /\ AnswerIsTrue
  BY DEF SwapParts
<1>1. CASE \/ Tick \/ setDesired \/ sweepStops \/ sweepStarts
           \/ startFails \/ askImport \/ UNCHANGED swapVars
  <2>1. UNCHANGED <<disk, begun, call, run, late, ops>> /\ (now' = now \/ now' = now + 1)
    BY <1>1 DEF Tick, setDesired, sweepStops, sweepStarts, startFails, askImport, swapVars
  <2>2. /\ UNCHANGED <<row.pending, row.at>>
        /\ row'.import = row.import \/ (row.import = "none" /\ row'.import = "asked")
        /\ row.import = "none" => row.pending \/ row'.import = "none"
    BY <1>1, <1>t DEF Tick, setDesired, sweepStops, sweepStarts,
       startFails, askImport, Due, swapVars, Row
  <2> QED
    BY <1>t, <2>1, <2>2, QuietSwap
<1>2. CASE requestReplaceHome
  <2>1. /\ ~row.pending /\ UNCHANGED <<disk, call, run, late, now>>
        /\ row'.pending = TRUE /\ row'.at = now /\ row'.import = "none"
        /\ begun' = Home(disk)
    BY <1>2, <1>t DEF requestReplaceHome, Row
  <2>2. call.pc = "idle" /\ run.pc = "none"
    BY <1>p, <2>1 DEF CallIsOfRow
  <2>3. begun' # NoVolume
    BY <1>p, <2>1 DEF HomeIsSafe, Home, Detached, NoVolume
  <2>4. HomeIsSafe' /\ TimesInOrder'
    BY <1>p, <1>t, <2>1, <2>3 DEF HomeIsSafe, TimesInOrder, Home
  <2> QED
    BY <2>1, <2>2, <2>4 DEF SwapParts, CallIsOfRow, RunSees, AnswerIsTrue
<1>3. CASE deleteKeptHome \/ lateEffect
  BY <1>3, <1>p DEF deleteKeptHome, lateEffect, Undisturbed, TimesInOrder
<1>4. CASE importFailed \/ finishReplaced \/ finishTouched \/ lookForKept
  <2>1. call.pc \in {"idle", "answered"} /\ run.pc = "none"
    BY <1>4, <1>p, <1>t DEF importFailed, finishReplaced, finishTouched,
       lookForKept, Due, CallIsOfRow
  <2>2. UNCHANGED <<disk, begun, run, late, now, ops>>
    BY <1>4 DEF importFailed, finishReplaced, finishTouched, lookForKept
  <2>3. CASE \E what : finished(what)
    BY <1>0, <2>1, <2>2, <2>3, EndOfSwap
  <2>4. CASE /\ lookForKept /\ row' = row
             /\ call' = [call EXCEPT !.answer = "kept", !.kept = Newest(Mine(disk))]
    <3>1. call'.pc = "answered" /\ call.pc = "answered" /\ call.answer = "NOT_FOUND"
      BY <1>t, <2>4 DEF Call, lookForKept
    <3>2. \A c : KeptSince(c)' <=> KeptSince(c)
      BY <2>2, <2>4 DEF KeptSince
    <3>3. (Unswapped' <=> Unswapped) /\ (Swapped' <=> Swapped)
      BY <2>2, <2>4, <3>2 DEF Unswapped, Swapped
    <3>4. AnswerIsTrue' /\ CallIsOfRow' /\ RunSees'
      BY <1>p, <2>1, <2>2, <2>4, <3>1, <3>3 DEF AnswerIsTrue, CallIsOfRow, RunSees
    <3>5. HomeIsSafe' /\ TimesInOrder'
      BY <1>p, <2>2, <2>4, <3>3 DEF HomeIsSafe, TimesInOrder, Home
    <3> QED
      BY <3>4, <3>5 DEF SwapParts
  <2> QED
    BY <1>4, <2>3, <2>4 DEF importFailed, finishReplaced, finishTouched, lookForKept
<1>5. CASE callReplaceHome
  <2>1. /\ row.pending /\ row.import = "done"
        /\ UNCHANGED <<disk, row, begun, late, now, ops>>
        /\ call'.pc = "swap" /\ run'.pc = "get"
    BY <1>5 DEF callReplaceHome, Due, Idle, NoRun
  <2>2. \A c : KeptSince(c)' <=> KeptSince(c)
    BY <2>1 DEF KeptSince
  <2>3. (Unswapped' <=> Unswapped) /\ (Swapped' <=> Swapped)
    BY <2>1, <2>2 DEF Unswapped, Swapped
  <2>4. AnswerIsTrue' /\ CallIsOfRow' /\ RunSees'
    BY <2>1 DEF AnswerIsTrue, CallIsOfRow, RunSees
  <2>5. HomeIsSafe' /\ TimesInOrder'
    BY <1>p, <2>1, <2>3 DEF HomeIsSafe, TimesInOrder, Home
  <2> QED
    BY <2>4, <2>5 DEF SwapParts
<1>6. CASE hostImports \/ hostFails
  <2>1. /\ row.import = "asked" /\ row.pending /\ call.pc = "idle" /\ run.pc = "none"
        /\ UNCHANGED <<begun, call, run, late, now, ops>>
    BY <1>6, <1>p DEF hostImports, hostFails, CallIsOfRow
  <2>2. \E v : /\ disk' = [disk EXCEPT !.import = v]
               /\ hostImports => v = ops
    BY <1>6 DEF hostImports, hostFails
  <2>3. /\ disk'.attached = disk.attached /\ disk'.home = disk.home
        /\ hostImports => disk'.import = ops
    BY <1>t, <2>2 DEF Disk
  <2>4. /\ row'.pending = row.pending /\ row'.at = row.at
        /\ \/ hostImports /\ row'.import = "done"
           \/ row'.import = "failed"
    BY <1>6, <1>t DEF hostImports, hostFails, Row
  <2>5. Home(disk) = begun /\ Home(disk') = begun
    BY <1>p, <2>1, <2>3 DEF HomeIsSafe, Home
  <2>6. hostImports => Unswapped'
    BY <2>1, <2>3, <2>5 DEF Unswapped, Home
  <2>7. HomeIsSafe' /\ TimesInOrder'
    BY <1>p, <2>1, <2>3, <2>4, <2>5, <2>6 DEF HomeIsSafe, TimesInOrder, Home
  <2> QED
    BY <2>1, <2>4, <2>7 DEF SwapParts, CallIsOfRow, RunSees, AnswerIsTrue
<1>7. CASE swapRequest
  BY <1>0, <1>7, RunKeeps
<1>8. CASE interrupted \/ requestFails
  <2>1. /\ UNCHANGED <<row, begun, late, now, ops>> /\ call.pc # "idle"
        /\ \/ UNCHANGED disk
           \/ \E r \in Open : Accepts(disk, r) /\ disk' = Applied(disk, r)
    BY <1>8, <1>p DEF interrupted, requestFails, Undisturbed, CallIsOfRow
  <2>2. TimesInOrder' /\ HomeIsSafe'
    BY <1>0, <2>1, RequestIsMade
  <2>3. /\ run' = NoRun
        /\ call' \in {Idle, [pc |-> "answered", answer |-> "failed", kept |-> NoKept]}
    BY <1>8 DEF interrupted, requestFails, answer
  <2>4. row.pending /\ row.import = "done"
    BY <1>p, <2>1 DEF CallIsOfRow
  <2>5. run'.pc = "none" /\ call'.pc # "swap" /\ call'.answer \in {"none", "failed"}
    BY <2>3 DEF Idle, NoRun
  <2> QED
    BY <2>1, <2>2, <2>4, <2>5 DEF SwapParts, CallIsOfRow, RunSees, AnswerIsTrue
<1> QED
  BY <1>1, <1>2, <1>3, <1>4, <1>5, <1>6, <1>7, <1>8 DEF SwapNext, swapRequest

LEMMA SwapBegins ==
    ASSUME SwapInit
    PROVE  SwapInv
<1>1. SwapTypeOK
  BY BoundsAssumption, TroublesAssumption DEF SwapInit, SwapTypeOK, Disk, Volume, Contents,
     NoVolume, Times, Row, Idle, Call, NoRun, Run, NoKept
<1>2. /\ disk.attached /\ disk.home = 0 /\ row.pending = FALSE /\ row.at = 0
      /\ row.import = "none" /\ begun = 0 /\ call.pc = "idle" /\ run.pc = "none"
      /\ late = {} /\ now = 0
  BY DEF SwapInit, Idle, NoRun
<1> QED
  BY <1>1, <1>2 DEF SwapInv, SwapParts, TimesInOrder, HomeIsSafe, CallIsOfRow, RunSees,
     AnswerIsTrue, NoVolume

(* An operation ends only where the owner is told how. *)
LEMMA SwapEnds ==
    ASSUME SwapInv, Undisturbed, [SwapNext]_swapVars, NEW what, Finishes(what)
    PROVE  /\ UNCHANGED <<disk, begun, ops>>
           /\ what = "replaced" => disk.attached /\ Swapped
           /\ what = "unchanged" /\ begun # Detached => Home(disk) = begun
<1>t. row \in Row /\ SwapParts
  BY DEF SwapInv, SwapTypeOK
<1>1. \/ importFailed \/ finishReplaced \/ finishTouched
      \/ lookForKept /\ Mine(disk) = {} /\ finished("unchanged")
  <2>1. row.pending /\ ~row'.pending
    BY DEF Finishes
  <2>2. row' # row /\ \A x : row' # [row EXCEPT !.state = x]
    BY <1>t, <2>1 DEF Row
  <2> QED
    BY <1>t, <2>1 DEF SwapNext, swapVars, Tick, requestReplaceHome, setDesired, deleteKeptHome,
       sweepStops, sweepStarts, startFails, askImport, callReplaceHome, hostImports, hostFails,
       getInstance, findImport, detachHome, findHome, keepHome, renameImport, attachHome,
       newestKeptHome, requested, onRun, interrupted, requestFails, lateEffect, lookForKept, Row
<1>2. UNCHANGED <<disk, begun, ops>>
  BY <1>1 DEF importFailed, finishReplaced, finishTouched, lookForKept
<1>3. CASE importFailed
  <2>1. what = "unchanged" /\ row.pending /\ row.import = "failed"
    BY <1>3 DEF importFailed, Due, finished, Finishes
  <2> QED
    BY <1>2, <1>t, <2>1 DEF SwapParts, HomeIsSafe
<1>4. CASE finishReplaced \/ finishTouched
  <2>1. what = "replaced" => finishReplaced
    BY <1>4 DEF finishTouched, finished, Finishes
  <2>2. what # "unchanged"
    BY <1>4 DEF finishTouched, finishReplaced, finished, Finishes
  <2> QED
    BY <1>2, <1>t, <2>1, <2>2 DEF SwapParts, AnswerIsTrue, finishReplaced
<1>5. CASE lookForKept /\ Mine(disk) = {} /\ finished("unchanged")
  <2>1. what = "unchanged" /\ Swapped
    BY <1>5, <1>t DEF finished, Finishes, lookForKept, SwapParts, AnswerIsTrue
  <2>2. begun # Detached => KeptSince(begun) /\ begun # NoVolume
    BY <1>t, <2>1 DEF Swapped, SwapParts, TimesInOrder
  <2>3. begun = Detached
    BY <1>5, <2>2 DEF KeptSince, Mine, KeptTimes, Since
  <2> QED
    BY <1>2, <2>1, <2>3
<1> QED
  BY <1>1, <1>3, <1>4, <1>5

(* When the owner is told that the home was replaced, the import is the home
   and what was there before is kept, however often the swap was cut off and
   whatever failed (replaceHome, keptSince, finish). *)
THEOREM ReplacedMeansSwapped == SwapSpec => ReplacedIsSwapped
<1>1. SwapInit => SwapInv
  BY SwapBegins
<1>2. SwapInv /\ [SwapNext]_swapVars => SwapInv'
  BY SwapKeeps
<1>3. SwapInv /\ [SwapNext]_swapVars
        => [Finishes("replaced") /\ may \subseteq {"fail"} =>
              /\ Home(disk) = ops
              /\ disk.import = NoVolume
              /\ begun # Detached => Holds(disk, begun)]_swapVars
  BY SwapEnds DEF Undisturbed, Swapped, KeptSince, Home, Holds
<1> QED
  BY <1>1, <1>2, <1>3, PTL DEF SwapSpec, ReplacedIsSwapped

(* When the owner is told that nothing was changed, the home that was there
   at the request is the home still (runReplaceHome, keptSince). *)
THEOREM UnchangedMeansUntouched == SwapSpec => WholeHomeUntouched
<1>1. SwapInit => SwapInv
  BY SwapBegins
<1>2. SwapInv /\ [SwapNext]_swapVars => SwapInv'
  BY SwapKeeps
<1>3. SwapInv /\ [SwapNext]_swapVars
        => [Finishes("unchanged") /\ begun # Detached /\ may \subseteq {"fail"}
              => Home(disk) = begun]_swapVars
  BY SwapEnds DEF Undisturbed
<1> QED
  BY <1>1, <1>2, <1>3, PTL DEF SwapSpec, WholeHomeUntouched
=============================================================================
