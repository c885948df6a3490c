---------------------------- MODULE Worker_proofs ----------------------------
(***************************************************************************)
(* Proofs about two parts of the worker: the slots of its controller calls *)
(* (ControllerSlots), for every finite set of workspaces and every         *)
(* positive cap, and its resource guard (ResourceGuard), for every         *)
(* setting.  The two share no state.                                       *)
(*                                                                         *)
(* Of the guard: the times that the row keeps are all it takes to tell     *)
(* whether a throttle is held (RecentIsEnough); the samples stay in order, *)
(* after the throttle that ended last, and of the run that a tick judges   *)
(* (SampleInv); and each sample accounts for the use since the one before  *)
(* (UsedInv).                                                              *)
(***************************************************************************)
EXTENDS ControllerSlots, ResourceGuard, SequenceTheorems, FiniteSetTheorems, WellFoundedInduction,
        TLAPS

(* The inductive invariant: the four invariants the runs check, together.
   SlotsAccountedFor needs OneCallEach (a call that ends was counted once)
   and NoIdleSlot needs SlotsAccountedFor's type bound. *)
IInv == TypeOK /\ SlotsAccountedFor /\ OneCallEach /\ NoIdleSlot

(* Sets of workspaces are finite, so adding or removing one member moves the
   cardinality by one. *)
LEMMA WorkspaceSets ==
    ASSUME NEW S, S \subseteq Workspaces
    PROVE  /\ IsFiniteSet(S)
           /\ Cardinality(S) \in Nat
           /\ \A w : w \in Workspaces \ S =>
                Cardinality(S \union {w}) = Cardinality(S) + 1
           /\ \A w \in S : Cardinality(S \ {w}) = Cardinality(S) - 1
  <1>1. IsFiniteSet(S)
    BY WorkspacesAssumption, FS_Subset
  <1>2. Cardinality(S) \in Nat
    BY <1>1, FS_CardinalityType
  <1>3. ASSUME NEW w, w \in Workspaces \ S
        PROVE  Cardinality(S \union {w}) = Cardinality(S) + 1
    BY <1>1, <1>3, FS_AddElement
  <1>4. ASSUME NEW w \in S
        PROVE  Cardinality(S \ {w}) = Cardinality(S) - 1
    BY <1>1, FS_RemoveElement
  <1> QED
    BY <1>1, <1>2, <1>3, <1>4

(* CallPool brings its own copy of Cardinality, which is the same operator. *)
LEMMA PoolCardinality ==
    ASSUME NEW S
    PROVE  Pool!Cardinality(S) = Cardinality(S)
  BY Zenon DEF Pool!Cardinality, Cardinality

LEMMA InitIInv == Init => IInv
  <1> SUFFICES ASSUME Init PROVE IInv
    OBVIOUS
  <1>1. Cardinality({}) = 0
    BY FS_EmptySet
  <1> QED
    BY <1>1, CapAssumption
    DEF Init, IInv, TypeOK, SlotsAccountedFor, OneCallEach, NoIdleSlot, Queued

(* How the queue's members change when the queue grows or shrinks. *)
LEMMA QueuedAppend ==
    ASSUME TypeOK, NEW w \in Workspaces,
           waitingForSlot' = Append(waitingForSlot, w)
    PROVE  Queued' = Queued \union {w}
  <1>1. /\ Len(waitingForSlot') = Len(waitingForSlot) + 1
        /\ \A i \in 1..Len(waitingForSlot) : waitingForSlot'[i] = waitingForSlot[i]
        /\ waitingForSlot'[Len(waitingForSlot) + 1] = w
    BY DEF TypeOK
  <1>2. Len(waitingForSlot) \in Nat
    BY DEF TypeOK
  <1>3. Queued' \subseteq Queued \union {w}
    BY <1>1, <1>2 DEF Queued
  <1>4. w \in Queued'
    BY <1>1, <1>2 DEF Queued
  <1>5. Queued \subseteq Queued'
    BY <1>1, <1>2 DEF Queued
  <1> QED
    BY <1>3, <1>4, <1>5

LEMMA QueuedTail ==
    ASSUME TypeOK, OneCallEach, waitingForSlot # <<>>,
           waitingForSlot' = Tail(waitingForSlot)
    PROVE  /\ Head(waitingForSlot) \in Queued
           /\ Head(waitingForSlot) \in Workspaces
           /\ Queued' = Queued \ {Head(waitingForSlot)}
           /\ waitingForSlot' \in Seq(Workspaces)
           /\ Len(waitingForSlot') = Len(waitingForSlot) - 1
           /\ \A i \in 1..Len(waitingForSlot') :
                waitingForSlot'[i] = waitingForSlot[i + 1]
  <1>1. /\ Len(waitingForSlot) \in Nat \ {0}
        /\ waitingForSlot' \in Seq(Workspaces)
        /\ Len(waitingForSlot') = Len(waitingForSlot) - 1
        /\ \A i \in 1..Len(waitingForSlot') :
             waitingForSlot'[i] = waitingForSlot[i + 1]
        /\ Head(waitingForSlot) = waitingForSlot[1]
        /\ \A i \in 1..Len(waitingForSlot) : waitingForSlot[i] \in Workspaces
    BY DEF TypeOK
  <1>2. Head(waitingForSlot) \in Queued /\ Head(waitingForSlot) \in Workspaces
    BY <1>1 DEF Queued
  <1>3. Queued' \subseteq Queued
    BY <1>1 DEF Queued
  <1>4. Head(waitingForSlot) \notin Queued'
    BY <1>1 DEF Queued, OneCallEach
  <1>5. ASSUME NEW x \in Queued, x # Head(waitingForSlot)
        PROVE  x \in Queued'
    <2>1. PICK i \in 1..Len(waitingForSlot) : x = waitingForSlot[i]
      BY DEF Queued
    <2>2. i # 1 /\ i - 1 \in 1..Len(waitingForSlot')
      BY <1>1, <1>5, <2>1
    <2>3. waitingForSlot'[i - 1] = x
      BY <1>1, <2>1, <2>2
    <2> QED
      BY <2>2, <2>3 DEF Queued
  <1> QED
    BY <1>1, <1>2, <1>3, <1>4, <1>5

LEMMA NextIInv == IInv /\ [Next]_vars => IInv'
  <1> SUFFICES ASSUME IInv, [Next]_vars PROVE IInv'
    OBVIOUS
  <1> USE DEF IInv
  <1>q. Queued \subseteq Workspaces
    BY DEF TypeOK, Queued
  <1>c. /\ Cardinality(calling) \in Nat
        /\ Cardinality(woken) \in Nat
    BY WorkspaceSets DEF TypeOK
  <1>1. ASSUME NEW w \in Workspaces, RunInBackground(w)
        PROVE  IInv'
    <2>0. w \notin Queued \union woken \union calling \union stops
      BY <1>1 DEF RunInBackground, OneCallEach
    <2>1. CASE activeCalls < Cap
      <3>1. /\ activeCalls' = activeCalls + 1
            /\ calling' = calling \union {w}
            /\ inFlight' = inFlight \union {w}
            /\ UNCHANGED <<waitingForSlot, woken, stops>>
        BY <1>1, <2>1 DEF RunInBackground
      <3>2. Cardinality(calling') = Cardinality(calling) + 1
        BY <2>0, <3>1, WorkspaceSets DEF TypeOK
      <3>3. TypeOK'
        BY <2>1, <3>1, CapAssumption DEF TypeOK
      <3>4. SlotsAccountedFor'
        BY <1>c, <2>0, <3>1, <3>2 DEF SlotsAccountedFor
      <3>5. OneCallEach'
        BY <2>0, <3>1 DEF OneCallEach, Queued
      <3>6. NoIdleSlot'
        BY <2>1, <3>1, CapAssumption DEF NoIdleSlot, TypeOK
      <3> QED
        BY <3>3, <3>4, <3>5, <3>6
    <2>2. CASE ~(activeCalls < Cap)
      <3>1. /\ waitingForSlot' = Append(waitingForSlot, w)
            /\ inFlight' = inFlight \union {w}
            /\ UNCHANGED <<activeCalls, woken, calling, stops>>
        BY <1>1, <2>2 DEF RunInBackground
      <3>2. Queued' = Queued \union {w}
        BY <3>1, QueuedAppend
      <3>3. TypeOK'
        BY <3>1 DEF TypeOK
      <3>4. SlotsAccountedFor'
        BY <3>1 DEF SlotsAccountedFor
      <3>5. ASSUME NEW i \in 1..Len(waitingForSlot'),
                   NEW j \in 1..Len(waitingForSlot'),
                   waitingForSlot'[i] = waitingForSlot'[j]
            PROVE  i = j
        <4>1. /\ Len(waitingForSlot) \in Nat
              /\ Len(waitingForSlot') = Len(waitingForSlot) + 1
              /\ waitingForSlot'[Len(waitingForSlot) + 1] = w
              /\ \A k \in 1..Len(waitingForSlot) :
                   waitingForSlot'[k] = waitingForSlot[k]
          BY <3>1 DEF TypeOK
        <4>2. \A k \in 1..Len(waitingForSlot) : waitingForSlot[k] # w
          BY <2>0 DEF Queued
        <4> QED
          BY <3>5, <4>1, <4>2 DEF OneCallEach
      <3>6. OneCallEach'
        BY <2>0, <3>1, <3>2, <3>5 DEF OneCallEach
      <3>7. NoIdleSlot'
        BY <2>2, <3>1, CapAssumption DEF NoIdleSlot, TypeOK
      <3> QED
        BY <3>3, <3>4, <3>6, <3>7
    <2> QED
      BY <2>1, <2>2
  <1>2. ASSUME NEW w \in Workspaces, StopInBackground(w)
        PROVE  IInv'
    BY <1>2 DEF StopInBackground, TypeOK, SlotsAccountedFor, OneCallEach,
                NoIdleSlot, Queued
  <1>3. ASSUME NEW w \in Workspaces, Resume(w)
        PROVE  IInv'
    <2>0. w \notin calling
      BY <1>3 DEF Resume, SlotsAccountedFor
    <2>1. /\ Cardinality(calling') = Cardinality(calling) + 1
          /\ Cardinality(woken') = Cardinality(woken) - 1
      BY <1>3, <2>0, WorkspaceSets DEF Resume, TypeOK
    <2>2. TypeOK'
      BY <1>3 DEF Resume, TypeOK
    <2>3. SlotsAccountedFor'
      BY <1>3, <1>c, <2>1 DEF Resume, SlotsAccountedFor, TypeOK
    <2>4. OneCallEach'
      BY <1>3 DEF Resume, OneCallEach, Queued
    <2>5. NoIdleSlot'
      BY <1>3 DEF Resume, NoIdleSlot
    <2> QED
      BY <2>2, <2>3, <2>4, <2>5
  <1>4. ASSUME NEW w \in Workspaces, ReleaseSlot(w)
        PROVE  IInv'
    <2>0. /\ w \in calling
          /\ w \notin woken
          /\ Cardinality(calling') = Cardinality(calling) - 1
      BY <1>4, WorkspaceSets DEF ReleaseSlot, TypeOK, SlotsAccountedFor
    <2>1. CASE waitingForSlot # <<>>
      <3> DEFINE h == Head(waitingForSlot)
      <3>1. /\ woken' = woken \union {h}
            /\ waitingForSlot' = Tail(waitingForSlot)
            /\ calling' = calling \ {w}
            /\ UNCHANGED <<activeCalls, inFlight, stops>>
        BY <1>4, <2>1 DEF ReleaseSlot
      <3>2. /\ h \in Queued
            /\ h \in Workspaces
            /\ Queued' = Queued \ {h}
            /\ waitingForSlot' \in Seq(Workspaces)
            /\ Len(waitingForSlot') = Len(waitingForSlot) - 1
            /\ \A i \in 1..Len(waitingForSlot') :
                 waitingForSlot'[i] = waitingForSlot[i + 1]
        BY <2>1, <3>1, QueuedTail
      <3>3. h \notin woken /\ h \notin calling /\ h \notin stops
        BY <3>2 DEF OneCallEach
      <3>4. Cardinality(woken') = Cardinality(woken) + 1
        BY <3>1, <3>2, <3>3, WorkspaceSets DEF TypeOK
      <3>5. TypeOK'
        BY <3>1, <3>2 DEF TypeOK
      <3>6. SlotsAccountedFor'
        BY <1>c, <2>0, <3>1, <3>3, <3>4 DEF SlotsAccountedFor, TypeOK
      <3>7. ASSUME NEW i \in 1..Len(waitingForSlot'),
                   NEW j \in 1..Len(waitingForSlot'),
                   waitingForSlot'[i] = waitingForSlot'[j]
            PROVE  i = j
        <4>1. /\ Len(waitingForSlot) \in Nat
              /\ i \in Nat /\ j \in Nat
              /\ i + 1 \in 1..Len(waitingForSlot)
              /\ j + 1 \in 1..Len(waitingForSlot)
          BY <3>2 DEF TypeOK
        <4>2. waitingForSlot[i + 1] = waitingForSlot[j + 1]
          BY <3>2, <3>7
        <4>3. i + 1 = j + 1
          BY <4>1, <4>2 DEF OneCallEach
        <4> QED
          BY <4>1, <4>3
      <3>8. OneCallEach'
        BY <3>1, <3>2, <3>3, <3>7 DEF OneCallEach
      <3>9. NoIdleSlot'
        BY <2>1, <3>1 DEF NoIdleSlot
      <3> QED
        BY <3>5, <3>6, <3>8, <3>9
    <2>2. CASE waitingForSlot = <<>>
      <3>1. /\ activeCalls' = activeCalls - 1
            /\ calling' = calling \ {w}
            /\ UNCHANGED <<woken, waitingForSlot, inFlight, stops>>
        BY <1>4, <2>2 DEF ReleaseSlot
      <3>2. SlotsAccountedFor'
        BY <1>c, <2>0, <3>1 DEF SlotsAccountedFor, TypeOK
      <3>3. Cardinality(calling') \in Nat
        BY <3>1, WorkspaceSets DEF TypeOK
      <3>4. TypeOK'
        BY <1>c, <2>0, <3>1, <3>3, CapAssumption DEF SlotsAccountedFor, TypeOK
      <3>5. OneCallEach'
        BY <3>1 DEF OneCallEach, Queued
      <3>6. NoIdleSlot'
        BY <2>2, <3>1 DEF NoIdleSlot
      <3> QED
        BY <3>2, <3>4, <3>5, <3>6
    <2> QED
      BY <2>1, <2>2
  <1>5. ASSUME NEW w \in Workspaces, EndStop(w)
        PROVE  IInv'
    BY <1>5 DEF EndStop, TypeOK, SlotsAccountedFor, OneCallEach, NoIdleSlot, Queued
  <1>6. ASSUME NEW w \in Workspaces, Settle(w)
        PROVE  IInv'
    BY <1>6 DEF Settle, TypeOK, SlotsAccountedFor, OneCallEach, NoIdleSlot, Queued
  <1>7. CASE Restart
    <2>1. Init'
      BY <1>7 DEF Restart, Init
    <2>2. Cardinality({}) = 0
      BY FS_EmptySet
    <2> QED
      BY <2>1, <2>2, CapAssumption
      DEF Init, TypeOK, SlotsAccountedFor, OneCallEach, NoIdleSlot, Queued
  <1>8. CASE UNCHANGED vars
    BY <1>8 DEF vars, TypeOK, SlotsAccountedFor, OneCallEach, NoIdleSlot, Queued
  <1> QED
    BY <1>1, <1>2, <1>3, <1>4, <1>5, <1>6, <1>7, <1>8 DEF Next

(* The four invariants of the bookkeeping hold in every behaviour, for every
   cap and every number of workspaces. *)
THEOREM SlotInvariants ==
    Spec => [](TypeOK /\ SlotsAccountedFor /\ OneCallEach /\ NoIdleSlot)
  BY InitIInv, NextIInv, PTL DEF Spec, IInv

-----------------------------------------------------------------------------
(* ControllerSlots implements CallPool: every step of withSlot and track is a
   step of the abstract pool, or leaves it unchanged. *)
THEOREM SlotsImplementCallPool == Spec => ImplementsCallPool
  <1> USE DEF IInv
  <1>1. Init => Pool!Init
    BY DEF Init, Pool!Init, Queued
  <1>2. IInv /\ [Next]_vars => [Pool!Next]_(Pool!vars)
    <2> SUFFICES ASSUME IInv, [Next]_vars PROVE [Pool!Next]_(Pool!vars)
      OBVIOUS
    <2> USE DEF Pool!Next, Pool!vars
    <2>c. /\ Cardinality(calling) \in Nat
          /\ Cardinality(woken) \in Nat
      BY WorkspaceSets DEF TypeOK
    <2>1. ASSUME NEW w \in Workspaces, RunInBackground(w)
          PROVE  Pool!Submit(w)
      <3>0. w \notin Pool!Recorded
        BY <2>1 DEF RunInBackground, OneCallEach, Pool!Recorded
      <3>1. CASE activeCalls < Cap
        <4>1. Cardinality(calling) < Cap
          BY <2>c, <3>1, CapAssumption DEF SlotsAccountedFor, TypeOK
        <4>2. Pool!Cardinality(calling) < Cap
          BY <4>1, PoolCardinality
        <4> QED
          BY <2>1, <3>0, <3>1, <4>2
          DEF RunInBackground, Pool!Submit, Pool!Recorded, Queued
      <3>2. CASE ~(activeCalls < Cap)
        <4>1. Queued' = Queued \union {w}
          BY <2>1, <3>2, QueuedAppend DEF RunInBackground
        <4> QED
          BY <2>1, <3>0, <3>2, <4>1 DEF RunInBackground, Pool!Submit, Pool!Recorded
      <3> QED
        BY <3>1, <3>2
    <2>2. ASSUME NEW w \in Workspaces, StopInBackground(w)
          PROVE  Pool!SubmitStop(w)
      BY <2>2 DEF StopInBackground, OneCallEach, Pool!SubmitStop, Pool!Recorded, Queued
    <2>3. ASSUME NEW w \in Workspaces, Resume(w)
          PROVE  Pool!Admit(w)
      <3>1. Cardinality(woken) # 0
        BY <2>3, WorkspaceSets, FS_EmptySet DEF Resume, TypeOK
      <3>2. Pool!Cardinality(calling) < Cap
        BY <2>c, <3>1, PoolCardinality, CapAssumption DEF SlotsAccountedFor, TypeOK
      <3>3. w \notin Queued
        BY <2>3 DEF Resume, OneCallEach
      <3> QED
        BY <2>3, <3>2, <3>3 DEF Resume, Pool!Admit, Queued
    <2>4. ASSUME NEW w \in Workspaces, ReleaseSlot(w)
          PROVE  Pool!End(w)
      <3>0. /\ w \in calling
            /\ w \notin Queued \union woken \union stops
            /\ w \in inFlight
        BY <2>4 DEF ReleaseSlot, SlotsAccountedFor, OneCallEach
      <3>1. Queued' \union woken' = Queued \union woken
        <4>1. CASE waitingForSlot # <<>>
          BY <2>4, <4>1, QueuedTail DEF ReleaseSlot
        <4>2. CASE waitingForSlot = <<>>
          BY <2>4, <4>2 DEF ReleaseSlot, Queued
        <4> QED
          BY <4>1, <4>2
      <3> QED
        BY <2>4, <3>0, <3>1 DEF ReleaseSlot, Pool!End
    <2>5. ASSUME NEW w \in Workspaces, EndStop(w)
          PROVE  Pool!End(w)
      BY <2>5 DEF EndStop, Pool!End, OneCallEach, Queued
    <2>6. ASSUME NEW w \in Workspaces, Settle(w)
          PROVE  Pool!Forget(w)
      BY <2>6 DEF Settle, Pool!Forget, Queued
    <2>7. CASE Restart
      BY <2>7 DEF Restart, Pool!Exit, Queued
    <2>8. CASE UNCHANGED vars
      BY <2>8 DEF vars, Queued
    <2> QED
      BY <2>1, <2>2, <2>3, <2>4, <2>5, <2>6, <2>7, <2>8 DEF Next
  <1> QED
    BY <1>1, <1>2, InitIInv, NextIInv, PTL DEF Spec, ImplementsCallPool, Pool!Spec

-----------------------------------------------------------------------------
(* The hold of a throttle (ResourceGuard), which a start reads. *)
GuardRows == [state : {"running", "stopping", "stopped", "starting"},
              throttle : [at : Nat, held : BOOLEAN, allow : Int], flag : BOOLEAN,
              recent : SUBSET Nat]

GuardTypes ==
    /\ world \in Worlds
    /\ clock \in [now : Nat, due : BOOLEAN]
    /\ row \in GuardRows
    /\ "throttles" \in DOMAIN seen

(* The times kept are throttles, and every throttle of the hold period is
   among them. *)
RecentIsEnough ==
    /\ seen.throttles \subseteq 0..clock.now
    /\ row.recent \subseteq seen.throttles
    /\ \A t \in seen.throttles : t > clock.now - HoldFor => t \in row.recent

GuardInv == GuardTypes /\ RecentIsEnough /\ HeldExactly

(* Steps that throttle nothing, though they may lift or change a throttle. *)
LEMMA NoNewThrottle ==
    ASSUME GuardInv, UNCHANGED world,
           clock' \in [now : Nat, due : BOOLEAN], clock'.now \in {clock.now, clock.now + 1},
           row' \in GuardRows, row'.recent = row.recent,
           "throttles" \in DOMAIN seen', seen'.throttles = seen.throttles,
           \/ row'.throttle = NoThrottle
           \/ /\ row.throttle # NoThrottle
              /\ row'.throttle.at = row.throttle.at
              /\ row'.throttle.held = row.throttle.held
           \/ row'.throttle = row.throttle
    PROVE  GuardInv'
<1>t. /\ clock.now \in Nat /\ clock'.now \in Nat
      /\ HoldFor' = HoldFor /\ HoldFor \in Nat
      /\ HoldAfter' = HoldAfter
  BY WorldsAssumption DEF GuardInv, GuardTypes, HoldFor, HoldAfter, Numbers
<1>1. RecentIsEnough'
  BY <1>t DEF GuardInv, RecentIsEnough
<1>2. HeldExactly'
  BY <1>t DEF GuardInv, HeldExactly, Throttled
<1> QED
  BY <1>1, <1>2 DEF GuardInv, GuardTypes

(* A new throttle is held by the times kept, which are the throttles of its
   hold period. *)
LEMMA NewThrottle ==
    ASSUME GuardInv, UNCHANGED <<world, clock>>,
           row' \in GuardRows, row'.recent = KeptRecent,
           row'.throttle.at = clock.now, row'.throttle.held = Holds,
           "throttles" \in DOMAIN seen', seen'.throttles = seen.throttles \cup {clock.now}
    PROVE  GuardInv'
<1>t. /\ clock.now \in Nat
      /\ HoldFor' = HoldFor /\ HoldFor \in Nat /\ HoldFor >= 1
      /\ HoldAfter' = HoldAfter
      /\ RecentIsEnough
  BY WorldsAssumption DEF GuardInv, GuardTypes, HoldFor, HoldAfter, Numbers
<1>n. \A t \in seen.throttles : t \in Nat /\ t <= clock.now
  BY <1>t DEF RecentIsEnough
<1>1. RecentIsEnough'
  BY <1>t, <1>n DEF RecentIsEnough, KeptRecent
<1>2. {t \in seen'.throttles : t <= clock.now /\ t > clock.now - HoldFor} = KeptRecent
  <2>1. ASSUME NEW t \in seen'.throttles, t > clock.now - HoldFor
        PROVE  t \in KeptRecent
    BY <1>t, <2>1 DEF RecentIsEnough, KeptRecent
  <2>2. ASSUME NEW t \in KeptRecent
        PROVE  t \in seen'.throttles /\ t <= clock.now /\ t > clock.now - HoldFor
    BY <1>t, <1>n, <2>2 DEF RecentIsEnough, KeptRecent
  <2> QED
    BY <2>1, <2>2
<1>3. HeldExactly'
  BY <1>t, <1>2 DEF HeldExactly, Holds
<1> QED
  BY <1>1, <1>3 DEF GuardInv, GuardTypes

LEMMA GuardKeeps ==
    ASSUME GuardInv, [GuardNext]_guardVars
    PROVE  GuardInv'
<1>t. /\ clock \in [now : Nat, due : BOOLEAN] /\ row \in GuardRows
      /\ "throttles" \in DOMAIN seen
  BY DEF GuardInv, GuardTypes
<1>w. UNCHANGED world
  BY DEF GuardNext, guardVars, work, reboot, minute, readUsage, usageReadFails, recordSample,
     judge, decide, syncAllowance, syncFails, beginStop, instanceStops, stopRecorded,
     clearGuardAtStop, clearSamples, beginStart, startInstance, liftThrottle, clearMemoryFlag,
     setLimits, workerCrash
<1>1. CASE \/ work \/ reboot \/ minute \/ readUsage
           \/ usageReadFails \/ recordSample \/ judge
           \/ syncAllowance \/ syncFails \/ instanceStops
           \/ clearSamples \/ workerCrash \/ UNCHANGED guardVars
  <2>1. UNCHANGED row
    BY <1>1 DEF guardVars, work, reboot, minute, readUsage, usageReadFails, recordSample, judge,
       syncAllowance, syncFails, instanceStops, clearSamples, workerCrash
  <2>2. \/ clock' = clock
        \/ clock' = [now |-> clock.now + 1, due |-> TRUE]
        \/ clock' = [clock EXCEPT !.due = FALSE]
    BY <1>1 DEF guardVars, work, reboot, minute, readUsage, usageReadFails, recordSample, judge,
       syncAllowance, syncFails, instanceStops, clearSamples, workerCrash
  <2>4. /\ clock' \in [now : Nat, due : BOOLEAN]
        /\ clock'.now \in {clock.now, clock.now + 1}
    <3>1. PICK n \in Nat, d \in BOOLEAN : clock = [now |-> n, due |-> d]
      BY <1>t
    <3>2. \E m \in {n, n + 1}, e \in BOOLEAN : clock' = [now |-> m, due |-> e]
      BY ONLY <2>2, <3>1
    <3> QED
      BY ONLY <3>1, <3>2
  <2>3. "throttles" \in DOMAIN seen' /\ seen'.throttles = seen.throttles
    BY <1>1, <1>t DEF guardVars, work, reboot, minute, readUsage, usageReadFails, recordSample,
       judge, syncAllowance, syncFails, instanceStops, clearSamples, workerCrash
  <2> QED
    BY <1>t, <1>w, <2>1, <2>3, <2>4, NoNewThrottle
<1>2. CASE \/ beginStop \/ stopRecorded \/ clearGuardAtStop
           \/ beginStart \/ startInstance \/ liftThrottle
           \/ clearMemoryFlag \/ setLimits
  <2>0. UNCHANGED clock
    BY <1>2 DEF beginStop, stopRecorded, clearGuardAtStop, beginStart, startInstance,
       liftThrottle, clearMemoryFlag, setLimits
  <2>1. "throttles" \in DOMAIN seen' /\ seen'.throttles = seen.throttles
    BY <1>2, <1>t DEF beginStop, stopRecorded, clearGuardAtStop, beginStart, startInstance,
       liftThrottle, clearMemoryFlag, setLimits
  <2>2. /\ row' \in GuardRows /\ row'.recent = row.recent
        /\ \/ row'.throttle = NoThrottle
           \/ /\ row.throttle # NoThrottle
              /\ row'.throttle.at = row.throttle.at
              /\ row'.throttle.held = row.throttle.held
           \/ row'.throttle = row.throttle
    <3>1. CASE setLimits
      <4>1. PICK x : x = [row.throttle EXCEPT !.allow = 3 - @]
        OBVIOUS
      <4>2. /\ x \in [at : Nat, held : BOOLEAN, allow : Int]
            /\ x.at = row.throttle.at /\ x.held = row.throttle.held
        BY <1>t, <4>1 DEF GuardRows
      <4>3. row' = [row EXCEPT !.throttle = x] /\ row.throttle # NoThrottle
        BY <1>t, <3>1, <4>1 DEF setLimits, Throttled, GuardRows
      <4> QED
        BY <1>t, <4>2, <4>3 DEF GuardRows
    <3>n. NoThrottle \in [at : Nat, held : BOOLEAN, allow : Int]
      BY DEF NoThrottle
    <3>2. CASE beginStop \/ stopRecorded \/ beginStart \/ startInstance
      <4>1. \E st \in {"stopping", "stopped", "starting", "running"} :
              row' = [row EXCEPT !.state = st]
        BY <3>2 DEF beginStop, stopRecorded, beginStart, startInstance
      <4> QED
        BY ONLY <1>t, <4>1 DEF GuardRows
    <3>3. CASE clearGuardAtStop \/ clearMemoryFlag
      <4>1. PICK th \in {NoThrottle, row.throttle} :
              row' = [row EXCEPT !.flag = FALSE, !.throttle = th]
        BY <1>t, <3>3 DEF clearGuardAtStop, clearMemoryFlag, GuardRows
      <4> QED
        BY ONLY <1>t, <3>n, <4>1 DEF GuardRows
    <3>4. CASE liftThrottle
      <4>1. row' = [row EXCEPT !.throttle = NoThrottle]
        BY <3>4 DEF liftThrottle
      <4> QED
        BY ONLY <1>t, <3>n, <4>1 DEF GuardRows
    <3> QED
      BY <1>2, <3>1, <3>2, <3>3, <3>4
  <2> QED
    BY <1>t, <1>w, <2>0, <2>1, <2>2, NoNewThrottle
<1>3. CASE decide
  <2> DEFINE lifted == tick.lifts /\ row.throttle.at = tick.throttle.at
                       /\ Throttled(row)
             throttled == tick.throttles /\ row.state = "running"
                          /\ ~Throttled(row)
             new == [at |-> clock.now, held |-> Holds, allow |-> 1]
             flag == row.flag \/ (tick.flag /\ row.state = "running")
  <2>1. /\ row' = [row EXCEPT
              !.throttle = IF lifted THEN NoThrottle ELSE IF throttled THEN new ELSE @,
              !.recent = IF throttled THEN KeptRecent ELSE @,
              !.flag = @ \/ (tick.flag /\ row.state = "running")]
        /\ UNCHANGED clock
        /\ seen' = [seen EXCEPT !.ended = IF lifted THEN tick.throttle.at ELSE @,
                                !.throttles = IF throttled THEN @ \cup {clock.now} ELSE @]
    BY <1>3 DEF decide
  <2>2. PICK f \in BOOLEAN : f = flag
    OBVIOUS
  <2>3. CASE throttled
    <3>1. ~lifted
      BY <2>3
    <3>2. PICK n : n = new
      OBVIOUS
    <3>3. PICK h \in BOOLEAN : h = Holds
      BY DEF Holds
    <3>4. n \in [at : Nat, held : BOOLEAN, allow : Int] /\ n.at = clock.now /\ n.held = Holds
      BY <1>t, <3>2, <3>3
    <3>5. KeptRecent \in SUBSET Nat
      BY <1>t DEF KeptRecent, GuardRows
    <3>6. row' = [row EXCEPT !.throttle = n, !.recent = KeptRecent, !.flag = f]
      BY <1>t, <2>1, <2>2, <2>3, <3>1, <3>2 DEF GuardRows
    <3>7. /\ row' \in GuardRows /\ row'.recent = KeptRecent /\ row'.throttle = n
      BY ONLY <1>t, <2>2, <3>4, <3>5, <3>6 DEF GuardRows
    <3>8. "throttles" \in DOMAIN seen' /\ seen'.throttles = seen.throttles \cup {clock.now}
      BY <1>t, <2>1, <2>3
    <3> QED
      BY <1>w, <2>1, <3>4, <3>7, <3>8, NewThrottle
  <2>4. CASE ~throttled
    <3>1. "throttles" \in DOMAIN seen' /\ seen'.throttles = seen.throttles
      BY <1>t, <2>1, <2>4
    <3>2. PICK th \in {NoThrottle, row.throttle} :
            row' = [row EXCEPT !.throttle = th, !.flag = f]
      BY <1>t, <2>1, <2>2, <2>4 DEF GuardRows
    <3>3. /\ row' \in GuardRows /\ row'.recent = row.recent /\ row'.throttle = th
      <4>1. th \in [at : Nat, held : BOOLEAN, allow : Int]
        <5>1. /\ NoThrottle \in [at : Nat, held : BOOLEAN, allow : Int]
              /\ row.throttle \in [at : Nat, held : BOOLEAN, allow : Int]
          BY <1>t DEF GuardRows, NoThrottle
        <5> QED
          BY ONLY <3>2, <5>1
      <4> QED
        BY ONLY <1>t, <2>2, <3>2, <4>1 DEF GuardRows
    <3> QED
      BY <1>t, <1>w, <2>1, <3>1, <3>2, <3>3, NoNewThrottle
  <2> QED
    BY <2>3, <2>4
<1> QED
  BY <1>1, <1>2, <1>3 DEF GuardNext

(* A throttle is held exactly when it is at least the HoldAfter-th of the hold
   period, though only the times of the last one's period are kept, and
   whatever stops, lifts, crashes and other limits came between (throttleHold,
   judgeCpu). *)
THEOREM ThrottleHeldExactly == GuardSpec => []HeldExactly
<1>1. GuardInit => GuardInv
  BY DEF GuardInit, GuardInv, GuardTypes, GuardRows, RecentIsEnough, HeldExactly,
     Throttled, NoThrottle
<1>2. GuardInv /\ [GuardNext]_guardVars => GuardInv'
  BY GuardKeeps
<1>3. GuardInv => HeldExactly
  BY DEF GuardInv
<1> QED
  BY <1>1, <1>2, <1>3, PTL DEF GuardSpec

(* The samples of the guard, which its throttles and flags are judged by. *)
ThrottleRecs == [at : Nat, held : BOOLEAN, allow : Int]
SampleRecs == [at : Nat, ns : Int, marker : Int, mem : Int, boot : Int, total : Int,
               late : BOOLEAN]

Sorted(s) == \A i, j \in 1..Len(s) : i < j => s[i].at < s[j].at

(* The last samples, without the first k. *)
IsRest(s, of, k) ==
    /\ s \in Seq(SampleRecs) /\ Len(s) = Len(of) - k
    /\ \A i \in 1..Len(s) : i + k \in 1..Len(of) /\ s[i] = of[i + k]

(* The least of some numbers, and the greatest of some indexes. *)
LEMMA LeastOf ==
    ASSUME NEW S \in SUBSET Nat, S # {}
    PROVE  \E x \in S : \A y \in S : x <= y
<1>1. PICK x \in S : \A y \in S : ~ (<<y, x>> \in OpToRel(<, Nat))
  BY NatLessThanWellFounded, WFMin, Zenon
<1>2. ASSUME NEW y \in S
      PROVE  x <= y
  <2>1. <<y, x>> \in Nat \X Nat /\ <<y, x>>[1] = y /\ <<y, x>>[2] = x
    OBVIOUS
  <2>2. ~ (y < x)
    BY <1>1, <2>1 DEF OpToRel
  <2> QED
    BY <2>2
<1> QED
  BY <1>2

LEMMA GreatestOf ==
    ASSUME NEW n \in Nat, NEW S \in SUBSET (1..n), S # {}
    PROVE  \E x \in S : \A y \in S : y <= x
<1> DEFINE Left == {m \in Nat : n - m \in S}
<1>1. \A y \in S : n - y \in Left
  OBVIOUS
<1>2. PICK x \in Left : \A y \in Left : x <= y
  BY <1>1, LeastOf
<1>3. n - x \in S
  OBVIOUS
<1>4. ASSUME NEW y \in S
      PROVE  y <= n - x
  <2>1. x <= n - y
    BY <1>1, <1>2
  <2> QED
    BY <2>1
<1> QED
  BY <1>3, <1>4

(* What a deletion of the older samples leaves: the last ones, which are those
   after the time. *)
LEMMA SamplesAfterIs ==
    ASSUME samples \in Seq(SampleRecs), Sorted(samples), NEW t \in Int
    PROVE  \E k \in 0..Len(samples) :
              /\ IsRest(SamplesAfter(t), samples, k)
              /\ \A i \in 1..Len(SamplesAfter(t)) : SamplesAfter(t)[i].at > t
<1> DEFINE n == Len(samples)
           old == {i \in 1..n : samples[i].at <= t}
<1>r. n \in Nat /\ \A i \in 1..n : samples[i] \in SampleRecs
  OBVIOUS
<1>n. n \in Nat /\ \A i \in 1..n : samples[i].at \in Nat
  BY <1>r DEF SampleRecs
<1>1. \E k \in 0..n : old = 1..k
  <2>1. CASE old = 1..n
    BY <1>n, <2>1
  <2>2. CASE old # 1..n
    <3> DEFINE new == {i \in 1..n : ~ (samples[i].at <= t)}
    <3>0. new \in SUBSET Nat /\ new # {}
      BY <1>n, <2>2
    <3>1. PICK x \in new : \A y \in new : x <= y
      BY <3>0, LeastOf, Zenon
    <3>2. \A i \in 1..n : i < x => i \in old
      BY <1>n, <3>1
    <3>s. x \in 1..n /\ ~ (samples[x].at <= t) /\ samples[x].at \in Nat
      BY <1>n, <3>1
    <3>3. ASSUME NEW i \in 1..n, x <= i
          PROVE  i \notin old
      <4>1. samples[i].at \in Nat /\ (i = x \/ samples[x].at < samples[i].at)
        BY <1>n, <3>s, <3>3 DEF Sorted
      <4> QED
        BY ONLY <3>s, <4>1, t \in Int
    <3>4. old = 1..(x - 1)
      BY <1>n, <3>2, <3>3
    <3>5. x - 1 \in 0..n
      BY ONLY <1>n, <3>s
    <3> QED
      BY <3>4, <3>5, Zenon
  <2> QED
    BY <2>1, <2>2
<1>2. PICK k \in 0..n : old = 1..k
  BY <1>1
<1>3. Cardinality({i \in 1..Len(samples) : samples[i].at <= t}) = k
  <2>1. k \in Int /\ Cardinality(1..k) = IF 1 > k THEN 0 ELSE k - 1 + 1
    BY <1>n, FS_Interval
  <2>2. Cardinality(1..k) = k
    BY <1>n, <2>1
  <2> QED
    BY <1>2, <2>2
<1>4. SamplesAfter(t) = SubSeq(samples, k + 1, n)
  BY <1>3 DEF SamplesAfter
<1>5. IsRest(SamplesAfter(t), samples, k)
  <2>1. PICK s : s = SubSeq(samples, k + 1, n)
    OBVIOUS
  <2>2. s \in Seq(SampleRecs) /\ Len(s) = IF k + 1 <= n THEN n - (k + 1) + 1 ELSE 0
    BY <1>n, <2>1, SubSeqProperties
  <2>3. \A i \in 1..Len(s) : s[i] = samples[k + 1 + i - 1]
    BY <1>n, <2>1, <2>2, SubSeqProperties
  <2>4. Len(s) = n - k
    BY ONLY <1>n, <2>2
  <2>5. \A i \in 1..Len(s) : i + k \in 1..n /\ k + 1 + i - 1 = i + k
    BY ONLY <1>n, <2>4
  <2> QED
    BY <1>4, <2>1, <2>2, <2>3, <2>4, <2>5 DEF IsRest
<1>6. \A i \in 1..Len(SamplesAfter(t)) : SamplesAfter(t)[i].at > t
  <2>1. \A i \in 1..n : i > k => samples[i].at > t
    BY <1>n, <1>2
  <2>2. PICK s : s = SamplesAfter(t)
    OBVIOUS
  <2>3. ASSUME NEW i \in 1..Len(s)
        PROVE  s[i].at > t
    <3>1. /\ i \in Nat /\ i >= 1
          /\ i + k \in 1..n /\ s[i] = samples[i + k]
      BY <1>5, <2>2 DEF IsRest
    <3>2. i + k > k
      BY <3>1
    <3> QED
      BY <2>1, <3>1, <3>2
  <2> QED
    BY <2>2, <2>3
<1> QED
  BY <1>5, <1>6

(* The anchor is a sample after since, when there is one. *)
LEMMA AnchorIs ==
    ASSUME samples \in Seq(SampleRecs), NEW since \in Int, NEW windowStart \in Int
    PROVE  \/ Anchor(since, windowStart) = 0
           \/ Anchor(since, windowStart) \in 1..Len(samples)
<1> DEFINE old == {i \in 1..Len(samples) : samples[i].at <= windowStart /\ samples[i].at > since}
<1>1. CASE old = {}
  BY <1>1 DEF Anchor
<1>2. CASE old # {}
  <2>0. Len(samples) \in Nat /\ old \in SUBSET (1..Len(samples))
    OBVIOUS
  <2>1. \E i \in old : \A j \in old : j <= i
    BY <1>2, <2>0, GreatestOf, Zenon
  <2>2. (CHOOSE i \in old : \A j \in old : j <= i) \in old
    BY <2>1
  <2>3. Anchor(since, windowStart) = CHOOSE i \in old : \A j \in old : j <= i
    BY <1>2 DEF Anchor
  <2> QED
    BY <2>2, <2>3
<1> QED
  BY <1>1, <1>2

(* The samples of the memory flag's mean are of the run of the last one, when
   every restart among them shows. *)
LEMMA RunOfTheLast ==
    ASSUME samples \in Seq(SampleRecs), RestartsShow, NEW i \in 1..Len(samples), ThisRun(i)
    PROVE  samples[i].boot = samples[Len(samples)].boot
<1> DEFINE n == Len(samples)
           same == {j \in Nat : i <= j /\ j <= n /\ samples[j].boot = samples[n].boot}
<1>n. n \in Nat /\ i \in 1..n
  OBVIOUS
<1>1. n \in same
  BY <1>n
<1>2. PICK x \in same : \A y \in same : x <= y
  BY <1>1, LeastOf
<1>3. ASSUME x # i
      PROVE  FALSE
  <2>1. x \in i + 1..n /\ x \in 2..n /\ x - 1 \in Nat /\ i <= x - 1 /\ x - 1 <= n
    BY <1>n, <1>2, <1>3
  <2>2. samples[x - 1].boot = samples[x].boot
    <3>1. ~restartedBetween(samples[x - 1], samples[x])
      BY <2>1 DEF ThisRun
    <3>2. RestartShows(samples[x - 1], samples[x])
      BY <2>1 DEF RestartsShow
    <3> QED
      BY <3>1, <3>2 DEF RestartShows
  <2>3. x - 1 \in same
    BY <1>2, <2>1, <2>2
  <2> QED
    BY <1>2, <2>1, <2>3
<1> QED
  BY <1>2, <1>3

LEMMA FlaggedRun ==
    ASSUME samples \in Seq(SampleRecs), Len(samples) > 0, RestartsShow,
           MemoryHigh, world \in Worlds
    PROVE  2 * Cardinality({i \in 1..Len(samples) :
                              samples[i].boot = samples[Len(samples)].boot}) >= Window
<1> DEFINE run == {i \in 1..Len(samples) : samples[i].boot = samples[Len(samples)].boot}
<1>1. MemorySamples \subseteq run
  BY RunOfTheLast DEF MemorySamples
<1>2. IsFiniteSet(run)
  <2>1. IsFiniteSet(1..Len(samples))
    BY FS_Interval
  <2> QED
    BY <2>1, FS_Subset
<1>3. /\ Cardinality(MemorySamples) \in Nat /\ Cardinality(run) \in Nat
      /\ Cardinality(MemorySamples) <= Cardinality(run)
  BY <1>1, <1>2, FS_Subset, FS_CardinalityType
<1>4. 2 * Cardinality(MemorySamples) >= Window
  BY Zenon DEF MemoryHigh
<1>5. Window \in Nat
  BY WorldsAssumption DEF Window, Numbers
<1> QED
  BY <1>3, <1>4, <1>5

TickRecs == [pc : {"idle", "usage", "rows", "judged", "sync"}, throttle : ThrottleRecs,
             allowance : Int, ns : Int, boot : Int, marker : Int, mem : Int, total : Int,
             flag : BOOLEAN, throttles : BOOLEAN, lifts : BOOLEAN, anchor : Int, clean : BOOLEAN]

InstRecs == [on : BOOLEAN, ns : Int, boot : Int, marker : Int, allowance : Int, used : Int]

RestTypes ==
    /\ samples \in Seq(SampleRecs)
    /\ tick \in TickRecs
    /\ inst \in [on : BOOLEAN, ns : Int, boot : Int, marker : Int, allowance : Int,
                used : Int]
    /\ clear \in [pc : {"none", "row", "samples"}, at : Nat]
    /\ start \in [pc : {"none", "read"}, allow : Int]
    /\ seen \in [total : Int, skipped : BOOLEAN, throttles : SUBSET Nat, ended : Int,
                 cut : BOOLEAN]

(* The interval's sample is still to come. *)
Unsampled == clock.due \/ tick.pc = "usage"

(* The samples are in order, and so are the ends of throttles: what is sampled
   next comes after both. *)
InOrder ==
    /\ Sorted(samples)
    /\ \A i \in 1..Len(samples) :
          samples[i].at <= clock.now /\ (Unsampled => samples[i].at < clock.now)
    /\ clock.due => tick.pc = "idle"
Past(t) == t <= clock.now /\ (Unsampled => t < clock.now)
EndsPast ==
    /\ Past(seen.ended)
    /\ Throttled(row) => Past(row.throttle.at)

(* A stop is cleared before the next start, and its throttle before its
   samples. *)
ClearOfStop ==
    /\ clear.pc # "none" => row.state = "stopped"
    /\ start.pc = "read" => row.state = "starting"
    /\ clear.pc = "samples" => clear.at = seen.ended /\ ~Throttled(row)

(* A row that the tick read without a throttle has none until the tick decides. *)
ReadUnthrottled ==
    /\ tick.pc \in {"rows", "judged"} /\ tick.throttle = NoThrottle
          => ~Throttled(row) /\ clear.pc # "samples"
    /\ tick.pc = "judged" /\ tick.throttles => tick.throttle = NoThrottle

(* No sample is from before the last end of a throttle, nor is the anchor of
   the throttle that is judged due. *)
SamplesFresh ==
    seen.cut \/ clear.pc = "samples" \/ \A i \in 1..Len(samples) : samples[i].at > seen.ended
AnchorFresh ==
    tick.pc = "judged" /\ tick.throttles => seen.cut \/ tick.anchor > seen.ended

(* A tick that nothing disturbs judges the flag by the run that it saw. *)
JudgesThisRun ==
    tick.clean =>
        /\ tick.pc = "rows" => Len(samples) > 0 /\ samples[Len(samples)].boot = tick.boot
        /\ tick.pc = "judged" /\ tick.flag /\ RestartsShow => OfThisRun

SampleInv == /\ RestTypes /\ InOrder /\ EndsPast /\ ClearOfStop /\ ReadUnthrottled
             /\ SamplesFresh /\ AnchorFresh /\ JudgesThisRun

-----------------------------------------------------------------------------
(* Samples that are among those there were, in the same order. *)
Fewer == /\ samples' \in Seq(SampleRecs) /\ Sorted(samples')
         /\ \A i \in 1..Len(samples') : \E j \in 1..Len(samples) : samples'[i] = samples[j]

LEMMA StillSamples ==
    ASSUME RestTypes, InOrder,
           \/ samples' = samples \/ samples' = <<>>
           \/ \E t \in Int : samples' = SamplesAfter(t)
    PROVE  \E k \in 0..Len(samples) : IsRest(samples', samples, k)
<1>t. samples \in Seq(SampleRecs) /\ Sorted(samples) /\ Len(samples) \in Nat
  BY DEF RestTypes, InOrder
<1>1. CASE samples' = samples
  <2>1. 0 \in 0..Len(samples) /\ IsRest(samples', samples, 0)
    BY <1>t, <1>1 DEF IsRest
  <2> QED
    BY <2>1
<1>2. CASE samples' = <<>>
  <2>1. Len(samples) \in 0..Len(samples) /\ IsRest(samples', samples, Len(samples))
    BY <1>t, <1>2 DEF IsRest
  <2> QED
    BY <2>1
<1>3. CASE \E t \in Int : samples' = SamplesAfter(t)
  BY <1>t, <1>3, SamplesAfterIs
<1> QED
  BY <1>1, <1>2, <1>3

LEMMA RestIsFewer ==
    ASSUME RestTypes, InOrder, \E k \in 0..Len(samples) : IsRest(samples', samples, k)
    PROVE  Fewer
<1>1. PICK k \in 0..Len(samples) : IsRest(samples', samples, k)
  OBVIOUS
<1>2. /\ Len(samples) \in Nat /\ Len(samples') \in Nat /\ samples' \in Seq(SampleRecs)
      /\ Sorted(samples)
  BY <1>1 DEF IsRest, RestTypes, InOrder
<1>3. ASSUME NEW i \in 1..Len(samples'), NEW j \in 1..Len(samples'), i < j
      PROVE  samples'[i].at < samples'[j].at
  <2>1. /\ i + k \in 1..Len(samples) /\ j + k \in 1..Len(samples) /\ i + k < j + k
        /\ samples'[i] = samples[i + k] /\ samples'[j] = samples[j + k]
    BY <1>1, <1>2, <1>3 DEF IsRest
  <2> QED
    BY <1>2, <2>1 DEF Sorted
<1>4. \A i \in 1..Len(samples') : \E j \in 1..Len(samples) : samples'[i] = samples[j]
  BY <1>1, <1>2 DEF IsRest
<1> QED
  BY <1>2, <1>3, <1>4 DEF Fewer, Sorted

(* The numbers that are compared. *)
LEMMA TimesAreNumbers ==
    ASSUME RestTypes, row \in GuardRows
    PROVE  /\ seen.ended \in Int /\ row.throttle.at \in Nat
           /\ Len(samples) \in Nat
           /\ \A i \in 1..Len(samples) : samples[i].at \in Nat
<1>1. \A i \in 1..Len(samples) : samples[i] \in SampleRecs
  BY DEF RestTypes
<1>2. row.throttle \in ThrottleRecs
  BY DEF GuardRows, ThrottleRecs
<1>3. \A i \in 1..Len(samples) : samples[i].at \in Nat
  BY <1>1 DEF SampleRecs
<1>4. row.throttle.at \in Nat
  BY <1>2 DEF ThrottleRecs
<1>5. seen.ended \in Int /\ Len(samples) \in Nat
  BY DEF RestTypes
<1> QED
  BY <1>3, <1>4, <1>5

(* What Disturbed leaves of the tick. *)
LEMMA DisturbedTick ==
    ASSUME tick \in TickRecs, Disturbed
    PROVE  /\ tick' \in TickRecs
           /\ tick'.pc = tick.pc /\ tick'.throttle = tick.throttle
           /\ tick'.throttles = tick.throttles /\ tick'.anchor = tick.anchor
           /\ tick'.clean => tick'.pc = "idle"
BY DEF Disturbed, TickRecs

LEMMA IdleTick ==
    Idle \in TickRecs /\ Idle.pc = "idle"
BY DEF Idle, NoMarker, NoThrottle, TickRecs, ThrottleRecs

(* Steps between ticks, or that end the tick or begin it. *)
LEMMA TickEnds ==
    ASSUME SampleInv, RestTypes', Fewer, row' = row,
           clock.now \in Nat, clock'.now \in Nat, row \in GuardRows,
           tick'.pc \in {"idle", "usage"},
           \/ clock'.now = clock.now /\ (Unsampled' => Unsampled)
           \/ clock'.now = clock.now + 1,
           clock'.due => tick'.pc = "idle",
           seen'.ended = seen.ended,
           \/ clear' = clear /\ start' = start /\ seen'.cut = seen.cut
           \/ /\ clear'.pc = "none" /\ start'.pc = "none"
              /\ seen.cut \/ clear.pc = "samples" => seen'.cut
    PROVE  SampleInv'
<1>t. /\ seen.ended \in Int /\ row.throttle.at \in Nat
      /\ \A i \in 1..Len(samples) : samples[i].at \in Nat
  BY TimesAreNumbers DEF SampleInv
<1>1. InOrder'
  <2>1. ASSUME NEW i \in 1..Len(samples')
        PROVE  samples'[i].at <= clock'.now /\ (Unsampled' => samples'[i].at < clock'.now)
    <3>1. PICK j \in 1..Len(samples) : samples'[i] = samples[j]
      BY DEF Fewer
    <3>2. /\ samples[j].at \in Nat /\ samples[j].at <= clock.now
          /\ Unsampled => samples[j].at < clock.now
      BY <1>t DEF SampleInv, InOrder
    <3> QED
      BY <3>1, <3>2
  <2> QED
    BY <2>1 DEF InOrder, Fewer
<1>2. EndsPast'
  BY <1>t DEF SampleInv, EndsPast, Past, Unsampled
<1>3. ClearOfStop'
  BY DEF SampleInv, ClearOfStop
<1>4. ReadUnthrottled' /\ AnchorFresh' /\ JudgesThisRun'
  BY DEF ReadUnthrottled, AnchorFresh, JudgesThisRun
<1>5. SamplesFresh'
  <2>1. (\A i \in 1..Len(samples) : samples[i].at > seen.ended)
          => \A i \in 1..Len(samples') : samples'[i].at > seen'.ended
    BY <1>t DEF Fewer
  <2> QED
    BY <2>1 DEF SampleInv, SamplesFresh
<1> QED
  BY <1>1, <1>2, <1>3, <1>4, <1>5 DEF SampleInv

(* Steps beside a tick, which they disturb; none of them brings a throttle. *)
LEMMA TickIsDisturbed ==
    ASSUME SampleInv, RestTypes', Fewer, Disturbed, UNCHANGED <<world, clock>>,
           row \in GuardRows, clock.now \in Nat, ClearOfStop',
           seen'.cut = seen.cut,
           Throttled(row)' =>
              Throttled(row) /\ row'.throttle.at = row.throttle.at,
           \/ seen'.ended = seen.ended /\ (clear'.pc = "samples" <=> clear.pc = "samples")
           \/ /\ Throttled(row) /\ seen'.ended = row.throttle.at
              /\ clear'.pc = "samples" \/ samples' = <<>>
           \/ /\ seen'.ended = seen.ended /\ clear'.pc # "samples"
              /\ \A i \in 1..Len(samples') : samples'[i].at > seen.ended
    PROVE  SampleInv'
<1>t. /\ seen.ended \in Int /\ row.throttle.at \in Nat /\ tick \in TickRecs
      /\ \A i \in 1..Len(samples) : samples[i].at \in Nat
  BY TimesAreNumbers DEF SampleInv, RestTypes
<1>d. /\ tick'.pc = tick.pc /\ tick'.throttle = tick.throttle
      /\ tick'.throttles = tick.throttles /\ tick'.anchor = tick.anchor
      /\ tick'.clean => tick'.pc = "idle"
  BY <1>t, DisturbedTick
<1>1. InOrder'
  BY <1>t, <1>d DEF SampleInv, InOrder, Fewer, Unsampled
<1>2. EndsPast'
  BY <1>t, <1>d DEF SampleInv, EndsPast, Past, Unsampled
<1>3. ReadUnthrottled' /\ JudgesThisRun'
  BY <1>d DEF SampleInv, ReadUnthrottled, JudgesThisRun
<1>4. AnchorFresh'
  BY <1>d DEF SampleInv, AnchorFresh, ReadUnthrottled
<1>5. SamplesFresh'
  BY <1>t DEF SampleInv, SamplesFresh, Fewer
<1> QED
  BY <1>1, <1>2, <1>3, <1>4, <1>5 DEF SampleInv

-----------------------------------------------------------------------------
LEMMA GuardNumbers ==
    ASSUME world \in Worlds
    PROVE  /\ Window \in Nat /\ LiftWindow \in Nat /\ Retention \in Nat
           /\ Memories \subseteq Int /\ world.markers \subseteq Int
           /\ Markers \subseteq Int /\ FirstMarker \in Markers
<1>1. /\ world.window \in Nat /\ world.liftWindow \in Nat /\ world.retention \in Nat
      /\ world.memories \subseteq 0..100 /\ world.markers \subseteq Nat
      /\ \E m \in world.markers : m # 0
  BY WorldsAssumption DEF Numbers
<1> QED
  BY <1>1 DEF Window, LiftWindow, Retention, Memories, Markers, NoMarker, FirstMarker

(* Only recordSample adds a sample. *)
TakesNoSample ==
    \/ work \/ reboot \/ minute \/ readUsage \/ usageReadFails
    \/ (recordSample /\ row.state # "running")
    \/ judge \/ decide \/ syncAllowance \/ syncFails
    \/ beginStop \/ instanceStops \/ stopRecorded
    \/ clearGuardAtStop \/ clearSamples \/ beginStart
    \/ startInstance \/ liftThrottle \/ clearMemoryFlag
    \/ setLimits \/ workerCrash \/ UNCHANGED guardVars

LEMMA OnlyRest ==
    ASSUME GuardTypes, RestTypes, InOrder, TakesNoSample
    PROVE  \E k \in 0..Len(samples) : IsRest(samples', samples, k)
<1>t. /\ clock \in [now : Nat, due : BOOLEAN] /\ Retention \in Nat
      /\ tick.throttle.at \in Int /\ clear.at \in Int
  <2>1. tick.throttle \in ThrottleRecs /\ clear.at \in Nat
    BY DEF RestTypes, TickRecs
  <2>2. tick.throttle.at \in Nat
    BY <2>1 DEF ThrottleRecs
  <2>3. Retention \in Nat /\ clock \in [now : Nat, due : BOOLEAN]
    BY GuardNumbers DEF GuardTypes
  <2> QED
    BY <2>1, <2>2, <2>3
<1>1. CASE \/ work \/ reboot \/ minute \/ usageReadFails \/ judge
           \/ beginStop \/ instanceStops \/ stopRecorded
           \/ clearGuardAtStop \/ beginStart \/ startInstance
           \/ setLimits \/ workerCrash \/ UNCHANGED guardVars
  <2>1. samples' = samples
    BY <1>1 DEF guardVars, work, reboot, minute, usageReadFails, judge, beginStop,
       instanceStops, stopRecorded, clearGuardAtStop, beginStart, startInstance, setLimits,
       workerCrash
  <2> QED
    BY <2>1, StillSamples
<1>2. CASE liftThrottle \/ clearMemoryFlag
  <2>1. samples' = <<>>
    BY <1>2 DEF liftThrottle, clearMemoryFlag
  <2> QED
    BY <2>1, StillSamples
<1>3. CASE \/ readUsage \/ (recordSample /\ row.state # "running")
           \/ syncAllowance \/ syncFails
  <2>1. samples' = samples \/ samples' = Pruned
    BY <1>3 DEF readUsage, recordSample, syncAllowance, syncFails
  <2>2. clock.now - Retention - 1 \in Int
    BY <1>t
  <2>3. samples' = samples \/ \E t \in Int : samples' = SamplesAfter(t)
    BY <2>1, <2>2, Zenon DEF Pruned
  <2> QED
    BY <2>3, StillSamples
<1>4. CASE clearSamples
  <2>1. samples' = SamplesAfter(clear.at)
    BY <1>4 DEF clearSamples, FreshStart
  <2>2. \E t \in Int : samples' = SamplesAfter(t)
    BY <1>t, <2>1, Zenon
  <2> QED
    BY <2>2, StillSamples
<1>5. CASE decide
  <2>1. samples' = samples \/ samples' = SamplesAfter(tick.throttle.at)
    BY <1>5 DEF decide
  <2>2. samples' = samples \/ \E t \in Int : samples' = SamplesAfter(t)
    BY <1>t, <2>1, Zenon
  <2> QED
    BY <2>2, StillSamples
<1> QED
  BY <1>1, <1>2, <1>3, <1>4, <1>5, Zenon DEF TakesNoSample

LEMMA OnlyFewer ==
    ASSUME GuardTypes, RestTypes, InOrder, TakesNoSample
    PROVE  Fewer
BY OnlyRest, RestIsFewer

(* The sample that is added. *)
LEMMA Recorded ==
    ASSUME GuardTypes, RestTypes, recordSample, row.state = "running"
    PROVE  \E r \in SampleRecs :
              /\ r.at = clock.now /\ r.boot = tick.boot
              /\ samples' = Append(samples, r)
              /\ tick' = [tick EXCEPT !.pc = "rows", !.throttle = row.throttle,
                                      !.flag = row.flag]
              /\ seen' = [seen EXCEPT !.skipped = FALSE]
              /\ UNCHANGED <<world, clock, row, inst, clear, start, faults>>
              /\ tick.pc = "usage"
<1>1. PICK r : r = [at |-> clock.now, ns |-> tick.ns, marker |-> tick.marker, mem |-> tick.mem,
                    boot |-> tick.boot, total |-> tick.total, late |-> seen.skipped]
  OBVIOUS
<1>2. r \in SampleRecs /\ r.at = clock.now /\ r.boot = tick.boot
  BY <1>1 DEF GuardTypes, RestTypes, TickRecs, SampleRecs
<1>3. /\ samples' = Append(samples, r)
      /\ tick' = [tick EXCEPT !.pc = "rows", !.throttle = row.throttle,
                              !.flag = row.flag]
      /\ seen' = [seen EXCEPT !.skipped = FALSE]
      /\ UNCHANGED <<world, clock, row, inst, clear, start, faults>>
      /\ tick.pc = "usage"
  BY <1>1 DEF recordSample
<1> QED
  BY <1>2, <1>3

SeenRecs == [total : Int, skipped : BOOLEAN, throttles : SUBSET Nat, ended : Int, cut : BOOLEAN]

(* What the steps make of the tick, of the instance and of the history. *)
LEMMA TickRead ==
    ASSUME NEW a \in Int, NEW b \in Int, NEW c \in Int, NEW d \in Int, NEW e \in Int,
           NEW k \in Int
    PROVE  [Idle EXCEPT !.pc = "usage", !.allowance = a, !.ns = b, !.boot = c, !.marker = k,
                        !.mem = d, !.total = e] \in TickRecs
<1>1. PICK t \in TickRecs : t = Idle
  BY IdleTick
<1>2. [t EXCEPT !.pc = "usage", !.allowance = a, !.ns = b, !.boot = c, !.marker = k,
                !.mem = d, !.total = e] \in TickRecs
  BY DEF TickRecs
<1> QED
  BY ONLY <1>1, <1>2

LEMMA TickWithRow ==
    ASSUME tick \in TickRecs, NEW th \in ThrottleRecs, NEW f \in BOOLEAN
    PROVE  [tick EXCEPT !.pc = "rows", !.throttle = th, !.flag = f] \in TickRecs
BY DEF TickRecs

LEMMA TickJudged ==
    ASSUME tick \in TickRecs, NEW l \in BOOLEAN, NEW h \in BOOLEAN, NEW a \in Int,
           NEW f \in BOOLEAN
    PROVE  [tick EXCEPT !.pc = "judged", !.lifts = l, !.throttles = h, !.anchor = a, !.flag = f]
             \in TickRecs
BY DEF TickRecs

LEMMA TickDecided ==
    ASSUME tick \in TickRecs, NEW th \in ThrottleRecs
    PROVE  [tick EXCEPT !.pc = "sync", !.throttle = th] \in TickRecs
BY DEF TickRecs

LEMMA InstBecomes ==
    ASSUME inst \in InstRecs, NEW a \in Int, NEW b \in Int, NEW c \in Int, NEW k \in Int
    PROVE  /\ [inst EXCEPT !.ns = a, !.used = b] \in InstRecs
           /\ [inst EXCEPT !.ns = 0, !.boot = c, !.marker = k] \in InstRecs
           /\ [inst EXCEPT !.used = 0] \in InstRecs
           /\ [inst EXCEPT !.allowance = a] \in InstRecs
           /\ [inst EXCEPT !.on = FALSE] \in InstRecs
           /\ [inst EXCEPT !.on = TRUE, !.ns = 0, !.boot = c, !.marker = k, !.allowance = a]
                \in InstRecs
<1>1. \A i \in InstRecs : \A x \in Int : [i EXCEPT !.ns = x] \in InstRecs
  BY DEF InstRecs
<1>2. \A i \in InstRecs : \A x \in Int : [i EXCEPT !.used = x] \in InstRecs
  BY DEF InstRecs
<1>3. \A i \in InstRecs : \A x \in Int : [i EXCEPT !.boot = x] \in InstRecs
  BY DEF InstRecs
<1>4. \A i \in InstRecs : \A x \in Int : [i EXCEPT !.allowance = x] \in InstRecs
  BY DEF InstRecs
<1>5. \A i \in InstRecs : \A x \in BOOLEAN : [i EXCEPT !.on = x] \in InstRecs
  BY DEF InstRecs
<1>6. 0 \in Int /\ TRUE \in BOOLEAN /\ FALSE \in BOOLEAN
  OBVIOUS
<1>7. \A i \in InstRecs : \A x \in Int : [i EXCEPT !.marker = x] \in InstRecs
  BY DEF InstRecs
<1> QED
  BY <1>1, <1>2, <1>3, <1>4, <1>5, <1>6, <1>7, Zenon

LEMMA TickTyped ==
    ASSUME GuardTypes, RestTypes, [GuardNext]_guardVars
    PROVE  tick' \in TickRecs
<1>t. /\ tick \in TickRecs /\ row \in GuardRows /\ clock \in [now : Nat, due : BOOLEAN]
      /\ row.throttle \in ThrottleRecs /\ row.flag \in BOOLEAN
      /\ inst \in [on : BOOLEAN, ns : Int, boot : Int, marker : Int, allowance : Int,
                  used : Int]
      /\ seen.total \in Int
  BY DEF GuardTypes, RestTypes, GuardRows, ThrottleRecs
<1>1. CASE \/ work \/ reboot \/ minute \/ usageReadFails
           \/ UNCHANGED guardVars
  BY <1>t, <1>1 DEF work, reboot, minute, usageReadFails, guardVars
<1>2. CASE readUsage
  <2>1. PICK m \in Int, k \in Int :
          \/ tick' = Idle
          \/ tick' = [Idle EXCEPT !.pc = "usage", !.allowance = inst.allowance,
                                  !.ns = inst.ns, !.boot = inst.boot, !.marker = k,
                                  !.mem = m, !.total = seen.total]
    <3>1. /\ \A m \in Memories : m \in Int
          /\ \A k \in {inst.marker} \cup (world.markers \ Markers) : k \in Int
      BY <1>t, GuardNumbers DEF GuardTypes, InstRecs
    <3>2. \/ tick' = Idle
          \/ \E m \in Memories, k \in {inst.marker} \cup (world.markers \ Markers) :
               tick' = [Idle EXCEPT !.pc = "usage", !.allowance = inst.allowance,
                                    !.ns = inst.ns, !.boot = inst.boot, !.marker = k,
                                    !.mem = m, !.total = seen.total]
      BY <1>2, Zenon DEF readUsage
    <3>3. 0 \in Int
      OBVIOUS
    <3> QED
      BY <3>1, <3>2, <3>3, Zenon
  <2>2. inst.allowance \in Int /\ inst.ns \in Int /\ inst.boot \in Int
    BY <1>t DEF InstRecs
  <2>3. seen.total \in Int
    BY <1>t
  <2> QED
    <3>1. CASE tick' = Idle
      BY <3>1, IdleTick
    <3>2. CASE tick' # Idle
      <4>1. [Idle EXCEPT !.pc = "usage", !.allowance = inst.allowance, !.ns = inst.ns,
                               !.boot = inst.boot, !.marker = k, !.mem = m,
                               !.total = seen.total] \in TickRecs
        BY <2>2, <2>3, TickRead
      <4> QED
        BY ONLY <2>1, <3>2, <4>1
    <3> QED
      BY <3>1, <3>2
<1>3. CASE recordSample
  <2>1. \/ tick' = Idle
        \/ tick' = [tick EXCEPT !.pc = "rows", !.throttle = row.throttle,
                                !.flag = row.flag]
    BY <1>3 DEF recordSample
  <2> QED
    <3>1. [tick EXCEPT !.pc = "rows", !.throttle = row.throttle, !.flag = row.flag]
            \in TickRecs
      BY <1>t, TickWithRow
    <3> QED
      BY ONLY <2>1, <3>1, IdleTick
<1>4. CASE judge
  <2> DEFINE was == tick.throttle # NoThrottle
             due == ~was /\ ThrottleDue
             i == Anchor(-1, clock.now - Window)
  <2>1. PICK l \in BOOLEAN, th \in BOOLEAN, f \in BOOLEAN :
          /\ l = (was /\ LiftDue) /\ th = due
          /\ f = (~tick.flag /\ MemoryHigh)
    OBVIOUS
  <2>2. PICK a : a = IF due THEN samples[i].at ELSE 0
    OBVIOUS
  <2>3. a \in Int
    <3>1. CASE due
      <4>1. i # 0
        BY <3>1 DEF ThrottleDue
      <4>2. i \in 1..Len(samples)
        <5>1. -1 \in Int /\ clock.now - Window \in Int
          BY <1>t, GuardNumbers DEF GuardTypes
        <5>2. samples \in Seq(SampleRecs)
          BY DEF RestTypes
        <5> QED
          BY <4>1, <5>1, <5>2, AnchorIs
      <4>3. samples[i] \in SampleRecs
        BY <4>2 DEF RestTypes
      <4> QED
        BY <2>2, <3>1, <4>3 DEF SampleRecs
    <3> QED
      BY <2>2, <3>1
  <2>4. tick' = [tick EXCEPT !.pc = "judged", !.lifts = l, !.throttles = th, !.anchor = a,
                             !.flag = f]
    BY <1>4, <2>1, <2>2 DEF judge
  <2> QED
    BY <1>t, <2>1, <2>3, <2>4, TickJudged, Zenon
<1>5. CASE decide
  <2>1. PICK h \in BOOLEAN : h = Holds
    BY DEF Holds
  <2>2. PICK new : new = [at |-> clock.now, held |-> h, allow |-> 1]
    OBVIOUS
  <2>3. new \in ThrottleRecs /\ NoThrottle \in ThrottleRecs
        /\ tick.throttle \in ThrottleRecs
    BY <1>t, <2>2 DEF ThrottleRecs, NoThrottle, TickRecs
  <2>4. \E th \in {new, NoThrottle, tick.throttle} :
          tick' = [tick EXCEPT !.pc = "sync", !.throttle = th]
    BY <1>5, <2>1, <2>2, Zenon DEF decide, Remaining
  <2> QED
    <3>1. \A th \in ThrottleRecs : [tick EXCEPT !.pc = "sync", !.throttle = th] \in TickRecs
      BY <1>t, TickDecided
    <3>2. PICK th \in {new, NoThrottle, tick.throttle} :
            tick' = [tick EXCEPT !.pc = "sync", !.throttle = th]
      BY <2>4
    <3>3. th \in ThrottleRecs
      BY <2>3
    <3> QED
      BY <3>1, <3>2, <3>3, Zenon
<1>6. CASE syncAllowance \/ syncFails \/ workerCrash
  BY <1>6, IdleTick DEF syncAllowance, syncFails, workerCrash
<1>7. CASE \/ beginStop \/ instanceStops \/ stopRecorded
           \/ clearGuardAtStop \/ clearSamples \/ beginStart
           \/ startInstance \/ liftThrottle \/ clearMemoryFlag
           \/ setLimits
  <2>1. Disturbed
    BY <1>7 DEF beginStop, instanceStops, stopRecorded, clearGuardAtStop, clearSamples,
       beginStart, startInstance, liftThrottle, clearMemoryFlag, setLimits, Asks
  <2> QED
    BY <1>t, <2>1, DisturbedTick
<1> QED
  BY <1>1, <1>2, <1>3, <1>4, <1>5, <1>6, <1>7 DEF GuardNext

LEMMA RestTyped ==
    ASSUME GuardTypes, RestTypes, InOrder, [GuardNext]_guardVars
    PROVE  RestTypes'
<1>t. /\ tick \in TickRecs /\ row \in GuardRows /\ clock.now \in Nat
      /\ row.throttle \in ThrottleRecs /\ tick.throttle \in ThrottleRecs
      /\ row.throttle.at \in Nat /\ row.throttle.allow \in Int
      /\ tick.throttle.at \in Nat /\ tick.throttle.allow \in Int
      /\ inst \in [on : BOOLEAN, ns : Int, boot : Int, marker : Int, allowance : Int,
                  used : Int]
      /\ inst.ns \in Int /\ inst.boot \in Int /\ inst.used \in Int /\ inst.allowance \in Int
      /\ clear \in [pc : {"none", "row", "samples"}, at : Nat]
      /\ start \in [pc : {"none", "read"}, allow : Int] /\ start.allow \in Int
      /\ seen \in [total : Int, skipped : BOOLEAN, throttles : SUBSET Nat, ended : Int,
                   cut : BOOLEAN]
  BY DEF GuardTypes, RestTypes, GuardRows, TickRecs, ThrottleRecs, InstRecs
<1>i. inst \in InstRecs /\ tick.throttle.allow \in Int /\ inst.allowance \in Int
      /\ start.allow \in Int /\ seen \in SeenRecs
  BY <1>t DEF InstRecs, SeenRecs
<1>1. samples' \in Seq(SampleRecs)
  <2>1. CASE TakesNoSample
    BY <2>1, OnlyFewer DEF Fewer
  <2>2. CASE recordSample /\ row.state = "running"
    <3>1. PICK r \in SampleRecs : samples' = Append(samples, r)
      BY <2>2, Recorded
    <3> QED
      BY <3>1 DEF RestTypes
  <2>3. TakesNoSample \/ (recordSample /\ row.state = "running")
    BY Zenon DEF GuardNext, TakesNoSample
  <2> QED
    BY <2>1, <2>2, <2>3
<1>2. inst' \in InstRecs
  <2>1. CASE \/ readUsage \/ usageReadFails \/ recordSample \/ judge
             \/ decide \/ syncFails \/ beginStop \/ stopRecorded
             \/ clearGuardAtStop \/ clearSamples \/ beginStart
             \/ liftThrottle \/ clearMemoryFlag \/ setLimits
             \/ workerCrash \/ UNCHANGED guardVars
    BY <1>i, <2>1 DEF readUsage, usageReadFails, recordSample, judge, decide, syncFails,
       beginStop, stopRecorded, clearGuardAtStop, clearSamples, beginStart, liftThrottle,
       clearMemoryFlag, setLimits, workerCrash, guardVars
  <2>2. CASE \/ work \/ reboot \/ minute \/ syncAllowance
             \/ instanceStops \/ startInstance
    <3>1. \/ inst' = [inst EXCEPT !.ns = inst.ns + 1, !.used = inst.used + 1]
          \/ \E k \in Markers :
               \/ inst' = [inst EXCEPT !.ns = 0, !.boot = inst.boot + 1, !.marker = k]
               \/ inst' = [inst EXCEPT !.on = TRUE, !.ns = 0, !.boot = inst.boot + 1,
                                       !.marker = k, !.allowance = start.allow]
          \/ inst' = [inst EXCEPT !.used = 0]
          \/ inst' = [inst EXCEPT !.allowance = inst.allowance]
          \/ inst' = [inst EXCEPT !.allowance = tick.throttle.allow]
          \/ inst' = [inst EXCEPT !.on = FALSE]
      BY <2>2 DEF work, reboot, minute, syncAllowance, Wanted, instanceStops, startInstance
    <3>2. inst.ns + 1 \in Int /\ inst.used + 1 \in Int /\ inst.boot + 1 \in Int
      BY <1>t
    <3>3. PICK a \in Int, b \in Int, c \in Int :
            a = inst.ns + 1 /\ b = inst.used + 1 /\ c = inst.boot + 1
      BY <3>2
    <3>4. /\ [inst EXCEPT !.ns = a, !.used = b] \in InstRecs
          /\ \A k \in Int :
               /\ [inst EXCEPT !.ns = 0, !.boot = c, !.marker = k] \in InstRecs
               /\ [inst EXCEPT !.on = TRUE, !.ns = 0, !.boot = c, !.marker = k,
                              !.allowance = start.allow] \in InstRecs
          /\ [inst EXCEPT !.used = 0] \in InstRecs
          /\ [inst EXCEPT !.allowance = inst.allowance] \in InstRecs
          /\ [inst EXCEPT !.allowance = tick.throttle.allow] \in InstRecs
          /\ [inst EXCEPT !.on = FALSE] \in InstRecs
      BY <1>i, InstBecomes, Zenon
    <3>5. \A k \in Markers : k \in Int
      BY GuardNumbers DEF GuardTypes
    <3>6. CASE \E k \in Markers :
                 \/ inst' = [inst EXCEPT !.ns = 0, !.boot = inst.boot + 1, !.marker = k]
                 \/ inst' = [inst EXCEPT !.on = TRUE, !.ns = 0, !.boot = inst.boot + 1,
                                         !.marker = k, !.allowance = start.allow]
      <4>1. PICK k \in Int :
              \/ inst' = [inst EXCEPT !.ns = 0, !.boot = c, !.marker = k]
              \/ inst' = [inst EXCEPT !.on = TRUE, !.ns = 0, !.boot = c, !.marker = k,
                                      !.allowance = start.allow]
        BY <3>3, <3>5, <3>6, Zenon
      <4> QED
        BY <3>4, <4>1, Zenon
    <3> QED
      BY ONLY <3>1, <3>3, <3>4, <3>6
  <2> QED
    BY <2>1, <2>2 DEF GuardNext
<1>3. clear' \in [pc : {"none", "row", "samples"}, at : Nat]
  <2>1. \/ clear' = clear
        \/ \E p \in {"none", "row"} : clear' = [pc |-> p, at |-> 0]
        \/ clear' = [pc |-> "samples", at |-> row.throttle.at]
    BY DEF GuardNext, guardVars, work, reboot, minute, readUsage, usageReadFails, recordSample,
       judge, decide, syncAllowance, syncFails, beginStop, instanceStops, stopRecorded,
       clearGuardAtStop, clearSamples, beginStart, startInstance, liftThrottle, clearMemoryFlag,
       setLimits, workerCrash
  <2> QED
    BY ONLY <1>t, <2>1
<1>4. start' \in [pc : {"none", "read"}, allow : Int]
  <2>1. \/ start' = start \/ start' = [pc |-> "none", allow |-> 0]
        \/ start' = [pc |-> "read", allow |-> heldAllowance]
    BY DEF GuardNext, guardVars, work, reboot, minute, readUsage, usageReadFails, recordSample,
       judge, decide, syncAllowance, syncFails, beginStop, instanceStops, stopRecorded,
       clearGuardAtStop, clearSamples, beginStart, startInstance, liftThrottle, clearMemoryFlag,
       setLimits, workerCrash
  <2>2. heldAllowance \in Int
    BY <1>t DEF heldAllowance
  <2> QED
    BY ONLY <1>t, <2>1, <2>2
<1>5. seen' \in SeenRecs
  <2>f. /\ seen.total + 1 \in Int /\ seen.ended \in Int
        /\ seen.throttles \in SUBSET Nat /\ seen.throttles \cup {clock.now} \in SUBSET Nat
    BY <1>t
  <2>1. CASE \/ work \/ reboot \/ minute \/ readUsage
             \/ judge \/ syncAllowance \/ syncFails \/ beginStop
             \/ instanceStops \/ stopRecorded \/ clearSamples
             \/ beginStart \/ startInstance \/ clearMemoryFlag
             \/ setLimits \/ UNCHANGED guardVars
    <3>1. seen' = seen \/ seen' = [seen EXCEPT !.total = seen.total + 1]
      BY <2>1 DEF guardVars, work, reboot, minute, readUsage, judge, syncAllowance, syncFails,
         beginStop, instanceStops, stopRecorded, clearSamples, beginStart, startInstance,
         clearMemoryFlag, setLimits
    <3>2. PICK n \in Int : n = seen.total + 1
      BY <2>f
    <3>3. [seen EXCEPT !.total = n] \in SeenRecs
      BY ONLY <1>i DEF SeenRecs
    <3> QED
      BY ONLY <1>i, <3>1, <3>2, <3>3
  <2>2. CASE usageReadFails \/ recordSample \/ workerCrash
    <3>1. PICK s \in BOOLEAN, c \in BOOLEAN :
            seen' = [seen EXCEPT !.skipped = s, !.cut = c]
      <4>1. PICK k \in BOOLEAN, o \in BOOLEAN, u \in BOOLEAN, d \in BOOLEAN :
              /\ k = (seen.skipped \/ inst.on) /\ o = (seen.skipped \/ tick.pc = "usage")
              /\ u = seen.cut /\ d = (seen.cut \/ clear.pc = "samples")
        BY <1>t
      <4>2. \/ seen' = [seen EXCEPT !.skipped = k] \/ seen' = [seen EXCEPT !.skipped = TRUE]
            \/ seen' = [seen EXCEPT !.skipped = FALSE]
            \/ seen' = [seen EXCEPT !.skipped = o, !.cut = d]
        BY <2>2, <4>1 DEF usageReadFails, recordSample, workerCrash
      <4>3. \A s \in BOOLEAN : [seen EXCEPT !.skipped = s] = [seen EXCEPT !.skipped = s, !.cut = u]
        BY <1>t, <4>1
      <4> QED
        BY ONLY <4>2, <4>3, <4>1
    <3>2. [seen EXCEPT !.skipped = s, !.cut = c] \in SeenRecs
      BY ONLY <1>i DEF SeenRecs
    <3> QED
      BY ONLY <3>1, <3>2
  <2>3. CASE decide \/ clearGuardAtStop \/ liftThrottle
    <3>1. PICK e \in {seen.ended, row.throttle.at, tick.throttle.at},
               h \in {seen.throttles, seen.throttles \cup {clock.now}} :
            seen' = [seen EXCEPT !.ended = e, !.throttles = h]
      <4>1. CASE decide
        BY <4>1, Zenon DEF decide
      <4>2. CASE clearGuardAtStop \/ liftThrottle
        <5>1. \E e \in {seen.ended, row.throttle.at, tick.throttle.at} :
                seen' = [seen EXCEPT !.ended = e]
          BY <4>2, Zenon DEF clearGuardAtStop, liftThrottle
        <5>2. \A e : [seen EXCEPT !.ended = e]
                       = [seen EXCEPT !.ended = e, !.throttles = seen.throttles]
          BY <1>t
        <5> QED
          BY <5>1, <5>2
      <4> QED
        BY <2>3, <4>1, <4>2
    <3>2. e \in Int /\ h \in SUBSET Nat
      BY <1>t, <2>f
    <3>3. [seen EXCEPT !.ended = e, !.throttles = h] \in SeenRecs
      BY ONLY <1>i, <3>2 DEF SeenRecs
    <3> QED
      BY ONLY <3>1, <3>3
  <2> QED
    BY <2>1, <2>2, <2>3 DEF GuardNext
<1> QED
  BY <1>1, <1>2, <1>3, <1>4, <1>5, TickTyped DEF RestTypes, InstRecs, SeenRecs

-----------------------------------------------------------------------------
(* A tick begins or ends, or time passes. *)
LEMMA TicksKeep ==
    ASSUME GuardTypes, SampleInv,
           \/ minute \/ readUsage \/ usageReadFails
           \/ recordSample /\ row.state # "running"
           \/ syncAllowance \/ syncFails \/ workerCrash
    PROVE  SampleInv'
<1>n. [GuardNext]_guardVars /\ TakesNoSample
  BY Zenon DEF GuardNext, TakesNoSample
<1>t. /\ clock \in [now : Nat, due : BOOLEAN] /\ row \in GuardRows /\ clock.now \in Nat
      /\ RestTypes /\ InOrder /\ seen \in SeenRecs
  BY DEF GuardTypes, SampleInv, RestTypes, SeenRecs
<1>1. RestTypes' /\ Fewer
  BY <1>n, <1>t, RestTyped, OnlyFewer
<1>2. row' = row
  BY DEF minute, readUsage, usageReadFails, recordSample, syncAllowance, syncFails, workerCrash
<1>i. Idle.pc = "idle" /\ ~ ("idle" = "usage")
  BY IdleTick
<1>3. CASE minute
  <2>1. /\ clock'.now = clock.now + 1 /\ tick'.pc = "idle"
        /\ seen' = seen /\ clear' = clear /\ start' = start
    BY <1>3 DEF minute
  <2>2. clock'.now \in Nat
    BY <1>t, <2>1
  <2> QED
    BY <1>t, <1>1, <1>2, <2>1, <2>2, TickEnds
<1>4. CASE readUsage
  <2>1. /\ clock'.now = clock.now /\ ~clock'.due /\ clock.due
        /\ seen' = seen /\ clear' = clear /\ start' = start
    BY <1>t, <1>4 DEF readUsage
  <2>2. tick'.pc \in {"idle", "usage"}
    <3>1. \A a, b, c, d, e, k : [Idle EXCEPT !.pc = "usage", !.allowance = a, !.ns = b,
              !.boot = c, !.marker = k, !.mem = d, !.total = e].pc = "usage"
      BY DEF Idle
    <3>2. CASE inst.on
      <4>1. PICK m, k :
              tick' = [Idle EXCEPT !.pc = "usage", !.allowance = inst.allowance,
                          !.ns = inst.ns, !.boot = inst.boot, !.marker = k, !.mem = m,
                          !.total = seen.total]
        BY <1>4, <3>2 DEF readUsage
      <4>2. [Idle EXCEPT !.pc = "usage", !.allowance = inst.allowance, !.ns = inst.ns,
               !.boot = inst.boot, !.marker = k, !.mem = m, !.total = seen.total].pc = "usage"
        BY ONLY <3>1
      <4> QED
        BY ONLY <4>1, <4>2
    <3>3. CASE ~inst.on
      BY <1>4, <3>3, <1>i DEF readUsage
    <3> QED
      BY <3>2, <3>3
  <2> QED
    BY <1>t, <1>1, <1>2, <2>1, <2>2, TickEnds DEF Unsampled
<1>5. CASE usageReadFails
  <2>1. /\ clock'.now = clock.now /\ ~clock'.due /\ clock.due /\ tick'.pc = "idle"
        /\ seen'.ended = seen.ended /\ seen'.cut = seen.cut /\ clear' = clear /\ start' = start
    BY <1>t, <1>5 DEF usageReadFails, SeenRecs
  <2> QED
    BY <1>t, <1>1, <1>2, <2>1, TickEnds DEF Unsampled
<1>6. CASE recordSample /\ row.state # "running"
  <2>1. /\ clock' = clock /\ tick'.pc = "idle" /\ tick.pc = "usage"
        /\ seen'.ended = seen.ended /\ seen'.cut = seen.cut /\ clear' = clear /\ start' = start
    BY <1>t, <1>6, <1>i DEF recordSample, SeenRecs
  <2> QED
    BY <1>t, <1>1, <1>2, <2>1, TickEnds DEF Unsampled
<1>7. CASE syncAllowance \/ syncFails
  <2>1. /\ clock' = clock /\ tick'.pc = "idle" /\ seen' = seen /\ clear' = clear /\ start' = start
    BY <1>7, <1>i DEF syncAllowance, syncFails
  <2> QED
    BY <1>t, <1>1, <1>2, <2>1, TickEnds DEF Unsampled
<1>8. CASE workerCrash
  <2>1. /\ clock' = clock /\ tick'.pc = "idle" /\ seen'.ended = seen.ended
        /\ clear'.pc = "none" /\ start'.pc = "none"
        /\ seen.cut \/ clear.pc = "samples" => seen'.cut
    BY <1>t, <1>8, <1>i DEF workerCrash, SeenRecs
  <2> QED
    BY <1>t, <1>1, <1>2, <2>1, TickEnds DEF Unsampled
<1> QED
  BY <1>3, <1>4, <1>5, <1>6, <1>7, <1>8

(* A stop, a start, and the administrator. *)
LEMMA StopsKeep ==
    ASSUME GuardTypes, SampleInv,
           \/ beginStop \/ instanceStops \/ stopRecorded
           \/ clearGuardAtStop \/ clearSamples \/ beginStart
           \/ startInstance \/ liftThrottle \/ clearMemoryFlag
           \/ setLimits
    PROVE  SampleInv'
<1>n. [GuardNext]_guardVars /\ TakesNoSample
  BY Zenon DEF GuardNext, TakesNoSample
<1>t. /\ row \in GuardRows /\ clock.now \in Nat /\ RestTypes /\ InOrder /\ ClearOfStop
      /\ seen \in SeenRecs
      /\ clear \in [pc : {"none", "row", "samples"}, at : Nat]
      /\ start \in [pc : {"none", "read"}, allow : Int]
  BY DEF GuardTypes, SampleInv, RestTypes, SeenRecs
<1>r. \A st : /\ [row EXCEPT !.state = st].state = st
              /\ [row EXCEPT !.state = st].throttle = row.throttle
  BY <1>t DEF GuardRows
<1>1. RestTypes' /\ Fewer
  BY <1>n, <1>t, RestTyped, OnlyFewer
<1>2. Disturbed /\ UNCHANGED <<world, clock>>
  BY DEF beginStop, instanceStops, stopRecorded, clearGuardAtStop, clearSamples, beginStart,
     startInstance, liftThrottle, clearMemoryFlag, setLimits, Asks
<1>3. CASE beginStop
  <2>1. /\ row'.throttle = row.throttle /\ row'.state = "stopping"
        /\ row.state = "running"
        /\ seen' = seen /\ clear' = clear /\ start' = start
    BY <1>r, <1>3 DEF beginStop
  <2>2. ClearOfStop'
    BY <1>t, <2>1 DEF ClearOfStop
  <2> QED
    BY <1>t, <1>1, <1>2, <2>1, <2>2, TickIsDisturbed DEF Throttled
<1>4. CASE instanceStops
  <2>1. row' = row /\ seen' = seen /\ clear' = clear /\ start' = start
    BY <1>4 DEF instanceStops
  <2>2. ClearOfStop'
    BY <1>t, <2>1 DEF ClearOfStop, Throttled
  <2> QED
    BY <1>t, <1>1, <1>2, <2>1, <2>2, TickIsDisturbed DEF Throttled
<1>5. CASE stopRecorded
  <2>1. /\ row'.throttle = row.throttle /\ row'.state = "stopped"
        /\ row.state = "stopping"
        /\ seen' = seen /\ clear'.pc = "row" /\ start' = start
    BY <1>r, <1>5 DEF stopRecorded
  <2>2. ClearOfStop' /\ clear.pc # "samples"
    BY <1>t, <2>1 DEF ClearOfStop
  <2> QED
    BY <1>t, <1>1, <1>2, <2>1, <2>2, TickIsDisturbed DEF Throttled
<1>6. CASE clearGuardAtStop
  <2> DEFINE lifts == Throttled(row) /\ Clears(row)
  <2>1. /\ row' = [row EXCEPT !.flag = FALSE,
                                      !.throttle = IF lifts THEN NoThrottle ELSE @]
        /\ clear' = IF lifts THEN [pc |-> "samples", at |-> row.throttle.at]
                    ELSE [pc |-> "none", at |-> 0]
        /\ seen' = [seen EXCEPT !.ended = IF lifts THEN row.throttle.at ELSE @]
        /\ clear.pc = "row" /\ start' = start
    BY <1>6 DEF clearGuardAtStop
  <2>r. \A th : /\ [row EXCEPT !.flag = FALSE, !.throttle = th].state = row.state
                /\ [row EXCEPT !.flag = FALSE, !.throttle = th].throttle = th
    BY <1>t DEF GuardRows
  <2>s. \A e : /\ [seen EXCEPT !.ended = e].ended = e /\ [seen EXCEPT !.ended = e].cut = seen.cut
    BY <1>t DEF SeenRecs
  <2>2. CASE lifts
    <3>1. /\ row'.state = row.state /\ row'.throttle = NoThrottle
          /\ seen'.ended = row.throttle.at /\ seen'.cut = seen.cut
          /\ clear'.pc = "samples" /\ clear'.at = row.throttle.at
      BY <2>1, <2>2, <2>r, <2>s
    <3>2. ClearOfStop'
      BY <1>t, <2>1, <3>1 DEF ClearOfStop, Throttled
    <3> QED
      BY <1>t, <1>1, <1>2, <2>2, <3>1, <3>2, TickIsDisturbed DEF Throttled
  <2>3. CASE ~lifts
    <3>1. /\ row'.state = row.state /\ row'.throttle = row.throttle
          /\ seen'.ended = seen.ended /\ seen'.cut = seen.cut /\ clear'.pc = "none"
      BY <2>1, <2>3, <2>r, <2>s
    <3>2. ClearOfStop'
      BY <1>t, <2>1, <3>1 DEF ClearOfStop
    <3> QED
      BY <1>t, <1>1, <1>2, <2>1, <3>1, <3>2, TickIsDisturbed DEF Throttled
  <2> QED
    BY <2>2, <2>3
<1>7. CASE clearSamples
  <2>1. /\ row' = row /\ seen' = seen /\ clear'.pc = "none" /\ start' = start
        /\ clear.pc = "samples" /\ samples' = SamplesAfter(clear.at)
    BY <1>7 DEF clearSamples, FreshStart
  <2>2. ClearOfStop'
    BY <1>t, <2>1 DEF ClearOfStop
  <2>3. \A i \in 1..Len(samples') : samples'[i].at > seen.ended
    <3>1. clear.at \in Int /\ clear.at = seen.ended
      BY <1>t, <2>1 DEF ClearOfStop
    <3>2. samples \in Seq(SampleRecs) /\ Sorted(samples)
      BY <1>t DEF RestTypes, InOrder
    <3> QED
      BY <2>1, <3>1, <3>2, SamplesAfterIs
  <2> QED
    BY <1>t, <1>1, <1>2, <2>1, <2>2, <2>3, TickIsDisturbed DEF Throttled
<1>8. CASE beginStart
  <2>1. /\ row'.throttle = row.throttle /\ row'.state = "starting"
        /\ seen' = seen /\ clear' = clear /\ clear.pc = "none"
    BY <1>r, <1>8 DEF beginStart
  <2>2. ClearOfStop'
    BY <1>t, <2>1 DEF ClearOfStop
  <2> QED
    BY <1>t, <1>1, <1>2, <2>1, <2>2, TickIsDisturbed DEF Throttled
<1>9. CASE startInstance
  <2>1. /\ row'.throttle = row.throttle /\ row'.state = "running"
        /\ seen' = seen /\ clear' = clear /\ start.pc = "read" /\ start'.pc = "none"
    BY <1>r, <1>9 DEF startInstance
  <2>2. ClearOfStop'
    BY <1>t, <2>1 DEF ClearOfStop
  <2> QED
    BY <1>t, <1>1, <1>2, <2>1, <2>2, TickIsDisturbed DEF Throttled
<1>10. CASE liftThrottle
  <2>1. /\ row' = [row EXCEPT !.throttle = NoThrottle]
        /\ seen' = [seen EXCEPT !.ended = row.throttle.at]
        /\ clear' = clear /\ start' = start /\ samples' = <<>> /\ Throttled(row)
    BY <1>10 DEF liftThrottle
  <2>2. /\ row'.throttle = NoThrottle /\ row'.state = row.state
        /\ seen'.ended = row.throttle.at /\ seen'.cut = seen.cut
    BY <1>t, <2>1 DEF GuardRows, SeenRecs
  <2>3. ClearOfStop'
    BY <1>t, <2>1, <2>2 DEF ClearOfStop
  <2> QED
    BY <1>t, <1>1, <1>2, <2>1, <2>2, <2>3, TickIsDisturbed DEF Throttled
<1>11. CASE clearMemoryFlag
  <2>1. /\ row' = [row EXCEPT !.flag = FALSE]
        /\ seen' = seen /\ clear' = clear /\ start' = start
    BY <1>11 DEF clearMemoryFlag
  <2>2. row'.throttle = row.throttle /\ row'.state = row.state
    BY <1>t, <2>1 DEF GuardRows
  <2>3. ClearOfStop'
    BY <1>t, <2>1, <2>2 DEF ClearOfStop, Throttled
  <2> QED
    BY <1>t, <1>1, <1>2, <2>1, <2>2, <2>3, TickIsDisturbed DEF Throttled
<1>12. CASE setLimits
  <2>1. PICK x : x = [row.throttle EXCEPT !.allow = 3 - @]
    OBVIOUS
  <2>2. /\ row' = [row EXCEPT !.throttle = x] /\ Throttled(row)
        /\ seen' = seen /\ clear' = clear /\ start' = start
    BY <1>t, <1>12, <2>1 DEF setLimits, GuardRows
  <2>3. x.at = row.throttle.at
    BY <1>t, <2>1 DEF GuardRows
  <2>4. row'.throttle.at = row.throttle.at /\ row'.state = row.state
    BY <1>t, <2>2, <2>3 DEF GuardRows
  <2>5. ClearOfStop'
    BY <1>t, <2>2, <2>4 DEF ClearOfStop
  <2> QED
    BY <1>t, <1>1, <1>2, <2>2, <2>4, <2>5, TickIsDisturbed
<1> QED
  BY <1>3, <1>4, <1>5, <1>6, <1>7, <1>8, <1>9, <1>10, <1>11, <1>12

(* The tick's own steps. *)
LEMMA RecordKeeps ==
    ASSUME GuardTypes, SampleInv, recordSample,
           row.state = "running"
    PROVE  SampleInv'
<1>t. /\ row \in GuardRows /\ clock.now \in Nat /\ RestTypes /\ InOrder
      /\ samples \in Seq(SampleRecs) /\ tick \in TickRecs /\ seen \in SeenRecs
      /\ seen.ended \in Int /\ Len(samples) \in Nat
      /\ \A i \in 1..Len(samples) : samples[i].at \in Nat
  BY TimesAreNumbers DEF GuardTypes, SampleInv, RestTypes, SeenRecs
<1>1. PICK r \in SampleRecs :
        /\ r.at = clock.now /\ r.boot = tick.boot
        /\ samples' = Append(samples, r)
        /\ tick' = [tick EXCEPT !.pc = "rows", !.throttle = row.throttle,
                                !.flag = row.flag]
        /\ seen' = [seen EXCEPT !.skipped = FALSE]
        /\ UNCHANGED <<world, clock, row, inst, clear, start, faults>>
        /\ tick.pc = "usage"
  BY <1>t, Recorded
<1>2. /\ tick'.pc = "rows" /\ tick'.throttle = row.throttle /\ tick'.boot = tick.boot
      /\ seen'.ended = seen.ended /\ seen'.cut = seen.cut
  <2>1. \A th, f : /\ [tick EXCEPT !.pc = "rows", !.throttle = th, !.flag = f].pc = "rows"
                   /\ [tick EXCEPT !.pc = "rows", !.throttle = th, !.flag = f].throttle = th
                   /\ [tick EXCEPT !.pc = "rows", !.throttle = th, !.flag = f].boot = tick.boot
    BY <1>t DEF TickRecs
  <2>2. /\ tick'.pc = "rows" /\ tick'.throttle = row.throttle /\ tick'.boot = tick.boot
    BY <1>1, <2>1
  <2>3. seen'.ended = seen.ended /\ seen'.cut = seen.cut
    BY <1>t, <1>1 DEF SeenRecs
  <2> QED
    BY <2>2, <2>3
<1>3. /\ Len(samples') = Len(samples) + 1 /\ samples'[Len(samples) + 1] = r
      /\ \A i \in 1..Len(samples) : samples'[i] = samples[i]
  BY <1>t, <1>1
<1>4. /\ \A i \in 1..Len(samples) : samples[i].at < clock.now
      /\ ~clock.due /\ ~Unsampled' /\ seen.ended < clock.now /\ clear.pc = "none"
  BY <1>1, <1>2 DEF SampleInv, InOrder, EndsPast, Past, Unsampled, ClearOfStop
<1>5. RestTypes'
  <2>1. [GuardNext]_guardVars
    BY DEF GuardNext
  <2> QED
    BY <1>t, <2>1, RestTyped
<1>6. InOrder'
  <2>1. Sorted(samples')
    BY <1>t, <1>1, <1>3, <1>4 DEF InOrder, Sorted
  <2>2. \A i \in 1..Len(samples') : samples'[i].at <= clock.now
    BY <1>t, <1>1, <1>3, <1>4
  <2> QED
    BY <1>1, <1>4, <2>1, <2>2 DEF InOrder
<1>7. EndsPast' /\ ClearOfStop'
  BY <1>t, <1>1, <1>2, <1>4 DEF SampleInv, EndsPast, Past, Unsampled, ClearOfStop
<1>8. ReadUnthrottled' /\ AnchorFresh'
  BY <1>1, <1>2, <1>4 DEF ReadUnthrottled, AnchorFresh, Throttled
<1>9. SamplesFresh'
  BY <1>t, <1>1, <1>2, <1>3, <1>4 DEF SampleInv, SamplesFresh
<1>10. JudgesThisRun'
  <2>1. Len(samples') > 0 /\ samples'[Len(samples')].boot = tick'.boot
    BY <1>t, <1>1, <1>2, <1>3
  <2> QED
    BY <1>2, <2>1 DEF JudgesThisRun
<1> QED
  BY <1>5, <1>6, <1>7, <1>8, <1>9, <1>10 DEF SampleInv

LEMMA JudgeKeeps ==
    ASSUME GuardTypes, SampleInv, judge
    PROVE  SampleInv'
<1> DEFINE was == tick.throttle # NoThrottle
           due == ~was /\ ThrottleDue
           i == Anchor(-1, clock.now - Window)
           a == IF due THEN samples[i].at ELSE 0
<1>t. /\ world \in Worlds /\ clock.now \in Nat /\ RestTypes /\ InOrder
      /\ samples \in Seq(SampleRecs) /\ tick \in TickRecs
  BY DEF GuardTypes, SampleInv, RestTypes
<1>1. /\ tick' = [tick EXCEPT !.pc = "judged", !.lifts = was /\ LiftDue,
                              !.throttles = due, !.anchor = a,
                              !.flag = ~tick.flag /\ MemoryHigh]
      /\ tick.pc = "rows"
      /\ UNCHANGED <<world, clock, row, samples, inst, clear, start, faults, seen>>
  BY DEF judge
<1>2. /\ tick'.pc = "judged" /\ tick'.throttle = tick.throttle /\ tick'.boot = tick.boot
      /\ tick'.clean = tick.clean /\ (tick'.throttles <=> due) /\ tick'.anchor = a
      /\ tick'.flag => MemoryHigh
  <2>1. PICK l, h, n, f : /\ l = (was /\ LiftDue) /\ h = due /\ n = a
                          /\ f = (~tick.flag /\ MemoryHigh)
    OBVIOUS
  <2>2. tick' = [tick EXCEPT !.pc = "judged", !.lifts = l, !.throttles = h, !.anchor = n,
                             !.flag = f]
    BY <1>1, <2>1
  <2>3. /\ tick'.pc = "judged" /\ tick'.throttle = tick.throttle /\ tick'.boot = tick.boot
        /\ tick'.clean = tick.clean /\ tick'.throttles = h /\ tick'.anchor = n
        /\ tick'.flag = f
    BY ONLY <1>t, <2>2 DEF TickRecs
  <2> QED
    BY <2>1, <2>3
<1>3. RestTypes'
  <2>1. [GuardNext]_guardVars
    BY DEF GuardNext
  <2> QED
    BY <1>t, <2>1, RestTyped
<1>4. InOrder' /\ EndsPast' /\ ClearOfStop' /\ SamplesFresh'
  BY <1>1, <1>2 DEF SampleInv, InOrder, EndsPast, Past, Unsampled, ClearOfStop, SamplesFresh,
     Throttled
<1>5. ReadUnthrottled'
  BY <1>1, <1>2 DEF SampleInv, ReadUnthrottled, Throttled
<1>6. AnchorFresh'
  <2>1. SUFFICES ASSUME due
                 PROVE  seen.cut \/ a > seen.ended
    BY <1>1, <1>2 DEF AnchorFresh
  <2>2. clear.pc # "samples"
    BY <1>1, <2>1 DEF SampleInv, ReadUnthrottled
  <2>3. i \in 1..Len(samples)
    <3>1. i # 0
      BY <2>1 DEF ThrottleDue
    <3>w. Window \in Nat
      BY <1>t, GuardNumbers
    <3>2. -1 \in Int /\ clock.now - Window \in Int
      BY ONLY <1>t, <3>w
    <3> QED
      BY <1>t, <3>1, <3>2, AnchorIs
  <2> QED
    BY <2>1, <2>2, <2>3 DEF SampleInv, SamplesFresh
<1>7. JudgesThisRun'
  <2>0. RestartsShow' => RestartsShow
    BY <1>1 DEF RestartsShow, RestartShows, restartedBetween, NoMarker
  <2>1. SUFFICES ASSUME tick.clean, MemoryHigh, RestartsShow
                 PROVE  OfThisRun'
    BY <1>2, <2>0 DEF JudgesThisRun
  <2>2. Len(samples) > 0 /\ samples[Len(samples)].boot = tick.boot
    BY <1>1, <2>1 DEF SampleInv, JudgesThisRun
  <2>3. 2 * Cardinality({j \in 1..Len(samples) : samples[j].boot = tick.boot}) >= Window
    BY <1>t, <2>1, <2>2, FlaggedRun
  <2>4. OfThisRun
    BY <2>3 DEF OfThisRun
  <2>5. Window' = Window
    BY <1>1 DEF Window
  <2> QED
    BY <1>1, <1>2, <2>4, <2>5 DEF OfThisRun
<1> QED
  BY <1>3, <1>4, <1>5, <1>6, <1>7 DEF SampleInv

LEMMA DecideKeeps ==
    ASSUME GuardTypes, SampleInv, decide
    PROVE  SampleInv'
<1> DEFINE lifted == tick.lifts /\ row.throttle.at = tick.throttle.at
                     /\ Throttled(row)
           throttled == tick.throttles /\ row.state = "running"
                        /\ ~Throttled(row)
           new == [at |-> clock.now, held |-> Holds, allow |-> 1]
<1>t. /\ row \in GuardRows /\ clock.now \in Nat /\ RestTypes /\ InOrder
      /\ samples \in Seq(SampleRecs) /\ Sorted(samples) /\ tick \in TickRecs
      /\ seen \in SeenRecs /\ seen.ended \in Int /\ row.throttle.at \in Nat
      /\ \A i \in 1..Len(samples) : samples[i].at \in Nat
  BY TimesAreNumbers DEF GuardTypes, SampleInv, RestTypes, SeenRecs, InOrder
<1>1. /\ row' = [row EXCEPT
              !.throttle = IF lifted THEN NoThrottle ELSE IF throttled THEN new ELSE @,
              !.recent = IF throttled THEN KeptRecent ELSE @,
              !.flag = @ \/ (tick.flag /\ row.state = "running")]
      /\ samples' = IF lifted THEN SamplesAfter(tick.throttle.at) ELSE samples
      /\ tick' = [tick EXCEPT !.pc = "sync",
                  !.throttle = IF throttled THEN new ELSE Remaining(lifted)]
      /\ seen' = [seen EXCEPT !.ended = IF lifted THEN tick.throttle.at ELSE @,
                              !.throttles = IF throttled THEN @ \cup {clock.now} ELSE @]
      /\ tick.pc = "judged" /\ UNCHANGED <<world, clock, inst, clear, start, faults>>
  BY DEF decide
<1>2. RestTypes' /\ Fewer
  <2>1. [GuardNext]_guardVars /\ TakesNoSample
    BY DEF GuardNext, TakesNoSample
  <2> QED
    BY <1>t, <2>1, RestTyped, OnlyFewer
<1>3. /\ row'.state = row.state
      /\ row'.throttle = IF lifted THEN NoThrottle
                             ELSE IF throttled THEN new ELSE row.throttle
  <2>1. \A th, rc, f : LET g == [row EXCEPT !.throttle = th, !.recent = rc, !.flag = f]
                       IN  g.state = row.state /\ g.throttle = th
    BY <1>t DEF GuardRows
  <2>2. PICK th, rc, f : /\ th = IF lifted THEN NoThrottle
                                 ELSE IF throttled THEN new ELSE row.throttle
                         /\ row' = [row EXCEPT !.throttle = th, !.recent = rc, !.flag = f]
    BY <1>1
  <2> QED
    BY <2>1, <2>2
<1>4. /\ seen'.ended = IF lifted THEN tick.throttle.at ELSE seen.ended
      /\ seen'.cut = seen.cut /\ tick'.pc = "sync"
  <2>1. PICK e, h : /\ e = IF lifted THEN tick.throttle.at ELSE seen.ended
                    /\ seen' = [seen EXCEPT !.ended = e, !.throttles = h]
    BY <1>1
  <2>2. seen'.ended = e /\ seen'.cut = seen.cut
    BY <1>t, <2>1 DEF SeenRecs
  <2>3. \A th : [tick EXCEPT !.pc = "sync", !.throttle = th].pc = "sync"
    BY <1>t DEF TickRecs
  <2> QED
    BY <1>1, <2>1, <2>2, <2>3
<1>5. ~clock.due /\ ~Unsampled /\ ~Unsampled' /\ new.at = clock.now
  BY <1>1, <1>4 DEF SampleInv, InOrder, Unsampled
<1>6. InOrder'
  <2>1. \A i \in 1..Len(samples') : samples'[i].at <= clock.now
    BY <1>t, <1>2 DEF InOrder, Fewer
  <2> QED
    BY <1>1, <1>2, <1>5, <2>1 DEF InOrder, Fewer
<1>7. EndsPast'
  BY <1>t, <1>1, <1>3, <1>4, <1>5 DEF SampleInv, EndsPast, Past, Throttled
<1>8. ClearOfStop'
  BY <1>1, <1>3, <1>4 DEF SampleInv, ClearOfStop, Throttled
<1>9. ReadUnthrottled' /\ AnchorFresh' /\ JudgesThisRun'
  BY <1>4 DEF ReadUnthrottled, AnchorFresh, JudgesThisRun
<1>10. SamplesFresh'
  <2>1. CASE lifted
    <3>1. samples' = SamplesAfter(tick.throttle.at) /\ seen'.ended = tick.throttle.at
      BY <1>1, <1>4, <2>1
    <3>2. tick.throttle.at \in Int
      BY <1>t, <2>1
    <3>3. \A i \in 1..Len(samples') : samples'[i].at > tick.throttle.at
      BY <1>t, <3>1, <3>2, SamplesAfterIs
    <3> QED
      BY <3>1, <3>3 DEF SamplesFresh
  <2>2. CASE ~lifted
    BY <1>1, <1>4, <2>2 DEF SampleInv, SamplesFresh
  <2> QED
    BY <2>1, <2>2
<1> QED
  BY <1>2, <1>6, <1>7, <1>8, <1>9, <1>10 DEF SampleInv

LEMMA SampleInvKeeps ==
    ASSUME GuardTypes, SampleInv, [GuardNext]_guardVars
    PROVE  SampleInv'
<1>1. CASE work \/ reboot \/ UNCHANGED guardVars
  <2>1. /\ UNCHANGED <<world, clock, row, samples, tick, clear, start>>
        /\ seen'.ended = seen.ended /\ seen'.cut = seen.cut
    <3>1. seen \in SeenRecs
      BY DEF SampleInv, RestTypes, SeenRecs
    <3> QED
      BY <1>1, <3>1 DEF work, reboot, guardVars, SeenRecs
  <2>2. RestTypes'
    BY RestTyped DEF SampleInv
  <2>3. InOrder' /\ EndsPast' /\ ClearOfStop' /\ ReadUnthrottled'
    BY <2>1 DEF SampleInv, InOrder, EndsPast, Past, Unsampled, ClearOfStop, ReadUnthrottled,
       Throttled
  <2>4. SamplesFresh' /\ AnchorFresh' /\ JudgesThisRun'
    BY <2>1 DEF SampleInv, SamplesFresh, AnchorFresh, JudgesThisRun, OfThisRun, Window,
       RestartsShow, RestartShows, restartedBetween, NoMarker
  <2> QED
    BY <2>2, <2>3, <2>4 DEF SampleInv
<1>2. CASE \/ minute \/ readUsage \/ usageReadFails
           \/ (recordSample /\ row.state # "running")
           \/ syncAllowance \/ syncFails \/ workerCrash
  BY <1>2, TicksKeep
<1>3. CASE recordSample /\ row.state = "running"
  BY <1>3, RecordKeeps
<1>4. CASE judge
  BY <1>4, JudgeKeeps
<1>5. CASE decide
  BY <1>5, DecideKeeps
<1>6. CASE \/ beginStop \/ instanceStops \/ stopRecorded
           \/ clearGuardAtStop \/ clearSamples \/ beginStart
           \/ startInstance \/ liftThrottle \/ clearMemoryFlag
           \/ setLimits
  BY <1>6, StopsKeep
<1> QED
  BY <1>1, <1>2, <1>3, <1>4, <1>5, <1>6, Zenon DEF GuardNext

LEMMA SampleInvStarts ==
    ASSUME GuardInit
    PROVE  SampleInv
<1>1. /\ samples = <<>> /\ tick = Idle /\ clock = [now |-> 0, due |-> TRUE]
      /\ row.throttle = NoThrottle
      /\ inst = [on |-> TRUE, ns |-> 0, boot |-> 0, marker |-> FirstMarker, allowance |-> 0,
               used |-> 0]
      /\ clear = [pc |-> "none", at |-> 0] /\ start = [pc |-> "none", allow |-> 0]
      /\ seen = [total |-> 0, skipped |-> FALSE, throttles |-> {}, ended |-> -1, cut |-> FALSE]
  BY DEF GuardInit
<1>2. RestTypes
  <2>1. samples \in Seq(SampleRecs)
    BY <1>1
  <2>2. inst \in InstRecs
    <3>1. FirstMarker \in Int
      BY GuardNumbers DEF GuardInit
    <3> QED
      BY <1>1, <3>1 DEF InstRecs
  <2>3. seen \in [total : Int, skipped : BOOLEAN, throttles : SUBSET Nat, ended : Int,
                  cut : BOOLEAN]
    BY <1>1
  <2>4. /\ clear \in [pc : {"none", "row", "samples"}, at : Nat]
        /\ start \in [pc : {"none", "read"}, allow : Int]
    BY <1>1
  <2> QED
    BY <1>1, <2>1, <2>2, <2>3, <2>4, IdleTick DEF RestTypes, InstRecs
<1>3. InOrder /\ EndsPast
  BY <1>1, IdleTick DEF InOrder, Sorted, EndsPast, Past, Throttled
<1>4. ClearOfStop /\ ReadUnthrottled /\ SamplesFresh /\ AnchorFresh /\ JudgesThisRun
  BY <1>1, IdleTick DEF ClearOfStop, ReadUnthrottled, SamplesFresh, AnchorFresh, JudgesThisRun
<1> QED
  BY <1>2, <1>3, <1>4 DEF SampleInv

(* Only the tick's transactions bring a throttle or a flag. *)
LEMMA OnlyDecideBrings ==
    ASSUME GuardTypes, [GuardNext]_guardVars, tick \in TickRecs
    PROVE  /\ ~Throttled(row) /\ Throttled(row)'
                => tick.pc = "judged" /\ tick.throttles
           /\ ~row.flag /\ row'.flag => tick.pc = "judged" /\ tick.flag
<1>t. row \in GuardRows
  BY DEF GuardTypes
<1>1. CASE decide
  <2> DEFINE lifted == tick.lifts /\ row.throttle.at = tick.throttle.at
                       /\ Throttled(row)
             throttled == tick.throttles /\ row.state = "running"
                          /\ ~Throttled(row)
             new == [at |-> clock.now, held |-> Holds, allow |-> 1]
  <2>1. PICK th, rc, f :
          /\ th = IF lifted THEN NoThrottle ELSE IF throttled THEN new ELSE row.throttle
          /\ f = (row.flag \/ (tick.flag /\ row.state = "running"))
          /\ row' = [row EXCEPT !.throttle = th, !.recent = rc, !.flag = f]
    BY <1>1 DEF decide
  <2>2. row'.throttle = th /\ row'.flag = f
    BY <1>t, <2>1 DEF GuardRows
  <2>3. tick.pc = "judged"
    BY <1>1 DEF decide
  <2> QED
    BY <2>1, <2>2, <2>3 DEF Throttled
<1>2. CASE \/ work \/ reboot \/ minute \/ readUsage
           \/ usageReadFails \/ recordSample \/ judge
           \/ syncAllowance \/ syncFails \/ instanceStops
           \/ clearSamples \/ workerCrash \/ UNCHANGED guardVars
  <2>1. UNCHANGED row
    BY <1>2 DEF guardVars, work, reboot, minute, readUsage, usageReadFails, recordSample, judge,
       syncAllowance, syncFails, instanceStops, clearSamples, workerCrash
  <2> QED
    BY <2>1 DEF Throttled
<1>3. CASE beginStop \/ stopRecorded \/ beginStart \/ startInstance
  <2>1. \E st : row' = [row EXCEPT !.state = st]
    BY <1>3 DEF beginStop, stopRecorded, beginStart, startInstance
  <2>2. row'.throttle = row.throttle /\ row'.flag = row.flag
    BY <1>t, <2>1 DEF GuardRows
  <2> QED
    BY <2>2 DEF Throttled
<1>4. CASE clearGuardAtStop \/ clearMemoryFlag
  <2>1. PICK th \in {NoThrottle, row.throttle} :
          row' = [row EXCEPT !.flag = FALSE, !.throttle = th]
    BY <1>t, <1>4 DEF clearGuardAtStop, clearMemoryFlag, GuardRows
  <2>2. row'.throttle = th /\ row'.flag = FALSE
    BY <1>t, <2>1 DEF GuardRows
  <2> QED
    BY <2>1, <2>2 DEF Throttled
<1>5. CASE liftThrottle \/ setLimits
  <2>1. Throttled(row)
    BY <1>5 DEF liftThrottle, setLimits
  <2>2. \E th : row' = [row EXCEPT !.throttle = th]
    BY <1>5 DEF liftThrottle, setLimits
  <2>3. row'.flag = row.flag
    BY <1>t, <2>2 DEF GuardRows
  <2> QED
    BY <2>1, <2>3
<1> QED
  BY <1>1, <1>2, <1>3, <1>4, <1>5, Zenon DEF GuardNext

(* After a lift, or a stop that cleared the throttle, the next throttle counts
   no use from before the one that ended: what is sampled and read while the
   tick, a stop and an administrator interleave is either deleted with it or
   taken after it (judgeCpu, judgeLift, clearGuardAtStop).  It is said of every
   throttle since no worker died between the two halves of such a clearing. *)
THEOREM ThrottlesStartFresh == GuardSpec => ThrottleIsFresh
<1>1. GuardInit => GuardInv /\ SampleInv
  BY SampleInvStarts DEF GuardInit, GuardInv, GuardTypes, GuardRows, RecentIsEnough,
     HeldExactly, Throttled, NoThrottle
<1>2. GuardInv /\ SampleInv /\ [GuardNext]_guardVars => (GuardInv /\ SampleInv)'
  BY GuardKeeps, SampleInvKeeps DEF GuardInv
<1>3. GuardInv /\ SampleInv /\ [GuardNext]_guardVars
        => [(~Throttled(row) /\ Throttled(row)')
              => seen.cut \/ tick.anchor > seen.ended]_guardVars
  BY OnlyDecideBrings DEF GuardInv, SampleInv, RestTypes, AnchorFresh
<1> QED
  BY <1>1, <1>2, <1>3, PTL DEF GuardSpec, ThrottleIsFresh

(* The memory flag is about the run that it is set in: half of its window at
   least was sampled in the boot that the tick read, when nothing but the tick
   changed the workspace meanwhile and every restart among the samples shows
   (judgeMemory, restartedBetween). *)
THEOREM FlagsAreOfTheRun == GuardSpec => FlagOfThisRun
<1>1. GuardInit => GuardInv /\ SampleInv
  BY SampleInvStarts DEF GuardInit, GuardInv, GuardTypes, GuardRows, RecentIsEnough,
     HeldExactly, Throttled, NoThrottle
<1>2. GuardInv /\ SampleInv /\ [GuardNext]_guardVars => (GuardInv /\ SampleInv)'
  BY GuardKeeps, SampleInvKeeps DEF GuardInv
<1>3. GuardInv /\ SampleInv /\ [GuardNext]_guardVars
        => [(~row.flag /\ row'.flag /\ tick.clean /\ RestartsShow) => OfThisRun]_guardVars
  BY OnlyDecideBrings DEF GuardInv, SampleInv, RestTypes, JudgesThisRun
<1> QED
  BY <1>1, <1>2, <1>3, PTL DEF GuardSpec, FlagOfThisRun

-----------------------------------------------------------------------------
(* What the guard counts is what was used.  The newest sample, and the reading
   that is about to be one, account for what was used since. *)
Newest == samples[Len(samples)]

Counted(prev, cur) ==
    /\ prev.boot <= cur.boot
    /\ ~cur.late /\ cur.boot <= prev.boot + 1 /\ RestartShows(prev, cur)
          => Used(prev, cur) >= cur.total - prev.total
PairsCount == \A j \in 2..Len(samples) : Counted(samples[j - 1], samples[j])

(* In the same boot the counter tells all; across one reboot or restart at most
   an interval of the old boot is not seen, unless a sample was missed.  The
   guard learns of the restart only when it shows. *)
NewestCounts ==
    Len(samples) > 0 =>
        /\ Newest.boot <= inst.boot /\ Newest.ns >= 0
        /\ inst.boot = Newest.boot
              => inst.ns - Newest.ns = seen.total - Newest.total /\ inst.ns >= Newest.ns
        /\ Newest.at = clock.now => seen.total - Newest.total = inst.used
        /\ ~seen.skipped /\ tick.pc # "usage" =>
              /\ inst.boot = Newest.boot => seen.total - Newest.total <= Limit
              /\ inst.boot = Newest.boot + 1
                    => seen.total - Newest.total <= Limit + inst.ns
              /\ inst.on /\ inst.boot = Newest.boot
                    => Newest.at = clock.now \/ (clock.due /\ Newest.at = clock.now - 1)

ReadingCounts ==
    tick.pc = "usage" =>
        /\ tick.boot <= inst.boot /\ seen.total - tick.total = inst.used /\ tick.ns >= 0
        /\ inst.boot = tick.boot => inst.ns - tick.ns = seen.total - tick.total
        /\ Len(samples) > 0 =>
              /\ Newest.boot <= tick.boot
              /\ tick.boot = Newest.boot
                    => tick.ns - Newest.ns = tick.total - Newest.total /\ tick.ns >= Newest.ns
              /\ tick.boot = Newest.boot + 1 /\ ~seen.skipped
                    => tick.total - Newest.total <= Limit + tick.ns

UseIsBounded ==
    inst.used >= 0 /\ inst.used <= Limit /\ inst.ns >= 0 /\ (clock.due => inst.used = 0)

UsedInv == PairsCount /\ NewestCounts /\ ReadingCounts /\ UseIsBounded

(* All of them are numbers. *)
LEMMA UsedNumbers ==
    ASSUME RestTypes, GuardTypes
    PROVE  /\ Limit \in Nat /\ Share \in Nat /\ Share <= Limit
           /\ clock.now \in Nat /\ Len(samples) \in Nat
           /\ inst.ns \in Int /\ inst.boot \in Int /\ inst.used \in Int /\ inst.on \in BOOLEAN
           /\ tick.ns \in Int /\ tick.boot \in Int /\ tick.total \in Int
           /\ seen.total \in Int /\ seen.skipped \in BOOLEAN
           /\ \A i \in 1..Len(samples) :
                 /\ samples[i].at \in Nat /\ samples[i].ns \in Int /\ samples[i].boot \in Int
                 /\ samples[i].total \in Int /\ samples[i].late \in BOOLEAN
           /\ Len(samples) > 0 =>
                 /\ Newest.at \in Nat /\ Newest.ns \in Int /\ Newest.boot \in Int
                 /\ Newest.total \in Int
<1>1. Limit \in Nat /\ Share \in Nat /\ Share <= Limit
  BY WorldsAssumption DEF GuardTypes, Numbers, Limit, Share
<1>2. clock.now \in Nat /\ Len(samples) \in Nat
  BY DEF GuardTypes, RestTypes
<1>3. inst.ns \in Int /\ inst.boot \in Int /\ inst.used \in Int /\ inst.on \in BOOLEAN
  BY DEF RestTypes
<1>4. tick.ns \in Int /\ tick.boot \in Int /\ tick.total \in Int
  BY DEF RestTypes, TickRecs
<1>5. seen.total \in Int /\ seen.skipped \in BOOLEAN
  BY DEF RestTypes
<1>6. ASSUME NEW i \in 1..Len(samples)
      PROVE  /\ samples[i].at \in Nat /\ samples[i].ns \in Int /\ samples[i].boot \in Int
             /\ samples[i].total \in Int /\ samples[i].late \in BOOLEAN
  <2>1. samples[i] \in SampleRecs
    BY DEF RestTypes
  <2> QED
    BY <2>1 DEF SampleRecs
<1>7. ASSUME Len(samples) > 0
      PROVE  /\ Newest.at \in Nat /\ Newest.ns \in Int /\ Newest.boot \in Int
             /\ Newest.total \in Int
  <2>1. Len(samples) \in 1..Len(samples)
    BY <1>2, <1>7
  <2> QED
    BY <1>6, <2>1 DEF Newest
<1> QED
  BY <1>1, <1>2, <1>3, <1>4, <1>5, <1>6, <1>7

(* The last samples keep their newest, and stay consecutive. *)
LEMMA RestCounts ==
    ASSUME Len(samples) \in Nat, PairsCount, UNCHANGED world,
           \E k \in 0..Len(samples) : IsRest(samples', samples, k)
    PROVE  /\ PairsCount'
           /\ Len(samples') > 0 => Len(samples) > 0 /\ Newest' = Newest
<1>1. PICK k \in 0..Len(samples) : IsRest(samples', samples, k)
  OBVIOUS
<1>2. Len(samples') \in Nat /\ Len(samples') = Len(samples) - k
  <2>1. samples' \in Seq(SampleRecs) /\ Len(samples') = Len(samples) - k
    BY <1>1 DEF IsRest
  <2> QED
    BY <2>1
<1>3. ASSUME NEW j \in 2..Len(samples')
      PROVE  Counted(samples'[j - 1], samples'[j])
  <2>1. j \in 1..Len(samples') /\ j - 1 \in 1..Len(samples')
    BY <1>2
  <2>2. samples'[j] = samples[j + k] /\ samples'[j - 1] = samples[j - 1 + k]
    BY <1>1, <2>1 DEF IsRest
  <2>3. j + k \in 2..Len(samples) /\ j - 1 + k = j + k - 1
    BY <1>2
  <2> QED
    BY <2>2, <2>3 DEF PairsCount
<1>4. ASSUME Len(samples') > 0
      PROVE  Len(samples) > 0 /\ samples'[Len(samples')] = samples[Len(samples)]
  <2>1. Len(samples') \in 1..Len(samples') /\ Len(samples') + k = Len(samples)
    BY <1>2, <1>4
  <2>2. samples'[Len(samples')] = samples[Len(samples') + k]
    BY <1>1, <2>1 DEF IsRest
  <2> QED
    BY <1>2, <1>4, <2>1, <2>2
<1>5. PairsCount'
  BY <1>3 DEF PairsCount, Counted, Used, RestartShows, restartedBetween, NoMarker,
       Limit
<1> QED
  BY <1>4, <1>5 DEF Newest

(* Steps that use nothing: what is read may be lost, and is missed then. *)
LEMMA NothingUsed ==
    ASSUME GuardTypes, RestTypes, InOrder, UsedInv, UNCHANGED world,
           \E k \in 0..Len(samples) : IsRest(samples', samples, k),
           inst'.ns = inst.ns, inst'.boot = inst.boot, inst'.used = inst.used,
           inst'.on => inst.on, seen'.total = seen.total,
           seen'.skipped \in BOOLEAN, seen.skipped => seen'.skipped,
           clock'.now = clock.now, clock'.due => clock.due,
           inst'.on /\ ~seen'.skipped => clock'.due = clock.due,
           \/ tick.pc # "usage" /\ tick'.pc # "usage"
           \/ /\ tick.pc = "usage" /\ tick'.pc = "usage" /\ tick'.boot = tick.boot
              /\ tick'.ns = tick.ns /\ tick'.total = tick.total
           \/ tick.pc = "usage" /\ tick'.pc # "usage" /\ seen'.skipped
    PROVE  UsedInv'
<1>t. /\ Limit \in Nat /\ Limit' = Limit /\ clock.now \in Nat
      /\ Len(samples) \in Nat
      /\ inst.ns \in Int /\ inst.boot \in Int /\ inst.used \in Int /\ inst.on \in BOOLEAN
      /\ tick.ns \in Int /\ tick.boot \in Int /\ tick.total \in Int
      /\ seen.total \in Int /\ seen.skipped \in BOOLEAN
  BY UsedNumbers DEF Limit
<1>1. PairsCount' /\ (Len(samples') > 0 => Len(samples) > 0 /\ Newest' = Newest)
  BY <1>t, RestCounts DEF UsedInv
<1>2. NewestCounts'
  BY <1>t, <1>1 DEF UsedInv, NewestCounts
<1>3. ReadingCounts'
  BY <1>t, <1>1 DEF UsedInv, ReadingCounts
<1>4. UseIsBounded'
  BY <1>t DEF UsedInv, UseIsBounded
<1> QED
  BY <1>1, <1>2, <1>3, <1>4 DEF UsedInv

LEMMA DisturbedReading ==
    ASSUME tick \in TickRecs, Disturbed
    PROVE  /\ tick'.pc = tick.pc /\ tick'.boot = tick.boot /\ tick'.ns = tick.ns
           /\ tick'.total = tick.total
BY DEF Disturbed, TickRecs

LEMMA IdleUses ==
    ASSUME GuardTypes, RestTypes, InOrder, UsedInv,
           \/ usageReadFails \/ judge \/ decide \/ syncAllowance
           \/ syncFails \/ workerCrash
           \/ (readUsage /\ ~inst.on)
           \/ (recordSample /\ row.state # "running")
           \/ beginStop \/ instanceStops \/ stopRecorded
           \/ clearGuardAtStop \/ clearSamples \/ beginStart
           \/ liftThrottle \/ clearMemoryFlag \/ setLimits
           \/ UNCHANGED guardVars
    PROVE  UsedInv'
<1>t. /\ clock \in [now : Nat, due : BOOLEAN] /\ tick \in TickRecs
      /\ inst \in [on : BOOLEAN, ns : Int, boot : Int, marker : Int, allowance : Int,
                  used : Int]
      /\ inst.on \in BOOLEAN /\ seen.skipped \in BOOLEAN
      /\ seen \in SeenRecs /\ Idle.pc = "idle"
  BY IdleTick DEF GuardTypes, RestTypes, SeenRecs
<1>0. TakesNoSample
  <2>1. readUsage /\ ~inst.on => readUsage
    OBVIOUS
  <2> QED
    BY <2>1, Zenon DEF TakesNoSample
<1>k. \E k \in 0..Len(samples) : IsRest(samples', samples, k)
  BY <1>0, OnlyRest
<1>1. CASE usageReadFails
  <2>1. /\ UNCHANGED <<world, inst, tick>> /\ clock'.now = clock.now /\ ~clock'.due
        /\ seen'.total = seen.total /\ seen'.skipped = (seen.skipped \/ inst.on)
        /\ tick.pc = "idle"
    BY <1>t, <1>1 DEF usageReadFails, SeenRecs
  <2> QED
    BY <1>t, <1>k, <2>1, NothingUsed
<1>2. CASE readUsage /\ ~inst.on
  <2>1. /\ UNCHANGED <<world, inst, seen>> /\ clock'.now = clock.now /\ ~clock'.due
        /\ tick.pc = "idle" /\ tick'.pc = "idle"
    BY <1>t, <1>2 DEF readUsage
  <2> QED
    BY <1>t, <1>k, <1>2, <2>1, NothingUsed
<1>3. CASE recordSample /\ row.state # "running"
  <2>1. /\ UNCHANGED <<world, clock, inst>> /\ seen'.total = seen.total /\ seen'.skipped
        /\ tick.pc = "usage" /\ tick'.pc = "idle"
    BY <1>t, <1>3 DEF recordSample, SeenRecs
  <2>2. seen'.skipped = TRUE
    BY <1>t, <1>3 DEF recordSample, SeenRecs
  <2> QED
    BY <1>t, <1>k, <2>1, <2>2, NothingUsed
<1>4. CASE workerCrash
  <2>1. /\ UNCHANGED <<world, clock, inst>> /\ seen'.total = seen.total
        /\ seen'.skipped = (seen.skipped \/ tick.pc = "usage") /\ tick'.pc = "idle"
    BY <1>t, <1>4 DEF workerCrash, SeenRecs
  <2> QED
    BY <1>t, <1>k, <2>1, NothingUsed
<1>5. CASE judge \/ decide \/ syncFails \/ syncAllowance
  <2>1. /\ UNCHANGED <<world, clock>>
        /\ tick.pc \in {"rows", "judged", "sync"}
        /\ seen' = seen \/ \E e, h : seen' = [seen EXCEPT !.ended = e, !.throttles = h]
        /\ inst' = inst \/ \E a : inst' = [inst EXCEPT !.allowance = a]
    <3>1. CASE judge
      BY <3>1 DEF judge
    <3>2. CASE decide
      <4>1. \E e, h : seen' = [seen EXCEPT !.ended = e, !.throttles = h]
        BY <3>2, Zenon DEF decide
      <4> QED
        BY <3>2, <4>1 DEF decide
    <3>3. CASE syncFails
      BY <3>3 DEF syncFails
    <3>4. CASE syncAllowance
      <4>1. \E a : inst' = [inst EXCEPT !.allowance = a]
        BY <3>4, Zenon DEF syncAllowance
      <4> QED
        BY <3>4, <4>1 DEF syncAllowance
    <3> QED
      BY <1>5, <3>1, <3>2, <3>3, <3>4
  <2>2. /\ inst'.ns = inst.ns /\ inst'.boot = inst.boot /\ inst'.used = inst.used
        /\ inst'.on = inst.on
    BY <1>t, <2>1
  <2>3. seen'.total = seen.total /\ seen'.skipped = seen.skipped
    BY <1>t, <2>1 DEF SeenRecs
  <2>4. tick'.pc # "usage"
    <3>1. \A l, h, a, f : [tick EXCEPT !.pc = "judged", !.lifts = l, !.throttles = h,
                                       !.anchor = a, !.flag = f].pc = "judged"
      BY <1>t DEF TickRecs
    <3>2. \A th : [tick EXCEPT !.pc = "sync", !.throttle = th].pc = "sync"
      BY <1>t DEF TickRecs
    <3>3. CASE judge
      <4>1. \E l, h, a, f : tick' = [tick EXCEPT !.pc = "judged", !.lifts = l, !.throttles = h,
                                                 !.anchor = a, !.flag = f]
        BY <3>3, Zenon DEF judge
      <4> QED
        BY <3>1, <4>1
    <3>4. CASE decide
      <4>1. \E th : tick' = [tick EXCEPT !.pc = "sync", !.throttle = th]
        BY <3>4, Zenon DEF decide
      <4> QED
        BY <3>2, <4>1
    <3>5. CASE syncFails \/ syncAllowance
      BY <1>t, <3>5 DEF syncFails, syncAllowance
    <3> QED
      BY <1>5, <3>3, <3>4, <3>5
  <2> QED
    BY <1>t, <1>k, <2>1, <2>2, <2>3, <2>4, NothingUsed
<1>6. CASE \/ beginStop \/ instanceStops \/ stopRecorded
           \/ clearGuardAtStop \/ clearSamples \/ beginStart
           \/ liftThrottle \/ clearMemoryFlag \/ setLimits
  <2>1. /\ UNCHANGED <<world, clock>> /\ Disturbed
        /\ seen' = seen \/ \E e : seen' = [seen EXCEPT !.ended = e]
        /\ inst' = inst \/ inst' = [inst EXCEPT !.on = FALSE]
    BY <1>6 DEF beginStop, instanceStops, stopRecorded, clearGuardAtStop, clearSamples,
       beginStart, liftThrottle, clearMemoryFlag, setLimits, Asks
  <2>2. /\ inst'.ns = inst.ns /\ inst'.boot = inst.boot /\ inst'.used = inst.used
        /\ inst'.on => inst.on
    BY <1>t, <2>1
  <2>3. seen'.total = seen.total /\ seen'.skipped = seen.skipped
    BY <1>t, <2>1 DEF SeenRecs
  <2>4. /\ tick'.pc = tick.pc /\ tick'.boot = tick.boot /\ tick'.ns = tick.ns
        /\ tick'.total = tick.total
    BY <1>t, <2>1, DisturbedReading
  <2> QED
    BY <1>t, <1>k, <2>1, <2>2, <2>3, <2>4, NothingUsed
<1>7. CASE UNCHANGED guardVars
  <2>1. UNCHANGED <<world, clock, samples, inst, tick, seen>>
    BY <1>7 DEF guardVars
  <2> QED
    BY <1>t, <1>k, <2>1, NothingUsed
<1> QED
  BY <1>1, <1>2, <1>3, <1>4, <1>5, <1>6, <1>7

(* The instance computes, reboots and is started. *)
LEMMA InstanceUses ==
    ASSUME GuardTypes, RestTypes, InOrder, UsedInv,
           work \/ reboot \/ startInstance
    PROVE  UsedInv'
<1>n. /\ Limit \in Nat /\ Share \in Nat /\ Share <= Limit
      /\ clock.now \in Nat /\ Len(samples) \in Nat
      /\ inst.ns \in Int /\ inst.boot \in Int /\ inst.used \in Int /\ inst.on \in BOOLEAN
      /\ tick.ns \in Int /\ tick.boot \in Int /\ tick.total \in Int
      /\ seen.total \in Int /\ seen.skipped \in BOOLEAN
      /\ Len(samples) > 0 => Newest.at \in Nat /\ Newest.ns \in Int /\ Newest.boot \in Int
                             /\ Newest.total \in Int
  BY UsedNumbers
<1>t. /\ tick \in TickRecs /\ seen \in SeenRecs
      /\ inst \in [on : BOOLEAN, ns : Int, boot : Int, marker : Int, allowance : Int,
                  used : Int]
  BY DEF RestTypes, SeenRecs
<1>s. UNCHANGED <<world, clock, samples>>
  BY DEF work, reboot, startInstance
<1>d. /\ tick'.pc = tick.pc /\ tick'.boot = tick.boot /\ tick'.ns = tick.ns
      /\ tick'.total = tick.total
  <2>1. tick' = tick \/ Disturbed
    BY DEF work, reboot, startInstance
  <2> QED
    BY <1>t, <2>1, DisturbedReading
<1>p. PairsCount' /\ Newest' = Newest /\ Limit' = Limit
  BY <1>s DEF UsedInv, PairsCount, Counted, Newest, Used, RestartShows, restartedBetween,
     NoMarker, Limit
<1>1. CASE work
  <2>1. /\ inst'.on = inst.on /\ inst'.ns = inst.ns + 1 /\ inst'.boot = inst.boot
        /\ inst'.used = inst.used + 1
        /\ inst.on /\ ~clock.due /\ inst.used < Limit
    <3>1. /\ inst' = [inst EXCEPT !.ns = @ + 1, !.used = @ + 1]
          /\ inst.on /\ ~clock.due
          /\ inst.used < IF inst.allowance = 0 THEN Limit ELSE Share
      BY <1>1 DEF work
    <3>2. inst.used < Limit
      BY <1>n, <3>1
    <3>3. PICK a, b : a = inst.ns + 1 /\ b = inst.used + 1
      OBVIOUS
    <3>4. inst' = [inst EXCEPT !.ns = a, !.used = b]
      BY <3>1, <3>3
    <3>5. /\ inst'.on = inst.on /\ inst'.ns = a /\ inst'.boot = inst.boot /\ inst'.used = b
      BY ONLY <1>t, <3>4
    <3> QED
      BY <3>1, <3>2, <3>3, <3>5
  <2>2. seen'.total = seen.total + 1 /\ seen'.skipped = seen.skipped
    BY <1>t, <1>1 DEF work, SeenRecs
  <2>3. NewestCounts'
    <3>1. SUFFICES ASSUME Len(samples) > 0
                   PROVE  NewestCounts'
      BY <1>s DEF NewestCounts
    <3>n. /\ Newest.ns \in Int /\ Newest.total \in Int /\ inst.ns \in Int
          /\ inst.used \in Int /\ seen.total \in Int /\ Limit \in Int
      BY <1>n, <3>1
    <3>0. PICK n \in Int, u \in Int, t \in Int, m \in Int, w \in Int, l \in Int :
            /\ n = inst.ns /\ u = inst.used /\ t = seen.total /\ m = Newest.ns
            /\ w = Newest.total /\ l = Limit
      BY ONLY <3>n, Zenon
    <3>2. /\ Newest.boot <= inst.boot
          /\ inst.boot = Newest.boot
                => inst.ns - Newest.ns = seen.total - Newest.total /\ inst.ns >= Newest.ns
          /\ Newest.at = clock.now => seen.total - Newest.total = inst.used
      BY <3>1 DEF UsedInv, NewestCounts
    <3>3. ASSUME ~seen.skipped, tick.pc # "usage"
          PROVE  /\ inst.boot = Newest.boot => Newest.at = clock.now
                 /\ inst.boot = Newest.boot + 1
                      => seen.total - Newest.total <= Limit + inst.ns
      BY <2>1, <3>1, <3>3 DEF UsedInv, NewestCounts
    <3>4. /\ Newest.boot <= inst'.boot
          /\ inst'.boot = Newest.boot
                => inst'.ns - Newest.ns = seen'.total - Newest.total /\ inst'.ns >= Newest.ns
          /\ Newest.at = clock.now => seen'.total - Newest.total = inst'.used
      <4>1. /\ inst.boot = Newest.boot
                  => /\ (inst.ns + 1) - Newest.ns = (seen.total + 1) - Newest.total
                     /\ inst.ns + 1 >= Newest.ns
            /\ Newest.at = clock.now => (seen.total + 1) - Newest.total = inst.used + 1
        <5>1. inst.boot = Newest.boot => n - m = t - w /\ n >= m
          BY <3>0, <3>2
        <5>2. Newest.at = clock.now => t - w = u
          BY <3>0, <3>2
        <5>3. /\ n - m = t - w => (n + 1) - m = (t + 1) - w
              /\ n >= m => n + 1 >= m
              /\ t - w = u => (t + 1) - w = u + 1
          OBVIOUS
        <5> QED
          BY ONLY <3>0, <5>1, <5>2, <5>3
      <4> QED
        BY ONLY <2>1, <2>2, <3>2, <4>1
    <3>5. ASSUME ~seen.skipped, tick.pc # "usage"
          PROVE  /\ inst'.boot = Newest.boot => seen'.total - Newest.total <= Limit
                 /\ inst'.boot = Newest.boot + 1
                      => seen'.total - Newest.total <= Limit + inst'.ns
                 /\ inst'.boot = Newest.boot => Newest.at = clock.now
      <4>1. inst.boot = Newest.boot => (seen.total + 1) - Newest.total <= Limit
        <5>1. ASSUME inst.boot = Newest.boot
              PROVE  seen.total - Newest.total = inst.used
          BY <3>2, <3>3, <3>5, <5>1
        <5>2. inst.used < Limit
          BY <2>1
        <5> QED
          BY ONLY <1>n, <3>1, <5>1, <5>2
      <4>2. inst.boot = Newest.boot + 1
              => (seen.total + 1) - Newest.total <= Limit + (inst.ns + 1)
        <5>1. inst.boot = Newest.boot + 1 => t - w <= l + n
          BY <3>0, <3>3, <3>5
        <5>2. t - w <= l + n => (t + 1) - w <= l + (n + 1)
          OBVIOUS
        <5> QED
          BY ONLY <3>0, <5>1, <5>2
      <4> QED
        BY <2>1, <2>2, <3>3, <3>5, <4>1, <4>2
    <3>6. Newest.ns >= 0
      BY <3>1 DEF UsedInv, NewestCounts
    <3> QED
      BY <1>s, <1>d, <1>p, <2>2, <3>4, <3>5, <3>6 DEF NewestCounts
  <2>4. ReadingCounts'
    <3>1. SUFFICES ASSUME tick.pc = "usage"
                   PROVE  ReadingCounts'
      BY <1>d DEF ReadingCounts
    <3>2. /\ tick.boot <= inst.boot /\ seen.total - tick.total = inst.used /\ tick.ns >= 0
          /\ inst.boot = tick.boot => inst.ns - tick.ns = seen.total - tick.total
      BY <3>1 DEF UsedInv, ReadingCounts
    <3>3. /\ tick.boot <= inst'.boot /\ seen'.total - tick.total = inst'.used /\ tick.ns >= 0
          /\ inst'.boot = tick.boot => inst'.ns - tick.ns = seen'.total - tick.total
      <4>1. /\ (seen.total + 1) - tick.total = inst.used + 1
            /\ inst.boot = tick.boot
                  => (inst.ns + 1) - tick.ns = (seen.total + 1) - tick.total
        <5>1. PICK n \in Int, u \in Int, t \in Int, m \in Int, w \in Int :
                n = inst.ns /\ u = inst.used /\ t = seen.total /\ m = tick.ns /\ w = tick.total
          BY <1>n
        <5>2. t - w = u /\ (inst.boot = tick.boot => n - m = t - w)
          BY <3>2, <5>1
        <5>3. /\ n - m = t - w => (n + 1) - m = (t + 1) - w
              /\ t - w = u => (t + 1) - w = u + 1
          OBVIOUS
        <5> QED
          BY ONLY <5>1, <5>2, <5>3
      <4> QED
        BY ONLY <2>1, <2>2, <3>2, <4>1
    <3> QED
      BY <1>s, <1>d, <1>p, <2>2, <3>1, <3>3 DEF UsedInv, ReadingCounts
  <2>5. UseIsBounded'
    BY <1>n, <1>s, <1>p, <2>1 DEF UsedInv, UseIsBounded
  <2> QED
    BY <1>p, <2>3, <2>4, <2>5 DEF UsedInv
<1>2. CASE reboot \/ startInstance
  <2>1. inst'.ns = 0 /\ inst'.boot = inst.boot + 1 /\ inst'.used = inst.used /\ seen' = seen
    <3>1. PICK b : b = inst.boot + 1
      OBVIOUS
    <3>2. \E a, k :
            \/ inst' = [inst EXCEPT !.ns = 0, !.boot = b, !.marker = k]
            \/ inst' = [inst EXCEPT !.on = TRUE, !.ns = 0, !.boot = b, !.marker = k,
                                    !.allowance = a]
      BY <1>2, <3>1 DEF reboot, startInstance
    <3>3. inst'.ns = 0 /\ inst'.boot = b /\ inst'.used = inst.used
      BY ONLY <1>t, <3>2
    <3>4. seen' = seen
      BY <1>2 DEF reboot, startInstance
    <3> QED
      BY <3>1, <3>3, <3>4
  <2>2. inst'.on \in BOOLEAN
    BY <1>t, <1>2 DEF reboot, startInstance
  <2>3. NewestCounts'
    <3>1. SUFFICES ASSUME Len(samples) > 0
                   PROVE  NewestCounts'
      BY <1>s DEF NewestCounts
    <3>2. Newest.boot <= inst'.boot /\ inst'.boot # Newest.boot
          /\ (inst'.boot = Newest.boot + 1 => inst.boot = Newest.boot)
      <4>1. Newest.boot <= inst.boot /\ Newest.boot \in Int /\ inst.boot \in Int
        BY <1>n, <3>1 DEF UsedInv, NewestCounts
      <4> QED
        BY ONLY <2>1, <4>1
    <3>3. Newest.at = clock.now => seen.total - Newest.total = inst.used
      BY <3>1 DEF UsedInv, NewestCounts
    <3>4. ASSUME ~seen.skipped, tick.pc # "usage", inst.boot = Newest.boot
          PROVE  seen.total - Newest.total <= Limit + 0
      BY <1>n, <3>1, <3>4 DEF UsedInv, NewestCounts
    <3>5. Newest.ns >= 0
      BY <3>1 DEF UsedInv, NewestCounts
    <3> QED
      BY <1>s, <1>d, <1>p, <2>1, <3>2, <3>3, <3>4, <3>5 DEF NewestCounts
  <2>4. ReadingCounts'
    BY <1>n, <1>s, <1>d, <1>p, <2>1, <2>2 DEF UsedInv, ReadingCounts
  <2>5. UseIsBounded'
    BY <1>n, <1>s, <1>p, <2>1 DEF UsedInv, UseIsBounded
  <2> QED
    BY <1>p, <2>3, <2>4, <2>5 DEF UsedInv
<1> QED
  BY <1>1, <1>2

(* An interval passes, and its use is read. *)
LEMMA MinuteUses ==
    ASSUME GuardTypes, RestTypes, InOrder, UsedInv,
           minute \/ (readUsage /\ inst.on)
    PROVE  UsedInv'
<1>n. /\ Limit \in Nat
      /\ clock.now \in Nat /\ Len(samples) \in Nat
      /\ inst.ns \in Int /\ inst.boot \in Int /\ inst.used \in Int /\ inst.on \in BOOLEAN
      /\ seen.total \in Int /\ seen.skipped \in BOOLEAN
      /\ Len(samples) > 0 => /\ Newest.at \in Nat /\ Newest.at <= clock.now
                             /\ Unsampled => Newest.at < clock.now
                             /\ Newest.ns \in Int /\ Newest.boot \in Int
                             /\ Newest.total \in Int
  <2>1. ASSUME Len(samples) > 0
        PROVE  Newest.at <= clock.now /\ (Unsampled => Newest.at < clock.now)
    <3>1. Len(samples) \in 1..Len(samples)
      BY <2>1, UsedNumbers
    <3> QED
      BY <3>1 DEF Newest, InOrder
  <2> QED
    BY <2>1, UsedNumbers
<1>t. /\ clock \in [now : Nat, due : BOOLEAN]
      /\ inst \in [on : BOOLEAN, ns : Int, boot : Int, marker : Int, allowance : Int,
                  used : Int]
  BY DEF RestTypes, GuardTypes
<1>1. CASE minute
  <2>1. /\ UNCHANGED <<world, samples, tick, seen>>
        /\ clock'.now = clock.now + 1 /\ clock'.due /\ ~clock.due
        /\ tick.pc = "idle" /\ inst' = [inst EXCEPT !.used = 0]
    BY <1>1 DEF minute
  <2>2. /\ inst'.on = inst.on /\ inst'.ns = inst.ns /\ inst'.boot = inst.boot
        /\ inst'.used = 0
    BY <1>t, <2>1
  <2>3. PairsCount' /\ Newest' = Newest /\ Limit' = Limit
    BY <2>1 DEF UsedInv, PairsCount, Counted, Newest, Used, RestartShows, restartedBetween,
     NoMarker, Limit
  <2>4. NewestCounts'
    <3>1. SUFFICES ASSUME Len(samples) > 0
                   PROVE  NewestCounts'
      BY <2>1 DEF NewestCounts
    <3>2. Newest.at # clock'.now
      BY <1>n, <2>1, <3>1
    <3>3. ASSUME ~seen.skipped, inst.on, inst.boot = Newest.boot
          PROVE  Newest.at = clock'.now - 1
      BY <1>n, <2>1, <3>1, <3>3 DEF UsedInv, NewestCounts
    <3> QED
      BY <2>1, <2>2, <2>3, <3>1, <3>2, <3>3 DEF UsedInv, NewestCounts
  <2>5. ReadingCounts' /\ UseIsBounded'
    BY <1>n, <2>1, <2>2, <2>3 DEF UsedInv, ReadingCounts, UseIsBounded
  <2> QED
    BY <2>3, <2>4, <2>5 DEF UsedInv
<1>2. CASE readUsage /\ inst.on
  <2>1. /\ UNCHANGED <<world, samples, inst, seen>>
        /\ clock'.now = clock.now /\ ~clock'.due /\ clock.due /\ tick.pc = "idle"
    BY <1>t, <1>2 DEF readUsage
  <2>2. /\ tick'.pc = "usage" /\ tick'.ns = inst.ns /\ tick'.boot = inst.boot
        /\ tick'.total = seen.total
    <3>1. PICK m, k : tick' = [Idle EXCEPT !.pc = "usage", !.allowance = inst.allowance,
                                 !.ns = inst.ns, !.boot = inst.boot, !.marker = k,
                                 !.mem = m, !.total = seen.total]
      BY <1>2 DEF readUsage
    <3>2. \A a, b, c, d, e, f :
            LET r == [Idle EXCEPT !.pc = "usage", !.allowance = a, !.ns = b, !.boot = c,
                                  !.marker = f, !.mem = d, !.total = e]
            IN  r.pc = "usage" /\ r.ns = b /\ r.boot = c /\ r.total = e
      BY DEF Idle
    <3> QED
      BY ONLY <3>1, <3>2
  <2>3. PairsCount' /\ Newest' = Newest /\ Limit' = Limit
    BY <2>1 DEF UsedInv, PairsCount, Counted, Newest, Used, RestartShows, restartedBetween,
     NoMarker, Limit
  <2>4. NewestCounts'
    BY <1>n, <2>1, <2>2, <2>3 DEF UsedInv, NewestCounts
  <2>5. ReadingCounts'
    BY <1>n, <2>1, <2>2, <2>3 DEF UsedInv, NewestCounts, ReadingCounts, UseIsBounded
  <2>6. UseIsBounded'
    BY <1>n, <2>1, <2>2, <2>3 DEF UsedInv, UseIsBounded
  <2> QED
    BY <2>3, <2>4, <2>5, <2>6 DEF UsedInv
<1> QED
  BY <1>1, <1>2

(* The reading becomes a sample. *)
LEMMA RecordUses ==
    ASSUME GuardTypes, RestTypes, InOrder, UsedInv,
           recordSample, row.state = "running"
    PROVE  UsedInv'
<1>n. /\ Limit \in Nat /\ clock.now \in Nat /\ Len(samples) \in Nat
      /\ inst.ns \in Int /\ inst.boot \in Int /\ inst.used \in Int /\ inst.on \in BOOLEAN
      /\ tick.ns \in Int /\ tick.boot \in Int /\ tick.total \in Int
      /\ seen.total \in Int /\ seen.skipped \in BOOLEAN
      /\ Len(samples) > 0 => /\ Newest.at \in Nat /\ Newest.ns \in Int /\ Newest.boot \in Int
                             /\ Newest.total \in Int
  BY UsedNumbers
<1>t. samples \in Seq(SampleRecs) /\ tick \in TickRecs /\ seen \in SeenRecs
  BY DEF RestTypes, SeenRecs
<1>1. PICK r : r = [at |-> clock.now, ns |-> tick.ns, marker |-> tick.marker, mem |-> tick.mem,
                    boot |-> tick.boot, total |-> tick.total, late |-> seen.skipped]
  OBVIOUS
<1>2. /\ r.at = clock.now /\ r.ns = tick.ns /\ r.boot = tick.boot /\ r.total = tick.total
      /\ r.late = seen.skipped
  BY <1>1
<1>3. /\ samples' = Append(samples, r)
      /\ tick' = [tick EXCEPT !.pc = "rows", !.throttle = row.throttle,
                              !.flag = row.flag]
      /\ seen' = [seen EXCEPT !.skipped = FALSE]
      /\ UNCHANGED <<world, clock, inst>> /\ tick.pc = "usage"
  BY <1>1 DEF recordSample
<1>4. r \in SampleRecs
  BY <1>n, <1>1, <1>t DEF SampleRecs, TickRecs, SeenRecs
<1>5. /\ Len(samples') = Len(samples) + 1 /\ samples'[Len(samples) + 1] = r
      /\ \A i \in 1..Len(samples) : samples'[i] = samples[i]
  BY <1>t, <1>3, <1>4
<1>6. Newest' = r
  BY <1>5 DEF Newest
<1>7. /\ tick'.pc = "rows" /\ seen'.total = seen.total /\ seen'.skipped = FALSE
      /\ Limit' = Limit
  <2>1. \A th, f : [tick EXCEPT !.pc = "rows", !.throttle = th, !.flag = f].pc = "rows"
    BY <1>t DEF TickRecs
  <2> QED
    BY <1>t, <1>3, <2>1 DEF SeenRecs, Limit
<1>8. /\ tick.boot <= inst.boot /\ seen.total - tick.total = inst.used
      /\ inst.boot = tick.boot => inst.ns - tick.ns = seen.total - tick.total
      /\ inst.used >= 0 /\ inst.used <= Limit /\ inst.ns >= 0 /\ tick.ns >= 0
  BY <1>3 DEF UsedInv, ReadingCounts, UseIsBounded
<1>9. NewestCounts'
  <2>1. inst.boot = tick.boot => inst.ns >= tick.ns
    <3>1. PICK n \in Int, m \in Int, u \in Int : n = inst.ns /\ m = tick.ns /\ u = inst.used
      BY <1>n
    <3>2. inst.boot = tick.boot => n - m = u
      BY <1>8, <3>1
    <3>3. n - m = u /\ u >= 0 => n >= m
      OBVIOUS
    <3> QED
      BY <1>8, <3>1, <3>2, <3>3
  <2>2. inst.used <= Limit + inst.ns
    BY ONLY <1>8, <1>n
  <2> QED
    BY <1>2, <1>3, <1>6, <1>7, <1>8, <2>1, <2>2 DEF NewestCounts
<1>10. PairsCount'
  <2>1. ASSUME NEW j \in 2..Len(samples)
        PROVE  Counted(samples'[j - 1], samples'[j])
    <3>i. j - 1 \in 1..Len(samples) /\ j \in 1..Len(samples)
      BY ONLY <1>n, j \in 2..Len(samples)
    <3>1. samples'[j - 1] = samples[j - 1] /\ samples'[j] = samples[j]
      BY ONLY <1>5, <3>i
    <3>2. Counted(samples[j - 1], samples[j])
      BY DEF UsedInv, PairsCount
    <3> QED
      BY ONLY <3>1, <3>2
  <2>2. ASSUME Len(samples) > 0
        PROVE  Counted(Newest, r)
    <3>0. Len(samples) \in 1..Len(samples)
      BY <1>n, <2>2
    <3>1. /\ Newest.boot <= tick.boot
          /\ tick.boot = Newest.boot
                => tick.ns - Newest.ns = tick.total - Newest.total /\ tick.ns >= Newest.ns
          /\ tick.boot = Newest.boot + 1 /\ ~seen.skipped
                => tick.total - Newest.total <= Limit + tick.ns
      BY <1>3, <2>2 DEF UsedInv, ReadingCounts
    <3>2. r.at - Newest.at >= 1
      <4>1. Newest.at < clock.now
        BY <1>3, <3>0 DEF InOrder, Unsampled, Newest
      <4> QED
        BY <1>2, <1>n, <2>2, <4>1
    <3>5. restartedBetween(Newest, r) => Used(Newest, r) = Limit + tick.ns
      <4>1. SUFFICES ASSUME restartedBetween(Newest, r)
                     PROVE  Used(Newest, r) = Limit + tick.ns
        OBVIOUS
      <4>2. ~ (r.at - Newest.at < 1)
        <5>1. PICK a \in Int, b \in Int : a = r.at /\ b = Newest.at
          BY <1>2, <1>n, <2>2
        <5>2. a - b >= 1 => ~ (a - b < 1)
          BY ONLY a \in Int, b \in Int
        <5> QED
          BY ONLY <3>2, <5>1, <5>2
      <4>3. Used(Newest, r) = tick.ns + 1 * Limit
        BY <1>2, <4>1, <4>2 DEF Used
      <4> QED
        <5>1. tick.ns \in Int /\ Limit \in Int
          BY <1>n
        <5>2. \A n, l \in Int : n + 1 * l = l + n
          OBVIOUS
        <5> QED
          BY <4>3, <5>1, <5>2, Zenon
    <3>3. CASE tick.boot = Newest.boot
      <4>1. CASE restartedBetween(Newest, r)
        <5>1. Newest.ns >= 0
          BY <2>2 DEF UsedInv, NewestCounts
        <5>2. PICK l \in Int, n \in Int, m \in Int, t \in Int, w \in Int :
                l = Limit /\ n = tick.ns /\ m = Newest.ns /\ t = tick.total /\ w = Newest.total
          BY <1>n, <2>2
        <5>3. n - m = t - w /\ l >= 0 /\ m >= 0
          BY <1>n, <3>1, <3>3, <5>1, <5>2
        <5>4. l + n >= t - w
          BY ONLY <5>3, l \in Int, n \in Int, m \in Int, t \in Int, w \in Int
        <5> QED
          BY <1>2, <3>1, <3>5, <4>1, <5>2, <5>4 DEF Counted
      <4>2. CASE ~restartedBetween(Newest, r)
        <5>1. Used(Newest, r) = tick.total - Newest.total
          BY <1>2, <3>1, <3>3, <4>2 DEF Used
        <5>2. tick.total - Newest.total \in Int
          BY <1>n, <2>2
        <5> QED
          BY <1>2, <3>1, <5>1, <5>2 DEF Counted
      <4> QED
        BY <4>1, <4>2
    <3>4. CASE tick.boot # Newest.boot
      <4>4. RestartShows(Newest, r) => Used(Newest, r) = Limit + tick.ns
        BY <1>2, <3>4, <3>5 DEF RestartShows
      <4>5. tick.boot <= Newest.boot + 1 => tick.boot = Newest.boot + 1
        <5>1. tick.boot \in Int /\ Newest.boot \in Int
          BY <1>n, <2>2
        <5>2. Newest.boot <= tick.boot
          BY <3>1
        <5> QED
          BY ONLY <3>4, <5>1, <5>2
      <4>6. tick.boot <= Newest.boot + 1 /\ ~seen.skipped
              => Limit + tick.ns >= tick.total - Newest.total
        BY <1>n, <2>2, <3>1, <4>5
      <4> QED
        BY <1>2, <3>1, <4>4, <4>6 DEF Counted
    <3> QED
      BY <3>3, <3>4
  <2>3. ASSUME NEW j \in 2..Len(samples')
        PROVE  Counted(samples'[j - 1], samples'[j])
    <3>1. CASE j \in 2..Len(samples)
      BY <2>1, <3>1
    <3>2. CASE j \notin 2..Len(samples)
      <4>1. Len(samples) > 0 /\ j = Len(samples) + 1 /\ j - 1 \in 1..Len(samples)
            /\ j - 1 = Len(samples)
        BY <1>n, <1>5, <3>2
      <4>2. samples'[j - 1] = Newest /\ samples'[j] = r
        BY <1>5, <4>1 DEF Newest
      <4> QED
        BY <2>2, <4>1, <4>2
    <3> QED
      BY <3>1, <3>2
  <2> QED
    BY <1>3, <2>3 DEF PairsCount, Counted, Used, RestartShows, restartedBetween, NoMarker,
       Limit
<1>11. ReadingCounts' /\ UseIsBounded'
  <2>1. UseIsBounded'
    BY <1>3, <1>7 DEF UsedInv, UseIsBounded
  <2> QED
    BY <1>7, <2>1 DEF ReadingCounts
<1> QED
  BY <1>9, <1>10, <1>11 DEF UsedInv

LEMMA UsedInvKeeps ==
    ASSUME GuardTypes, RestTypes, InOrder, UsedInv,
           [GuardNext]_guardVars
    PROVE  UsedInv'
<1>1. CASE recordSample /\ row.state = "running"
  BY <1>1, RecordUses
<1>2. CASE minute \/ (readUsage /\ inst.on)
  BY <1>2, MinuteUses
<1>3. CASE work \/ reboot \/ startInstance
  BY <1>3, InstanceUses
<1>4. CASE ~ (recordSample /\ row.state = "running")
           /\ ~ (minute \/ (readUsage /\ inst.on))
           /\ ~ (work \/ reboot \/ startInstance)
  <2>1. \/ usageReadFails \/ judge \/ decide \/ syncAllowance
        \/ syncFails \/ workerCrash
        \/ (readUsage /\ ~inst.on)
        \/ (recordSample /\ row.state # "running")
        \/ beginStop \/ instanceStops \/ stopRecorded
        \/ clearGuardAtStop \/ clearSamples \/ beginStart
        \/ liftThrottle \/ clearMemoryFlag \/ setLimits
        \/ UNCHANGED guardVars
    BY <1>4, Zenon DEF GuardNext
  <2> QED
    BY <2>1, IdleUses
<1> QED
  BY <1>1, <1>2, <1>3, <1>4

LEMMA UsedInvStarts ==
    ASSUME GuardInit
    PROVE  UsedInv
<1>1. /\ samples = <<>> /\ tick.pc = "idle"
      /\ inst = [on |-> TRUE, ns |-> 0, boot |-> 0, marker |-> FirstMarker, allowance |-> 0,
               used |-> 0]
      /\ Limit \in Nat
  BY IdleTick, WorldsAssumption DEF GuardInit, Limit, Numbers
<1> QED
  BY <1>1 DEF UsedInv, PairsCount, NewestCounts, ReadingCounts, UseIsBounded

(* The sum over the samples since sample i, which is defined along them, is what
   its definition says. *)
SumTo(i, k, f) ==
    f = [j \in i..k |->
           IF j = i THEN 0 ELSE f[j - 1] + Used(samples[j - 1], samples[j])]

LEMMA SumExists ==
    ASSUME NEW i \in 1..Len(samples), Len(samples) \in Nat
    PROVE  \E f : SumTo(i, Len(samples), f)
<1> DEFINE n == Len(samples)
           without == {k \in Nat : i <= k /\ k <= n /\ ~ \E f : SumTo(i, k, f)}
<1>n. n \in Nat /\ i \in Nat /\ 1 <= i /\ i <= n
  OBVIOUS
<1>1. SUFFICES ASSUME without # {}
               PROVE  FALSE
  BY <1>n
<1>2. PICK k \in without : \A m \in without : k <= m
  BY <1>1, LeastOf
<1>3. CASE k = i
  <2>1. SumTo(i, k, [j \in i..k |-> 0])
    BY <1>n, <1>3 DEF SumTo
  <2> QED
    BY <1>2, <2>1
<1>4. CASE k # i
  <2>1. k - 1 \in Nat /\ i <= k - 1 /\ k - 1 <= n /\ ~ (k <= k - 1)
    BY <1>n, <1>2, <1>4
  <2>2. PICK f : SumTo(i, k - 1, f)
    BY <1>2, <2>1
  <2>3. PICK g : g = [j \in i..k |-> IF j = i THEN 0
                        ELSE f[j - 1] + Used(samples[j - 1], samples[j])]
    OBVIOUS
  <2>4. ASSUME NEW j \in i..(k - 1)
        PROVE  g[j] = f[j]
    <3>1. j \in i..k
      BY <1>n, <1>2, <2>1
    <3> QED
      BY <2>2, <2>3, <3>1 DEF SumTo
  <2>5. \A j \in i..k : j # i => g[j - 1] = f[j - 1]
    BY <1>n, <1>2, <2>1, <2>4
  <2>6. g = [j \in i..k |-> IF j = i THEN 0
                ELSE g[j - 1] + Used(samples[j - 1], samples[j])]
    BY <2>3, <2>5
  <2> QED
    BY <1>2, <2>6 DEF SumTo
<1> QED
  BY <1>3, <1>4

LEMMA UsedSinceIs ==
    ASSUME NEW i \in 1..Len(samples), Len(samples) \in Nat
    PROVE  \E f : SumTo(i, Len(samples), f) /\ UsedSince[i] = f[Len(samples)]
<1> DEFINE g == CHOOSE f : f = [j \in i..Len(samples) |->
                  IF j = i THEN 0 ELSE f[j - 1] + Used(samples[j - 1], samples[j])]
<1>1. \E f : f = [j \in i..Len(samples) |->
                  IF j = i THEN 0 ELSE f[j - 1] + Used(samples[j - 1], samples[j])]
  BY SumExists DEF SumTo
<1>2. g = [j \in i..Len(samples) |->
              IF j = i THEN 0 ELSE g[j - 1] + Used(samples[j - 1], samples[j])]
  BY <1>1, Zenon
<1>3. UsedSince[i] = g[Len(samples)]
  BY Zenon DEF UsedSince
<1> QED
  BY <1>2, <1>3, Zenon DEF SumTo

(* What is counted pair by pair is counted in sum. *)
LEMMA SumCounts ==
    ASSUME GuardTypes, RestTypes, UsedInv
    PROVE  NeverHides
<1>n. /\ Len(samples) \in Nat /\ Limit \in Nat
      /\ \A j \in 1..Len(samples) :
            /\ samples[j].at \in Nat /\ samples[j].ns \in Int /\ samples[j].boot \in Int
            /\ samples[j].total \in Int /\ samples[j].late \in BOOLEAN
  BY UsedNumbers
<1>1. SUFFICES ASSUME NEW i \in 1..Len(samples), Followed(i)
               PROVE  UsedSince[i] >= samples[Len(samples)].total - samples[i].total
  BY DEF NeverHides, Counts
<1> DEFINE n == Len(samples)
           Use(j) == Used(samples[j - 1], samples[j])
           total(j) == samples[j].total
<1>2. PICK f : SumTo(i, n, f) /\ UsedSince[i] = f[n]
  BY <1>n, UsedSinceIs
<1>i. n \in Nat /\ i \in Nat /\ 1 <= i /\ i <= n
  BY <1>n
<1>3. /\ f[i] = 0
      /\ \A j \in i + 1..n : f[j] = f[j - 1] + Use(j)
  <2>1. f = [j \in i..n |-> IF j = i THEN 0 ELSE f[j - 1] + Use(j)]
    BY <1>2 DEF SumTo
  <2>2. i \in i..n /\ \A j \in i + 1..n : j \in i..n /\ j # i
    BY ONLY <1>i
  <2> QED
    BY ONLY <2>1, <2>2
<1>4. ASSUME NEW j \in i + 1..n
      PROVE  Use(j) \in Int /\ Use(j) >= total(j) - total(j - 1)
  <2>1. j \in 2..n /\ j \in 1..n /\ j - 1 \in 1..n
    BY <1>n
  <2>2. Counted(samples[j - 1], samples[j])
    BY <2>1 DEF UsedInv, PairsCount
  <2>3. /\ ~samples[j].late /\ samples[j].boot <= samples[j - 1].boot + 1
        /\ RestartShows(samples[j - 1], samples[j])
    BY <1>1 DEF Followed
  <2>4. Use(j) >= total(j) - total(j - 1)
    BY <2>2, <2>3 DEF Counted
  <2>5. Use(j) \in Int
    <3>1. PICK a \in Int, b \in Int, c \in Int, d \in Int :
            /\ a = samples[j].ns /\ b = samples[j - 1].ns
            /\ c = samples[j].at /\ d = samples[j - 1].at
      <4>1. /\ samples[j].ns \in Int /\ samples[j - 1].ns \in Int
            /\ samples[j].at \in Int /\ samples[j - 1].at \in Int
        BY <1>n, <2>1
      <4> QED
        BY ONLY <4>1, Zenon
    <3>2. PICK m : m = IF c - d < 1 THEN c - d ELSE 1
      OBVIOUS
    <3>m. m \in Int
      BY ONLY <3>2, c \in Int, d \in Int
    <3>3. a + m * Limit \in Int /\ a - b \in Int
      BY ONLY <1>n, <3>m, a \in Int, b \in Int
    <3> QED
      BY <3>1, <3>2, <3>3 DEF Used
  <2> QED
    BY <2>4, <2>5
<1> DEFINE less == {k \in Nat : /\ i <= k /\ k <= n
                                /\ ~ (f[k] \in Int /\ f[k] >= total(k) - total(i))}
<1>5. less = {}
  <2>1. SUFFICES ASSUME less # {}
                 PROVE  FALSE
    OBVIOUS
  <2>2. PICK k \in less : \A m \in less : k <= m
    BY <2>1, LeastOf
  <2>3. k # i
    BY <1>n, <1>3, <2>2
  <2>4. k \in i + 1..n /\ k - 1 \in Nat /\ i <= k - 1 /\ k - 1 <= n /\ ~ (k <= k - 1)
        /\ k \in 1..n /\ k - 1 \in 1..n
    BY <1>n, <2>2, <2>3
  <2>5. f[k - 1] \in Int /\ f[k - 1] >= total(k - 1) - total(i)
    BY <2>2, <2>4
  <2>6. f[k] = f[k - 1] + Use(k) /\ Use(k) \in Int /\ Use(k) >= total(k) - total(k - 1)
    BY <1>3, <1>4, <2>4
  <2>7. PICK a \in Int, b \in Int, c \in Int, u \in Int, v \in Int :
          a = total(k) /\ b = total(k - 1) /\ c = total(i) /\ u = Use(k) /\ v = f[k - 1]
    BY <1>n, <2>4, <2>5, <2>6
  <2>8. v >= b - c /\ u >= a - b => v + u \in Int /\ v + u >= a - c
    OBVIOUS
  <2> QED
    BY <2>2, <2>5, <2>6, <2>7, <2>8
<1>6. n \notin less /\ n \in Nat /\ i <= n
  BY <1>n, <1>5
<1> QED
  BY <1>2, <1>6

(* A reboot or a restart hides nothing from the guard: what it counts since a
   sample is at least what was really used since, when no interval's end and no
   boot went by unsampled and every restart shows (averageCpu,
   restartedBetween). *)
THEOREM NothingIsHidden == GuardSpec => []NeverHides
<1>1. GuardInit => GuardInv /\ SampleInv /\ UsedInv
  <2>1. GuardInit => GuardInv
    BY DEF GuardInit, GuardInv, GuardTypes, GuardRows, RecentIsEnough, HeldExactly,
       Throttled, NoThrottle
  <2> QED
    BY <2>1, SampleInvStarts, UsedInvStarts
<1>2. GuardInv /\ SampleInv /\ UsedInv /\ [GuardNext]_guardVars
        => (GuardInv /\ SampleInv /\ UsedInv)'
  BY GuardKeeps, SampleInvKeeps, UsedInvKeeps DEF GuardInv, SampleInv
<1>3. GuardInv /\ SampleInv /\ UsedInv => NeverHides
  BY SumCounts DEF GuardInv, SampleInv
<1> QED
  BY <1>1, <1>2, <1>3, PTL DEF GuardSpec
=============================================================================
