---------------------- MODULE WorkspaceLifecycle_proofs ----------------------
(***************************************************************************)
(* Theorems about WorkspaceLifecycle, for any number of workspaces, slots, *)
(* retries, requests and faults.                                           *)
(*                                                                         *)
(* The invariant that is inductive is IInv: the types, that track has not  *)
(* thrown, that what the sweep picked is free of calls, and that a picked  *)
(* retry is within its bound.  The proof separates the steps that begin    *)
(* calls (the sweep's) from all others, which can only end calls and can   *)
(* only reset retries (Passive).                                           *)
(*                                                                         *)
(* A second invariant, AInv, relates what the database says of a workspace *)
(* to what the controller did with its instance: it is what makes the row  *)
(* tell the truth and the agent hold the token of its row.                 *)
(*                                                                         *)
(* A third, Unborn, says that nothing has happened to a workspace which    *)
(* does not exist yet: with it a wish to run outlives the stops that were  *)
(* decided before it.                                                      *)
(***************************************************************************)
EXTENDS WorkspaceLifecycle, TLAPS

IInv == TypeOK /\ OneCallAtATime /\ PickedStayFree /\ RetriesLeft

-----------------------------------------------------------------------------
(* Rows *)

(* x is a row, with the retries of r or none. *)
Keeps(r, x) == x \in Row /\ x.startRetries \in {0, r.startRetries}

(* The values startRetries is given. *)
LEMMA RetryCounts ==
    /\ 0 \in 0..MaxStartRetries
    /\ \A n \in 0..MaxStartRetries :
         n < MaxStartRetries => 0 < MaxStartRetries /\ n + 1 \in 0..MaxStartRetries
BY MaxStartRetriesAssumption

(* The worker's statements other than moveToStarting. *)
LEMMA WorkerRows ==
    ASSUME NEW r \in Row
    PROVE  /\ Keeps(r, r)
           /\ Keeps(r, clearGuardAtStop(r))
           /\ Keeps(r, startedNow(r))
           /\ Keeps(r, stopDone(r))
           /\ Keeps(r, clearGuardAtStop(stopDone(r)))
           /\ Keeps(r, failedWith(r, "failed"))
           /\ Keeps(r, failedWith(r, "STOP_FAILED"))
           /\ Keeps(r, stopUnwanted(r))
           /\ Keeps(r, provisioned(r))
           /\ Keeps(r, createRefused(r))
           /\ Keeps(r, operationDone(r))
           /\ Keeps(r, operationFailed(r))
           /\ Keeps(r, observedStopped(r))
           /\ Keeps(r, instanceMissing(r))
           /\ Keeps(r, stopErrored(r))
<1> USE RetryCounts
<1> USE DEF Keeps, Row, States, DesiredStates, ErrorCodes, PendingOperations
<1>1. Keeps(r, r) /\ Keeps(r, clearGuardAtStop(r))
  BY DEF clearGuardAtStop
<1>2. Keeps(r, startedNow(r))
  BY DEF startedNow
<1>3. Keeps(r, stopDone(r)) /\ Keeps(r, clearGuardAtStop(stopDone(r)))
  <2>1. Keeps(r, stopDone(r))
    BY DEF stopDone, settleRestarting
  <2>2. ASSUME NEW q, Keeps(r, q)
        PROVE  Keeps(r, clearGuardAtStop(q))
    BY <2>2 DEF clearGuardAtStop
  <2> QED
    BY ONLY <2>1, <2>2
<1>4. Keeps(r, failedWith(r, "failed")) /\ Keeps(r, failedWith(r, "STOP_FAILED"))
  BY DEF failedWith
<1>5. Keeps(r, stopUnwanted(r))
  BY DEF stopUnwanted
<1>6. Keeps(r, provisioned(r)) /\ Keeps(r, createRefused(r))
  BY DEF provisioned, createRefused
<1>7. Keeps(r, operationDone(r))
  BY DEF operationDone
<1>8. Keeps(r, operationFailed(r))
  BY DEF operationFailed, failedWith
<1>9. Keeps(r, observedStopped(r))
  BY DEF observedStopped, clearGuardAtStop
<1>10. Keeps(r, instanceMissing(r))
  BY DEF instanceMissing, failedWith, clearGuardAtStop
<1>11. Keeps(r, stopErrored(r))
  BY DEF stopErrored
<1> QED
  BY <1>1, <1>2, <1>3, <1>4, <1>5, <1>6, <1>7, <1>8, <1>9, <1>10, <1>11

(* The statements that set a column to a value read elsewhere. *)
LEMMA ColumnRows ==
    ASSUME NEW r \in Row
    PROVE  /\ \A s \in States : Keeps(r, [r EXCEPT !.state = s])
           /\ \A s \in States : Keeps(r, replaceRefused(r, s))
           /\ \A b \in BOOLEAN : Keeps(r, [r EXCEPT !.deadline = b])
           /\ \A b \in BOOLEAN : Keeps(r, [r EXCEPT !.idleStop = b])
           /\ Keeps(r, [r EXCEPT !.disconnected = TRUE])
           /\ Keeps(r, [r EXCEPT !.disconnected = FALSE, !.deadline = FALSE])
BY DEF Keeps, Row, replaceRefused, PendingOperations

(* A start keeps the row well-formed if the bound allows a retry. *)
LEMMA StartedRow ==
    ASSUME NEW r \in Row, NEW from \in States,
           from = "error" => r.startRetries < MaxStartRetries
    PROVE  moveToStarting(r, from) \in Row
BY RetryCounts
   DEF moveToStarting, settleRestarting, Row, States, DesiredStates, ErrorCodes

(* The API's statements. *)
LEMMA ApiRows ==
    ASSUME NEW r \in Row
    PROVE  /\ \A d \in DesiredStates : Keeps(r, setDesired(r, d))
           /\ Keeps(r, presenceOpened(r))
           /\ Keeps(r, archive(r))
           /\ Keeps(r, unarchive(r))
           /\ Keeps(r, ownerDisabled(r))
           /\ Keeps(r, reprovision(r))
           /\ \A op \in Operations : Keeps(r, requestPendingOperation(r, op))
           /\ Keeps(r, activity(r))
<1> USE RetryCounts
<1> USE DEF Keeps, Row, States, DesiredStates, ErrorCodes, PendingOperations
<1>1. ASSUME NEW d \in DesiredStates PROVE Keeps(r, setDesired(r, d))
  BY DEF setDesired
<1>2. Keeps(r, presenceOpened(r))
  BY DEF presenceOpened
<1>3. Keeps(r, archive(r)) /\ Keeps(r, unarchive(r))
  BY DEF archive, unarchive
<1>4. Keeps(r, ownerDisabled(r)) /\ Keeps(r, reprovision(r))
  BY DEF ownerDisabled, reprovision
<1>5. \A op \in Operations : Keeps(r, requestPendingOperation(r, op))
  BY DEF requestPendingOperation
<1>6. Keeps(r, activity(r))
  BY DEF activity
<1> QED
  BY <1>1, <1>2, <1>3, <1>4, <1>5, <1>6

(* A row that POST /workspaces inserts. *)
LEMMA InsertedRow == NoRow \in Row /\ NewRow \in Row /\ NewRow.startRetries = 0
BY RetryCounts DEF NewRow, NoRow, Row, States, DesiredStates, ErrorCodes, PendingOperations
-----------------------------------------------------------------------------
(* The steps that begin no call *)

RowsKept ==
    /\ row' \in [Workspaces -> Row]
    /\ \A w \in Workspaces : row'[w].startRetries \in {0, row[w].startRetries}

Passive ==
    /\ TypeOK'
    /\ RowsKept
    /\ InFlight' \subseteq InFlight
    /\ UNCHANGED <<pc, picked, heldOut, doubleCall>>

(* A passive step keeps the invariant. *)
LEMMA PassiveStep == IInv /\ Passive => IInv'
<1> SUFFICES ASSUME IInv, Passive PROVE IInv'
  OBVIOUS
<1>1. OneCallAtATime'
  BY DEF IInv, Passive, OneCallAtATime
<1>2. PickedStayFree'
  BY DEF IInv, Passive, PickedStayFree
<1>3. RetriesLeft'
  <2> SUFFICES ASSUME pc = "retry act", NEW w \in picked
               PROVE  row'[w].startRetries < MaxStartRetries
    BY DEF RetriesLeft, Passive
  <2>1. w \in Workspaces /\ row[w].startRetries \in 0..MaxStartRetries
    BY DEF IInv, TypeOK, Row
  <2>2. row[w].startRetries < MaxStartRetries
    BY DEF IInv, RetriesLeft
  <2>3. row'[w].startRetries = 0 \/ row'[w].startRetries = row[w].startRetries
    BY <2>1 DEF Passive, RowsKept
  <2> QED
    BY <2>1, <2>2, <2>3, RetryCounts
<1> QED
  BY <1>1, <1>2, <1>3 DEF IInv, Passive

(* Writing one row, or none. *)
LEMMA OneRowKept ==
    ASSUME row \in [Workspaces -> Row], NEW w \in Workspaces
    PROVE  /\ UNCHANGED row => RowsKept
           /\ \A x : Keeps(row[w], x) /\ row' = [row EXCEPT ![w] = x] => RowsKept
           /\ \A from, x : Keeps(row[w], x) /\ casUpdate(w, from, x) => RowsKept
BY DEF RowsKept, Keeps, casUpdate

(* Ending one call, or moving it to another phase, begins none. *)
LEMMA OneCallKept ==
    ASSUME call \in [Workspaces -> Call], NEW w \in Workspaces
    PROVE  /\ UNCHANGED call => call' \in [Workspaces -> Call] /\ InFlight' = InFlight
           /\ CallEnds(w) => call' \in [Workspaces -> Call] /\ InFlight' \subseteq InFlight
           /\ \A p \in Phases :
                call[w].phase \in Phases /\ call' = [call EXCEPT ![w].phase = p] =>
                  call' \in [Workspaces -> Call] /\ InFlight' = InFlight
<1>1. UNCHANGED call => call' \in [Workspaces -> Call] /\ InFlight' = InFlight
  BY DEF InFlight
<1>2. CallEnds(w) => call' \in [Workspaces -> Call] /\ InFlight' \subseteq InFlight
  BY DEF CallEnds, InFlight, NoCall, Call, States, PendingOperations
<1>3. ASSUME NEW p \in Phases, call[w].phase \in Phases,
             call' = [call EXCEPT ![w].phase = p]
      PROVE  call' \in [Workspaces -> Call] /\ InFlight' = InFlight
  BY <1>3 DEF InFlight, Call, NoCall, Phases
<1> QED
  BY <1>1, <1>2, <1>3

(* The worker's background calls. *)
LEMMA CallsPassive ==
    ASSUME IInv, NEW w \in Workspaces, Calls(w) \/ GiveUp(w)
    PROVE  Passive
<1> USE DEF IInv
<1> row[w] \in Row /\ row \in [Workspaces -> Row] /\ call \in [Workspaces -> Call]
  BY DEF TypeOK
<1>1. CASE BeginCall(w)
  BY <1>1, OneRowKept, OneCallKept
  DEF BeginCall, Passive, TypeOK, Phases, TokenPlaces, apiVars, sweepVars, ghostVars, boundVars
<1>2. CASE SendCall(w)
  <2>1. call' \in [Workspaces -> Call] /\ InFlight' \subseteq InFlight
    BY <1>2, OneCallKept DEF SendCall, Phases
  <2>2. call[w].kind \in Kinds
    BY <1>2 DEF SendCall, Call, NoCall
  <2>3. ctl' \in [Workspaces -> SUBSET Work]
    BY <1>2, <2>2 DEF SendCall, TypeOK, Kinds, Work, StartWork
  <2>4. token' \in [Workspaces -> SUBSET TokenPlaces]
    BY <1>2 DEF SendCall, TypeOK, TokenPlaces
  <2> QED
    BY <1>2, <2>1, <2>3, <2>4, OneRowKept
    DEF SendCall, Passive, TypeOK, apiVars, sweepVars, ghostVars, boundVars
<1>3. CASE createWorkspace(w)
  <2>1. RowsKept
    BY <1>3, OneRowKept, WorkerRows DEF createWorkspace
  <2> QED
    BY <1>3, <2>1, OneCallKept
    DEF createWorkspace, Passive, RowsKept, TypeOK, apiVars, ctlVars, sweepVars, ghostVars, boundVars
<1>4. CASE startInstance(w)
  <2>1. RowsKept
    BY <1>4, OneRowKept, WorkerRows DEF startInstance
  <2> QED
    BY <1>4, <2>1, OneCallKept
    DEF startInstance, Passive, RowsKept, TypeOK, apiVars, ctlVars, sweepVars, ghostVars, boundVars
<1>5. CASE doStop(w)
  <2>1. RowsKept
    BY <1>5, OneRowKept, WorkerRows DEF doStop
  <2> QED
    BY <1>5, <2>1, OneCallKept
    DEF doStop, Passive, RowsKept, TypeOK, apiVars, ctlVars, sweepVars, boundVars
<1>6. CASE runOperation(w)
  <2>1. RowsKept
    BY <1>6, OneRowKept, WorkerRows DEF runOperation
  <2> QED
    BY <1>6, <2>1, OneCallKept
    DEF runOperation, Passive, RowsKept, TypeOK, apiVars, ctlVars, sweepVars, ghostVars, boundVars
<1>7. CASE runReplaceHomeEarly(w)
  <2>1. RowsKept
    <3>1. call[w].from \in States
      BY DEF Call, NoCall, States
    <3>2. Keeps(row[w], replaceRefused(row[w], call[w].from)) /\ Keeps(row[w], row[w])
      BY <3>1, WorkerRows, ColumnRows
    <3> QED
      BY <1>7, <3>2, OneRowKept DEF runReplaceHomeEarly
  <2> QED
    BY <1>7, <2>1, OneCallKept
    DEF runReplaceHomeEarly, Passive, RowsKept, TypeOK, apiVars, ctlVars, sweepVars, ghostVars, boundVars
<1>8. CASE runReplaceHome(w)
  <2>1. RowsKept
    <3>1. call[w].from \in States
      BY DEF Call, NoCall, States
    <3>2. /\ Keeps(row[w], replaceRefused(row[w], call[w].from))
          /\ Keeps(row[w], operationDone(row[w]))
          /\ Keeps(row[w], operationFailed(row[w]))
          /\ Keeps(row[w], row[w])
      BY <3>1, WorkerRows, ColumnRows
    <3>3. PICK r : Keeps(row[w], r) /\ row' = [row EXCEPT ![w] = r]
      BY <1>8, <3>2 DEF runReplaceHome
    <3> QED
      BY <3>3, OneRowKept
  <2> QED
    BY <1>8, <2>1, OneCallKept
    DEF runReplaceHome, Passive, RowsKept, TypeOK, apiVars, ctlVars, sweepVars, ghostVars, boundVars
<1>9. CASE GiveUp(w)
  <2>1. call' \in [Workspaces -> Call] /\ InFlight' \subseteq InFlight
    BY <1>9 DEF GiveUp, InFlight, Call, NoCall, Phases, States, PendingOperations
  <2> QED
    BY <1>9, <2>1, OneRowKept
    DEF GiveUp, Passive, TypeOK, apiVars, ctlVars, sweepVars, boundVars
<1>10. CASE createAgain(w)
  <2>1. call' \in [Workspaces -> Call] /\ InFlight' \subseteq InFlight
    BY <1>10, OneCallKept DEF createAgain, Phases
  <2> QED
    BY <1>10, <2>1, OneRowKept
    DEF createAgain, Passive, TypeOK, apiVars, ctlVars, sweepVars, ghostVars, boundVars
<1> QED
  BY <1>1, <1>2, <1>3, <1>4, <1>5, <1>6, <1>7, <1>8, <1>9, <1>10 DEF Calls

(* An answer of the controller moves the call that waits for it, and writes
   no row. *)
LEMMA AnswerPassive ==
    ASSUME IInv, NEW w \in Workspaces, NEW kind \in Kinds,
           NEW done \in SUBSET Work, NEW answer \in Phases,
           Answer(w, kind, done, answer)
    PROVE  /\ RowsKept
           /\ call' \in [Workspaces -> Call]
           /\ InFlight' \subseteq InFlight
           /\ ctl' \in [Workspaces -> SUBSET Work]
<1>1. call \in [Workspaces -> Call] /\ row \in [Workspaces -> Row]
  BY DEF IInv, TypeOK
<1>2. RowsKept
  BY <1>1, OneRowKept DEF Answer
<1>3. call' \in [Workspaces -> Call] /\ InFlight' \subseteq InFlight
  BY <1>1, OneCallKept DEF Answer, Phases
<1>4. ctl' \in [Workspaces -> SUBSET Work]
  BY DEF IInv, TypeOK, Answer
<1> QED
  BY <1>2, <1>3, <1>4

(* The controller's work and changes from outside. *)
LEMMA ControllerPassive ==
    ASSUME IInv, NEW w \in Workspaces, Controller(w) \/ OutsideChange(w)
    PROVE  Passive
<1> USE DEF IInv
<1> row \in [Workspaces -> Row] /\ call \in [Workspaces -> Call]
  BY DEF TypeOK
<1> {"create"} \in SUBSET Work /\ {"stop"} \in SUBSET Work
    /\ {"operate"} \in SUBSET Work /\ StartWork \in SUBSET Work
  BY DEF Work
<1> DEFINE Ends(kind, done) ==
      \E answer \in {"ok", "failed", "full"} : Answer(w, kind, done, answer)
<1>0. ASSUME NEW kind \in Kinds, NEW done \in SUBSET Work, Ends(kind, done),
             inst' \in [Workspaces -> Statuses],
             token' \in [Workspaces -> SUBSET TokenPlaces],
             adopted' \in [Workspaces -> BOOLEAN],
             disturbed' \in [Workspaces -> BOOLEAN]
      PROVE  Passive
  <2> PICK answer \in {"ok", "failed", "full"} : Answer(w, kind, done, answer)
    BY <1>0
  <2>1. /\ RowsKept
        /\ call' \in [Workspaces -> Call]
        /\ InFlight' \subseteq InFlight
        /\ ctl' \in [Workspaces -> SUBSET Work]
    <3>1. answer \in Phases
      BY DEF Phases
    <3> QED
      BY <3>1, AnswerPassive
  <2> QED
    BY <1>0, <2>1 DEF Answer, Passive, RowsKept, TypeOK, apiVars, sweepVars, boundVars
<1>1. CASE controllerCreate(w)
  <2>1. Ends("create", {"create"})
    BY <1>1 DEF controllerCreate
  <2>2. inst' \in [Workspaces -> Statuses] /\ token' \in [Workspaces -> SUBSET TokenPlaces]
    BY <1>1 DEF controllerCreate, TypeOK, Statuses
  <2>3. adopted' \in [Workspaces -> BOOLEAN] /\ disturbed' \in [Workspaces -> BOOLEAN]
    BY <1>1 DEF controllerCreate, TypeOK
  <2> QED
    BY <1>0, <2>1, <2>2, <2>3 DEF Kinds
<1>2. CASE controllerPrepare(w)
  <2>1. inst' \in [Workspaces -> Statuses]
    BY <1>2 DEF controllerPrepare, TypeOK, Statuses
  <2>2. ctl' \in [Workspaces -> SUBSET Work]
    BY <1>2 DEF controllerPrepare, TypeOK, Work, StartWork
  <2>3. token' \in [Workspaces -> SUBSET TokenPlaces]
    BY <1>2 DEF controllerPrepare, TypeOK, TokenPlaces
  <2> QED
    BY <1>2, <2>1, <2>2, <2>3, OneRowKept, OneCallKept
    DEF controllerPrepare, Passive, TypeOK, apiVars, sweepVars, ghostVars, boundVars
<1>3. CASE controllerBoot(w)
  <2>1. inst' \in [Workspaces -> Statuses]
    BY <1>3 DEF controllerBoot, TypeOK, Statuses
  <2>2. ctl' \in [Workspaces -> SUBSET Work]
    BY <1>3 DEF controllerBoot, TypeOK, Work, StartWork
  <2> QED
    BY <1>3, <2>1, <2>2, OneRowKept, OneCallKept
    DEF controllerBoot, Passive, TypeOK, apiVars, sweepVars, ghostVars, boundVars
<1>4. CASE controllerStarted(w)
  <2>1. Ends("start", StartWork)
    BY <1>4 DEF controllerStarted
  <2>2. inst' \in [Workspaces -> Statuses] /\ token' \in [Workspaces -> SUBSET TokenPlaces]
    BY <1>4 DEF controllerStarted, TypeOK
  <2>3. adopted' \in [Workspaces -> BOOLEAN] /\ disturbed' \in [Workspaces -> BOOLEAN]
    BY <1>4 DEF controllerStarted, Agrees, TypeOK
  <2> QED
    BY <1>0, <2>1, <2>2, <2>3 DEF Kinds
<1>5. CASE controllerStartFails(w)
  <2>1. Ends("start", StartWork)
    BY <1>5 DEF controllerStartFails
  <2>2. inst' \in [Workspaces -> Statuses] /\ token' \in [Workspaces -> SUBSET TokenPlaces]
    BY <1>5 DEF controllerStartFails, TypeOK, Statuses
  <2>3. adopted' \in [Workspaces -> BOOLEAN] /\ disturbed' \in [Workspaces -> BOOLEAN]
    BY <1>5 DEF controllerStartFails, TypeOK
  <2> QED
    BY <1>0, <2>1, <2>2, <2>3 DEF Kinds
<1>6. CASE controllerStop(w)
  <2>1. Ends("stop", {"stop"})
    BY <1>6 DEF controllerStop
  <2>2. inst' \in [Workspaces -> Statuses] /\ token' \in [Workspaces -> SUBSET TokenPlaces]
    BY <1>6 DEF controllerStop, TypeOK, Statuses
  <2>3. adopted' \in [Workspaces -> BOOLEAN] /\ disturbed' \in [Workspaces -> BOOLEAN]
    BY <1>6 DEF controllerStop, Agrees, TypeOK
  <2> QED
    BY <1>0, <2>1, <2>2, <2>3 DEF Kinds
<1>7. CASE controllerOperate(w)
  <2>1. Ends("operate", {"operate"})
    BY <1>7 DEF controllerOperate
  <2>2. /\ inst' \in [Workspaces -> Statuses]
        /\ token' \in [Workspaces -> SUBSET TokenPlaces]
        /\ adopted' \in [Workspaces -> BOOLEAN]
        /\ disturbed' \in [Workspaces -> BOOLEAN]
    BY <1>7 DEF controllerOperate, TypeOK
  <2> QED
    BY <1>0, <2>1, <2>2 DEF Kinds
<1>8. CASE OutsideChange(w)
  <2>1. inst' \in [Workspaces -> Statuses]
    BY <1>8, OutsideAssumption DEF OutsideChange, TypeOK, Statuses
  <2> QED
    BY <1>8, <2>1, OneRowKept, OneCallKept
    DEF OutsideChange, Passive, TypeOK, apiVars, sweepVars, boundVars
<1> QED
  BY <1>1, <1>2, <1>3, <1>4, <1>5, <1>6, <1>7, <1>8 DEF Controller

(* Requests of students and administrators. *)
LEMMA ApiPassive ==
    ASSUME IInv, NEW w \in Workspaces, Api(w)
    PROVE  Passive
<1> USE DEF IInv
<1> row[w] \in Row /\ row \in [Workspaces -> Row] /\ call \in [Workspaces -> Call]
  BY DEF TypeOK
<1>0. ASSUME ApiLeaves, RowsKept,
             tab' \in [Workspaces -> TabStates],
             request' \in [Workspaces -> Requests],
             stopGaveUp' \in [Workspaces -> BOOLEAN],
             env' \in Nat
      PROVE  Passive
  BY <1>0, OneCallKept
  DEF ApiLeaves, Passive, RowsKept, TypeOK, ctlVars, sweepVars, boundVars
<1>a. ASSUME Asks(w) PROVE stopGaveUp' \in [Workspaces -> BOOLEAN] /\ env' \in Nat
  BY <1>a DEF Asks, TypeOK
<1>1. CASE createRow(w)
  <2>1. RowsKept
    BY <1>1, InsertedRow, OneRowKept DEF createRow, Keeps
  <2>2. tab' \in [Workspaces -> TabStates] /\ request' \in [Workspaces -> Requests]
    BY <1>1 DEF createRow, TypeOK, apiVars
  <2>3. stopGaveUp' \in [Workspaces -> BOOLEAN] /\ env' \in Nat
    BY <1>1 DEF createRow, TypeOK
  <2> QED
    BY <1>0, <1>1, <2>1, <2>2, <2>3 DEF createRow
<1>2. CASE setDesiredRead(w)
  <2>1. RowsKept
    BY <1>2, OneRowKept DEF setDesiredRead
  <2>2. tab' \in [Workspaces -> TabStates] /\ request' \in [Workspaces -> Requests]
    BY <1>2 DEF setDesiredRead, TypeOK, apiVars, Requests
  <2>3. stopGaveUp' \in [Workspaces -> BOOLEAN] /\ env' \in Nat
    BY <1>2, <1>a DEF setDesiredRead
  <2> QED
    BY <1>0, <1>2, <2>1, <2>2, <2>3 DEF setDesiredRead
<1>3. CASE setDesiredWrite(w)
  <2>1. RowsKept
    <3>1. request[w] \in DesiredStates /\ row' = [row EXCEPT ![w] = setDesired(row[w], request[w])]
      BY <1>3 DEF setDesiredWrite, TypeOK, Requests
    <3>2. Keeps(row[w], setDesired(row[w], request[w]))
      BY <3>1, ApiRows
    <3> QED
      BY <3>1, <3>2, OneRowKept
  <2>2. tab' \in [Workspaces -> TabStates] /\ request' \in [Workspaces -> Requests]
    BY <1>3 DEF setDesiredWrite, TypeOK, apiVars, Requests
  <2>3. stopGaveUp' \in [Workspaces -> BOOLEAN] /\ env' \in Nat
    BY <1>3 DEF setDesiredWrite, TypeOK
  <2> QED
    BY <1>0, <1>3, <2>1, <2>2, <2>3 DEF setDesiredWrite
<1>4. CASE openPresenceInsert(w)
  <2>1. RowsKept
    BY <1>4, OneRowKept DEF openPresenceInsert
  <2>2. tab' \in [Workspaces -> TabStates] /\ request' \in [Workspaces -> Requests]
    BY <1>4 DEF openPresenceInsert, TypeOK, apiVars, TabStates
  <2>3. stopGaveUp' \in [Workspaces -> BOOLEAN] /\ env' \in Nat
    BY <1>4, <1>a DEF openPresenceInsert
  <2> QED
    BY <1>0, <1>4, <2>1, <2>2, <2>3 DEF openPresenceInsert
<1>5. CASE openPresenceUpdate(w)
  <2>1. RowsKept
    BY <1>5, OneRowKept, ApiRows DEF openPresenceUpdate
  <2>2. tab' \in [Workspaces -> TabStates] /\ request' \in [Workspaces -> Requests]
    BY <1>5 DEF openPresenceUpdate, TypeOK, apiVars, TabStates
  <2>3. stopGaveUp' \in [Workspaces -> BOOLEAN] /\ env' \in Nat
    BY <1>5 DEF openPresenceUpdate, TypeOK
  <2> QED
    BY <1>0, <1>5, <2>1, <2>2, <2>3 DEF openPresenceUpdate
<1>6. CASE dropPresence(w)
  <2>1. RowsKept
    BY <1>6, OneRowKept DEF dropPresence
  <2>2. tab' \in [Workspaces -> TabStates] /\ request' \in [Workspaces -> Requests]
    BY <1>6 DEF dropPresence, TypeOK, apiVars, TabStates
  <2>3. stopGaveUp' \in [Workspaces -> BOOLEAN] /\ env' \in Nat
    BY <1>6 DEF dropPresence, TypeOK
  <2> QED
    BY <1>0, <1>6, <2>1, <2>2, <2>3 DEF dropPresence
<1>7. CASE losePresence(w)
  <2>1. RowsKept
    BY <1>7, OneRowKept DEF losePresence
  <2>2. tab' \in [Workspaces -> TabStates] /\ request' \in [Workspaces -> Requests]
    BY <1>7 DEF losePresence, TypeOK, apiVars, TabStates
  <2>3. stopGaveUp' \in [Workspaces -> BOOLEAN] /\ env' \in Nat
    BY <1>7 DEF losePresence, TypeOK
  <2> QED
    BY <1>0, <1>7, <2>1, <2>2, <2>3 DEF losePresence
<1>8. CASE setArchived(w)
  <2>1. RowsKept
    BY <1>8, OneRowKept, ApiRows DEF setArchived
  <2>2. tab' \in [Workspaces -> TabStates] /\ request' \in [Workspaces -> Requests]
    BY <1>8 DEF setArchived, TypeOK, apiVars
  <2>3. stopGaveUp' \in [Workspaces -> BOOLEAN] /\ env' \in Nat
    BY <1>8, <1>a DEF setArchived
  <2> QED
    BY <1>0, <1>8, <2>1, <2>2, <2>3 DEF setArchived
<1>9. CASE disableOwner(w)
  <2>1. RowsKept
    BY <1>9, OneRowKept, ApiRows DEF disableOwner
  <2>2. tab' \in [Workspaces -> TabStates] /\ request' \in [Workspaces -> Requests]
    BY <1>9 DEF disableOwner, TypeOK, apiVars
  <2>3. stopGaveUp' \in [Workspaces -> BOOLEAN] /\ env' \in Nat
    BY <1>9, <1>a DEF disableOwner
  <2> QED
    BY <1>0, <1>9, <2>1, <2>2, <2>3 DEF disableOwner
<1>10. CASE reprovisionWorkspace(w)
  <2>1. RowsKept
    BY <1>10, OneRowKept, ApiRows DEF reprovisionWorkspace
  <2>2. tab' \in [Workspaces -> TabStates] /\ request' \in [Workspaces -> Requests]
    BY <1>10 DEF reprovisionWorkspace, TypeOK, apiVars
  <2>3. stopGaveUp' \in [Workspaces -> BOOLEAN] /\ env' \in Nat
    BY <1>10, <1>a DEF reprovisionWorkspace
  <2> QED
    BY <1>0, <1>10, <2>1, <2>2, <2>3 DEF reprovisionWorkspace
<1>11. CASE requestOperation(w)
  <2>1. RowsKept
    BY <1>11, OneRowKept, ApiRows DEF requestOperation
  <2>2. tab' \in [Workspaces -> TabStates] /\ request' \in [Workspaces -> Requests]
    BY <1>11 DEF requestOperation, TypeOK, apiVars
  <2>3. stopGaveUp' \in [Workspaces -> BOOLEAN] /\ env' \in Nat
    BY <1>11, <1>a DEF requestOperation
  <2> QED
    BY <1>0, <1>11, <2>1, <2>2, <2>3 DEF requestOperation
<1>12. CASE noteActivity(w)
  <2>1. RowsKept
    BY <1>12, OneRowKept, ApiRows DEF noteActivity
  <2>2. tab' \in [Workspaces -> TabStates] /\ request' \in [Workspaces -> Requests]
    BY <1>12 DEF noteActivity, TypeOK, apiVars
  <2>3. stopGaveUp' \in [Workspaces -> BOOLEAN] /\ env' \in Nat
    BY <1>12 DEF noteActivity, TypeOK
  <2> QED
    BY <1>0, <1>12, <2>1, <2>2, <2>3 DEF noteActivity
<1> QED
  BY <1>1, <1>2, <1>3, <1>4, <1>5, <1>6, <1>7, <1>8, <1>9, <1>10, <1>11, <1>12 DEF Api

-----------------------------------------------------------------------------
(* The sweep's steps *)

(* A call for a workspace that has none is recorded, and track does not throw. *)
LEMMA TrackFree ==
    ASSUME IInv
    PROVE  \A S \in SUBSET Workspaces, c \in [Workspaces -> Call] :
             track(S, c) /\ S \intersect InFlight = {} =>
               /\ call' \in [Workspaces -> Call]
               /\ InFlight' \subseteq InFlight \union S
               /\ doubleCall' = FALSE
<1> SUFFICES ASSUME NEW S \in SUBSET Workspaces, NEW c \in [Workspaces -> Call],
                    track(S, c), S \intersect InFlight = {}
             PROVE  /\ call' \in [Workspaces -> Call]
                    /\ InFlight' \subseteq InFlight \union S
                    /\ doubleCall' = FALSE
  OBVIOUS
<1>1. call' \in [Workspaces -> Call]
  BY DEF IInv, TypeOK, track
<1>2. InFlight' \subseteq InFlight \union S
  BY DEF track, InFlight
<1>3. doubleCall' = FALSE
  <2>1. doubleCall' = (doubleCall \/ FALSE)
    BY DEF track
  <2> QED
    BY <2>1 DEF IInv, OneCallAtATime
<1> QED
  BY <1>1, <1>2, <1>3

(* The calls the sweep makes. *)
LEMMA NewCalls ==
    ASSUME NEW kind \in Kinds, NEW from \in States, NEW op \in PendingOperations
    PROVE  NewCall(kind, from, op) \in Call
BY DEF NewCall, Call, Phases

(* The variables no step of the sweep changes. *)
SweepLeaves == UNCHANGED <<request, inst, ctl, token, adopted, disturbed, stopGaveUp, env, faults>>

(* What a step of the sweep that leads to `pc'` must show. *)
SweepKeeps ==
    /\ row' \in [Workspaces -> Row]
    /\ tab' \in [Workspaces -> TabStates]
    /\ call' \in [Workspaces -> Call]
    /\ pc' \in SweepSteps
    /\ picked' \in SUBSET Workspaces
    /\ heldOut' \in SUBSET Workspaces
    /\ listed' \in [Workspaces -> Statuses]
    /\ seen' \in [Workspaces -> Seen]
    /\ doubleCall' = FALSE
    /\ PickedStayFree'
    /\ RetriesLeft'

(* ... and why that is enough. *)
LEMMA SweepStep == IInv /\ SweepLeaves /\ SweepKeeps => IInv'
BY DEF IInv, SweepLeaves, SweepKeeps, TypeOK, OneCallAtATime

(* Warnings and their withdrawal write one column. *)
LEMMA WarnedRows ==
    ASSUME warnIdle
    PROVE  /\ \A w \in Workspaces : row'[w] \in {row[w], [row[w] EXCEPT !.idleStop = FALSE],
                                               [row[w] EXCEPT !.idleStop = TRUE]}
           /\ \E f : row' = [w \in Workspaces |-> f[w]]
<1>1. PICK withdrawn \in SUBSET {w \in Workspaces : row[w].idleStop},
           idle \in SUBSET {w \in Workspaces : row[w].state = "running"} :
        row' = [w \in Workspaces |->
                  CASE w \in withdrawn -> [row[w] EXCEPT !.idleStop = FALSE]
                    [] w \in idle \ withdrawn -> [row[w] EXCEPT !.idleStop = TRUE]
                    [] OTHER -> row[w]]
  BY DEF warnIdle
<1>3. ASSUME NEW w \in Workspaces
      PROVE  row'[w] \in {row[w], [row[w] EXCEPT !.idleStop = FALSE],
                                   [row[w] EXCEPT !.idleStop = TRUE]}
  BY <1>1
<1>4. row' = [w \in Workspaces |-> row'[w]]
  BY <1>1
<1> QED
  BY <1>3, <1>4

(* The statements on presence, deadlines and idle warnings, which write rows
   and touch no call. *)
LEMMA PresenceSteps ==
    ASSUME IInv,
           \/ expireConnections \/ stampDisconnected \/ clearDisconnected
           \/ armDeadlines \/ warnIdle
    PROVE  IInv'
<1> USE DEF IInv
<1>r. \A w \in Workspaces : row[w] \in Row
  BY DEF TypeOK
<1>d. doubleCall = FALSE
  BY DEF TypeOK, OneCallAtATime
<1>1. CASE expireConnections
  <2>1. SweepLeaves
    BY <1>1 DEF expireConnections, SweepLeaves, apiVars, ctlVars, ghostVars, boundVars
  <2>2. row' \in [Workspaces -> Row]
    BY <1>1 DEF expireConnections, TypeOK
  <2>3. SweepKeeps
    BY <1>1, <1>d, <2>2 DEF expireConnections, SweepKeeps, TypeOK, PickedStayFree, RetriesLeft,
       SweepSteps, apiVars, ctlVars, ghostVars, boundVars, TabStates
  <2> QED
    BY <2>1, <2>3, SweepStep
<1>2. CASE stampDisconnected
  <2>1. SweepLeaves
    BY <1>2 DEF stampDisconnected, SweepLeaves, apiVars, ctlVars, ghostVars, boundVars
  <2>2. row' \in [Workspaces -> Row]
    BY <1>2, <1>r, ColumnRows DEF stampDisconnected, Keeps
  <2>3. SweepKeeps
    BY <1>2, <1>d, <2>2 DEF stampDisconnected, SweepKeeps, TypeOK, PickedStayFree, RetriesLeft,
       SweepSteps, apiVars, ctlVars, ghostVars, boundVars
  <2> QED
    BY <2>1, <2>3, SweepStep
<1>3. CASE clearDisconnected
  <2>1. SweepLeaves
    BY <1>3 DEF clearDisconnected, SweepLeaves, apiVars, ctlVars, ghostVars, boundVars
  <2>2. row' \in [Workspaces -> Row]
    BY <1>3, <1>r, ColumnRows DEF clearDisconnected, Keeps
  <2>3. SweepKeeps
    BY <1>3, <1>d, <2>2 DEF clearDisconnected, SweepKeeps, TypeOK, PickedStayFree, RetriesLeft,
       SweepSteps, apiVars, ctlVars, ghostVars, boundVars
  <2> QED
    BY <2>1, <2>3, SweepStep
<1>4. CASE armDeadlines
  <2>1. SweepLeaves
    BY <1>4 DEF armDeadlines, SweepLeaves, apiVars, ctlVars, ghostVars, boundVars
  <2>2. row' \in [Workspaces -> Row]
    <3>1. PICK armed \in SUBSET Workspaces :
            row' = [w \in Workspaces |->
                      IF row[w].state = "running" /\ row[w].disconnected
                      THEN [row[w] EXCEPT !.deadline = (w \in armed)] ELSE row[w]]
      BY <1>4 DEF armDeadlines
    <3>2. ASSUME NEW w \in Workspaces
          PROVE  [row[w] EXCEPT !.deadline = (w \in armed)] \in Row
      <4>1. (w \in armed) \in BOOLEAN
        OBVIOUS
      <4> DEFINE b == w \in armed
      <4>2. b \in BOOLEAN
        BY <4>1
      <4> HIDE DEF b
      <4>3. [row[w] EXCEPT !.deadline = b] \in Row
        BY <1>r, <4>2, ColumnRows DEF Keeps
      <4> QED
        BY <4>3, Zenon DEF b
    <3> QED
      BY <1>r, <3>1, <3>2
  <2>3. SweepKeeps
    BY <1>4, <1>d, <2>2 DEF armDeadlines, SweepKeeps, TypeOK, PickedStayFree, RetriesLeft,
       SweepSteps, apiVars, ctlVars, ghostVars, boundVars
  <2> QED
    BY <2>1, <2>3, SweepStep
<1>5. CASE warnIdle
  <2>1. SweepLeaves
    BY <1>5 DEF warnIdle, SweepLeaves, apiVars, ctlVars, ghostVars, boundVars
  <2>2. row' \in [Workspaces -> Row]
    <3>1. /\ \A w \in Workspaces : row'[w] \in {row[w], [row[w] EXCEPT !.idleStop = FALSE],
                                                [row[w] EXCEPT !.idleStop = TRUE]}
          /\ \E f : row' = [w \in Workspaces |-> f[w]]
      BY <1>5, WarnedRows
    <3>2. \A w \in Workspaces : /\ [row[w] EXCEPT !.idleStop = FALSE] \in Row
                               /\ [row[w] EXCEPT !.idleStop = TRUE] \in Row
      BY <1>r, ColumnRows DEF Keeps
    <3> QED
      BY <1>r, <3>1, <3>2
  <2>3. SweepKeeps
    BY <1>5, <1>d, <2>2 DEF warnIdle, SweepKeeps, TypeOK, PickedStayFree, RetriesLeft,
       SweepSteps, apiVars, ctlVars, ghostVars, boundVars
  <2> QED
    BY <2>1, <2>3, SweepStep
<1> QED
  BY <1>1, <1>2, <1>3, <1>4, <1>5

(* The selects: what is picked has no call in flight. *)
LEMMA SelectSteps ==
    ASSUME IInv,
           \/ startStopped \/ stopRunning \/ stopForOperation \/ stopAfterGrace
           \/ retryErrored \/ skipRefresh \/ beginRefresh \/ listInstances \/ readTracked
    PROVE  IInv'
<1> USE DEF IInv
<1>d. doubleCall = FALSE
  BY DEF TypeOK, OneCallAtATime
<1>1. CASE startStopped
  <2>1. SweepLeaves
    BY <1>1 DEF startStopped, SweepLeaves, apiVars, ctlVars, ghostVars, boundVars
  <2>2. PickedStayFree'
    BY <1>1 DEF startStopped, PickedStayFree, InFlight, Select
  <2>3. RetriesLeft'
    BY <1>1 DEF startStopped, RetriesLeft, Select
  <2>4. SweepKeeps
    BY <1>1, <1>d, <2>2, <2>3 DEF startStopped, SweepKeeps, TypeOK, InFlight,
       SweepSteps, apiVars, ctlVars, ghostVars, boundVars, Select
  <2> QED
    BY <2>1, <2>4, SweepStep
<1>2. CASE stopRunning
  <2>1. SweepLeaves
    BY <1>2 DEF stopRunning, SweepLeaves, apiVars, ctlVars, ghostVars, boundVars
  <2>2. PickedStayFree'
    BY <1>2 DEF stopRunning, PickedStayFree, InFlight, Select
  <2>3. RetriesLeft'
    BY <1>2 DEF stopRunning, RetriesLeft, Select
  <2>4. SweepKeeps
    BY <1>2, <1>d, <2>2, <2>3 DEF stopRunning, SweepKeeps, TypeOK, InFlight,
       SweepSteps, apiVars, ctlVars, ghostVars, boundVars, Select
  <2> QED
    BY <2>1, <2>4, SweepStep
<1>3. CASE stopForOperation
  <2>1. SweepLeaves
    BY <1>3 DEF stopForOperation, SweepLeaves, apiVars, ctlVars, ghostVars, boundVars
  <2>2. PickedStayFree'
    BY <1>3 DEF stopForOperation, PickedStayFree, InFlight, Select
  <2>3. RetriesLeft'
    BY <1>3 DEF stopForOperation, RetriesLeft, Select
  <2>4. SweepKeeps
    BY <1>3, <1>d, <2>2, <2>3 DEF stopForOperation, SweepKeeps, TypeOK, InFlight,
       SweepSteps, apiVars, ctlVars, ghostVars, boundVars, Select
  <2> QED
    BY <2>1, <2>4, SweepStep
<1>4. CASE retryErrored
  <2>1. SweepLeaves
    BY <1>4 DEF retryErrored, SweepLeaves, apiVars, ctlVars, ghostVars, boundVars
  <2>2. PickedStayFree'
    BY <1>4 DEF retryErrored, PickedStayFree, InFlight, Select, toRetry
  <2>3. RetriesLeft'
    BY <1>4 DEF retryErrored, RetriesLeft, Select, toRetry
  <2>4. SweepKeeps
    BY <1>4, <1>d, <2>2, <2>3 DEF retryErrored, SweepKeeps, TypeOK, InFlight,
       SweepSteps, apiVars, ctlVars, ghostVars, boundVars, Select, toRetry
  <2> QED
    BY <2>1, <2>4, SweepStep
<1>5. CASE skipRefresh
  <2>1. SweepLeaves
    BY <1>5 DEF skipRefresh, SweepLeaves, apiVars, ctlVars, ghostVars, boundVars
  <2>2. PickedStayFree'
    BY <1>5 DEF skipRefresh, PickedStayFree, InFlight
  <2>3. RetriesLeft'
    BY <1>5 DEF skipRefresh, RetriesLeft
  <2>4. SweepKeeps
    BY <1>5, <1>d, <2>2, <2>3 DEF skipRefresh, SweepKeeps, TypeOK, InFlight,
       SweepSteps, apiVars, ctlVars, ghostVars, boundVars
  <2> QED
    BY <2>1, <2>4, SweepStep
<1>6. CASE beginRefresh
  <2>1. SweepLeaves
    BY <1>6 DEF beginRefresh, SweepLeaves, apiVars, ctlVars, ghostVars, boundVars
  <2>2. PickedStayFree'
    BY <1>6 DEF beginRefresh, PickedStayFree, InFlight
  <2>3. RetriesLeft'
    BY <1>6 DEF beginRefresh, RetriesLeft
  <2>4. SweepKeeps
    BY <1>6, <1>d, <2>2, <2>3 DEF beginRefresh, SweepKeeps, TypeOK, InFlight,
       SweepSteps, apiVars, ctlVars, ghostVars, boundVars
  <2> QED
    BY <2>1, <2>4, SweepStep
<1>7. CASE listInstances
  <2>1. SweepLeaves
    BY <1>7 DEF listInstances, SweepLeaves, apiVars, ctlVars, ghostVars, boundVars
  <2>2. PickedStayFree'
    BY <1>7 DEF listInstances, PickedStayFree, InFlight
  <2>3. RetriesLeft'
    BY <1>7 DEF listInstances, RetriesLeft
  <2>4. SweepKeeps
    BY <1>7, <1>d, <2>2, <2>3 DEF listInstances, SweepKeeps, TypeOK, InFlight,
       SweepSteps, apiVars, ctlVars, ghostVars, boundVars
  <2> QED
    BY <2>1, <2>4, SweepStep
<1>8. CASE readTracked
  <2>1. SweepLeaves
    BY <1>8 DEF readTracked, SweepLeaves, apiVars, ctlVars, ghostVars, boundVars
  <2>2. PickedStayFree'
    BY <1>8 DEF readTracked, PickedStayFree, InFlight, Select
  <2>3. RetriesLeft'
    BY <1>8 DEF readTracked, RetriesLeft, Select
  <2>4. pc' \in SweepSteps /\ picked' \in SUBSET Workspaces
    BY <1>8 DEF readTracked, Select, SweepSteps
  <2>5. /\ heldOut' \in SUBSET Workspaces
        /\ listed' \in [Workspaces -> Statuses]
    BY <1>8 DEF readTracked, TypeOK, EndRefresh, Statuses
  <2>6. seen' \in [Workspaces -> Seen]
    <3>1. NotSeen \in Seen
      BY DEF NotSeen, Seen, States, DesiredStates, ErrorCodes
    <3>2. \A w \in Workspaces : [state |-> row[w].state, desired |-> row[w].desired,
                                 errorCode |-> row[w].errorCode] \in Seen
      BY DEF TypeOK, Row, Seen
    <3> QED
      BY <1>8, <3>1, <3>2 DEF readTracked, EndRefresh
  <2>7. SweepKeeps
    BY <1>8, <1>d, <2>2, <2>3, <2>4, <2>5, <2>6
    DEF readTracked, SweepKeeps, TypeOK, apiVars, ghostVars
  <2> QED
    BY <2>1, <2>7, SweepStep
<1>9. CASE stopAfterGrace
  <2>1. SweepLeaves
    BY <1>9 DEF stopAfterGrace, SweepLeaves, apiVars, ctlVars, ghostVars, boundVars
  <2>2. PickedStayFree'
    BY <1>9 DEF stopAfterGrace, PickedStayFree, InFlight, Select
  <2>3. RetriesLeft'
    BY <1>9 DEF stopAfterGrace, RetriesLeft, Select
  <2>4. SweepKeeps
    BY <1>9, <1>d, <2>2, <2>3 DEF stopAfterGrace, SweepKeeps, TypeOK, InFlight,
       SweepSteps, apiVars, ctlVars, ghostVars, boundVars, Select
  <2> QED
    BY <2>1, <2>4, SweepStep
<1> QED
  BY <1>1, <1>2, <1>3, <1>4, <1>5, <1>6, <1>7, <1>8, <1>9

(* The statements that select and begin calls at once. *)
LEMMA BeginSteps ==
    ASSUME IInv,
           createProvisioning \/ stopIdle \/ runMaintenance
    PROVE  IInv'
<1> USE DEF IInv
<1>r. \A w \in Workspaces : row[w] \in Row
  BY DEF TypeOK
<1>s. [w \in Workspaces |-> NewCall("stop", "stopping", "none")] \in [Workspaces -> Call]
  BY NewCalls DEF Kinds, States, PendingOperations
<1>1. CASE createProvisioning
  <2>1. SweepLeaves
    BY <1>1 DEF createProvisioning, SweepLeaves, apiVars, ctlVars, boundVars
  <2>2. [w \in Workspaces |-> NewCall("create", "provisioning", "none")]
          \in [Workspaces -> Call]
    BY NewCalls DEF Kinds, States, PendingOperations
  <2>3. call' \in [Workspaces -> Call] /\ doubleCall' = FALSE
    <3> DEFINE S == {w \in Workspaces \ InFlight : row[w].state = "provisioning"}
               c == [w \in Workspaces |-> NewCall("create", "provisioning", "none")]
    <3>1. track(S, c)
      BY <1>1 DEF createProvisioning
    <3>2. S \in SUBSET Workspaces /\ S \intersect InFlight = {}
      OBVIOUS
    <3> HIDE DEF S, c
    <3> QED
      BY <2>2, <3>1, <3>2, TrackFree DEF c
  <2>4. SweepKeeps
    BY <1>1, <2>3 DEF createProvisioning, SweepKeeps, TypeOK, PickedStayFree,
       RetriesLeft, SweepSteps, apiVars
  <2> QED
    BY <2>1, <2>4, SweepStep
<1>3. CASE stopIdle
  <2>1. SweepLeaves
    BY <1>3 DEF stopIdle, SweepLeaves, apiVars, ctlVars, boundVars
  <2> DEFINE c == [w \in Workspaces |-> NewCall("stop", "stopping", "none")]
  <2>p. PICK due \in SUBSET (Workspaces \ InFlight) :
          /\ row' = [w \in Workspaces |->
                       IF w \in due THEN stopUnwanted(row[w]) ELSE row[w]]
          /\ track(due, c)
    BY <1>3 DEF stopIdle
  <2> HIDE DEF c
  <2>2. call' \in [Workspaces -> Call] /\ doubleCall' = FALSE
    BY <1>s, <2>p, TrackFree DEF c
  <2>3. row' \in [Workspaces -> Row]
    BY <1>r, <2>p, WorkerRows DEF Keeps
  <2>4. SweepKeeps
    BY <1>3, <2>2, <2>3 DEF stopIdle, SweepKeeps, TypeOK, PickedStayFree,
       RetriesLeft, SweepSteps, apiVars
  <2> QED
    BY <2>1, <2>4, SweepStep
<1>4. CASE runMaintenance
  <2>1. SweepLeaves
    BY <1>4 DEF runMaintenance, SweepLeaves, apiVars, ctlVars, boundVars
  <2>2. [w \in Workspaces |-> NewCall("operate", row[w].state, row[w].operation)]
          \in [Workspaces -> Call]
    BY <1>r, NewCalls DEF Kinds, Row
  <2>3. call' \in [Workspaces -> Call] /\ doubleCall' = FALSE
    <3> DEFINE S == {w \in Workspaces \ InFlight : toMaintain(row[w])}
               c == [w \in Workspaces |-> NewCall("operate", row[w].state, row[w].operation)]
    <3>1. track(S, c)
      BY <1>4 DEF runMaintenance
    <3>2. S \in SUBSET Workspaces /\ S \intersect InFlight = {}
      OBVIOUS
    <3> HIDE DEF S, c
    <3> QED
      BY <2>2, <3>1, <3>2, TrackFree DEF c
  <2>4. SweepKeeps
    BY <1>4, <2>3 DEF runMaintenance, SweepKeeps, TypeOK, PickedStayFree,
       RetriesLeft, SweepSteps, apiVars
  <2> QED
    BY <2>1, <2>4, SweepStep
<1> QED
  BY <1>1, <1>3, <1>4

(* The statements on one picked row, and the call each may begin. *)
LEMMA ActSteps ==
    ASSUME IInv, NEW w \in Workspaces,
           \/ startStoppedAct(w) \/ stopRunningAct(w) \/ waitForPoints(w)
           \/ stopForOperationAct(w) \/ stopAfterGraceAct(w) \/ retryErroredAct(w)
    PROVE  IInv'
<1> USE DEF IInv
<1>r. row[w] \in Row /\ row \in [Workspaces -> Row]
  BY DEF TypeOK
<1>d. doubleCall = FALSE
  BY DEF TypeOK, OneCallAtATime
<1>0. ASSUME pc \in {"start act", "stop act", "operation act", "deadline act", "retry act"},
             w \in picked,
             NEW next \in {"stop", "stop for operation", "deadline", "idle warn", "maintain"},
             Acted(w, next),
             SweepLeaves,
             UNCHANGED <<tab, heldOut, listed, seen>>,
             row' \in [Workspaces -> Row],
             \A v \in Workspaces \ {w} : row'[v] = row[v],
             call' \in [Workspaces -> Call],
             InFlight' \subseteq InFlight \union {w},
             doubleCall' = FALSE
      PROVE  IInv'
  <2>1. PickedStayFree'
    BY <1>0 DEF PickedStayFree, Acted
  <2>2. RetriesLeft'
    BY <1>0 DEF RetriesLeft, Acted, TypeOK
  <2>3. SweepKeeps
    BY <1>0, <2>1, <2>2 DEF SweepKeeps, Acted, TypeOK, SweepSteps
  <2> QED
    BY <1>0, <2>3, SweepStep
(* startInBackground *)
<1>1. ASSUME NEW from \in {"stopped", "error"}, NEW next \in {"stop", "maintain"},
             pc \in {"start act", "retry act"},
             from = "error" => row[w].startRetries < MaxStartRetries,
             startInBackground(w, from, next)
      PROVE  IInv'
  <2>1. moveToStarting(row[w], from) \in Row
    BY <1>r, <1>1, StartedRow DEF States
  <2>2. row' \in [Workspaces -> Row] /\ \A v \in Workspaces \ {w} : row'[v] = row[v]
    BY <1>r, <1>1, <2>1 DEF startInBackground, casUpdate
  <2>3. [v \in Workspaces |-> NewCall("start", "starting", "none")] \in [Workspaces -> Call]
    BY NewCalls DEF Kinds, States, PendingOperations
  <2>4. w \in picked /\ picked \intersect InFlight = {}
    BY <1>1 DEF startInBackground, PickedStayFree
  <2>5. /\ call' \in [Workspaces -> Call]
        /\ InFlight' \subseteq InFlight \union {w}
        /\ doubleCall' = FALSE
    <3> DEFINE S == IF row[w].state = from THEN {w} ELSE {}
               c == [v \in Workspaces |-> NewCall("start", "starting", "none")]
    <3>1. track(S, c)
      BY <1>1 DEF startInBackground
    <3>2. S \in SUBSET Workspaces /\ S \intersect InFlight = {} /\ S \subseteq {w}
      BY <2>4
    <3> HIDE DEF S, c
    <3> QED
      BY <2>3, <3>1, <3>2, TrackFree DEF c
  <2>6. SweepLeaves /\ UNCHANGED <<tab, heldOut, listed, seen>> /\ Acted(w, next)
    BY <1>1 DEF startInBackground, SweepLeaves, apiVars, ctlVars, boundVars
  <2> QED
    BY <1>0, <1>1, <2>2, <2>4, <2>5, <2>6
(* stopInBackground *)
<1>2. ASSUME NEW next \in {"stop for operation", "deadline"},
             pc \in {"stop act", "operation act"},
             stopInBackground(w, next)
      PROVE  IInv'
  <2>1. [row[w] EXCEPT !.state = "stopping"] \in Row
    BY <1>r, ColumnRows DEF Keeps, States
  <2>2. row' \in [Workspaces -> Row] /\ \A v \in Workspaces \ {w} : row'[v] = row[v]
    BY <1>r, <1>2, <2>1 DEF stopInBackground, casUpdate
  <2>3. [v \in Workspaces |-> NewCall("stop", "stopping", "none")] \in [Workspaces -> Call]
    BY NewCalls DEF Kinds, States, PendingOperations
  <2>4. w \in picked /\ picked \intersect InFlight = {}
    BY <1>2 DEF stopInBackground, PickedStayFree
  <2>5. /\ call' \in [Workspaces -> Call]
        /\ InFlight' \subseteq InFlight \union {w}
        /\ doubleCall' = FALSE
    <3> DEFINE S == IF row[w].state = "running" THEN {w} ELSE {}
               c == [v \in Workspaces |-> NewCall("stop", "stopping", "none")]
    <3>1. track(S, c)
      BY <1>2 DEF stopInBackground
    <3>2. S \in SUBSET Workspaces /\ S \intersect InFlight = {} /\ S \subseteq {w}
      BY <2>4
    <3> HIDE DEF S, c
    <3> QED
      BY <2>3, <3>1, <3>2, TrackFree DEF c
  <2>6. SweepLeaves /\ UNCHANGED <<tab, heldOut, listed, seen>> /\ Acted(w, next)
    BY <1>2 DEF stopInBackground, SweepLeaves, apiVars, ctlVars, boundVars
  <2> QED
    BY <1>0, <1>2, <2>2, <2>4, <2>5, <2>6
<1>3. CASE startStoppedAct(w)
  BY <1>1, <1>3 DEF startStoppedAct
<1>4. CASE stopRunningAct(w)
  BY <1>2, <1>4 DEF stopRunningAct
<1>5. CASE waitForPoints(w)
  <2>1. SweepLeaves /\ UNCHANGED <<tab, heldOut, listed, seen>> /\ Acted(w, "deadline")
    BY <1>5 DEF waitForPoints, SweepLeaves, apiVars, ctlVars, ghostVars, boundVars
  <2>2. call' \in [Workspaces -> Call] /\ InFlight' = InFlight /\ doubleCall' = FALSE
    BY <1>5, <1>d DEF waitForPoints, InFlight, TypeOK, ghostVars
  <2> QED
    BY <1>0, <1>5, <1>r, <2>1, <2>2 DEF waitForPoints
<1>6. CASE stopForOperationAct(w)
  BY <1>2, <1>6 DEF stopForOperationAct
<1>7. CASE retryErroredAct(w)
  <2>1. row[w].startRetries < MaxStartRetries
    BY <1>7 DEF retryErroredAct, startInBackground, RetriesLeft
  <2> QED
    BY <1>1, <1>7, <2>1 DEF retryErroredAct
<1>8. CASE stopAfterGraceAct(w)
  <2>1. PICK due \in BOOLEAN :
          /\ row' = IF due THEN [row EXCEPT ![w] = stopUnwanted(@)] ELSE row
          /\ track(IF due THEN {w} ELSE {},
                   [v \in Workspaces |-> NewCall("stop", "stopping", "none")])
    BY <1>8 DEF stopAfterGraceAct
  <2>2. stopUnwanted(row[w]) \in Row
    BY <1>r, WorkerRows DEF Keeps
  <2>3. row' \in [Workspaces -> Row] /\ \A v \in Workspaces \ {w} : row'[v] = row[v]
    BY <1>r, <2>1, <2>2
  <2>4. [v \in Workspaces |-> NewCall("stop", "stopping", "none")] \in [Workspaces -> Call]
    BY NewCalls DEF Kinds, States, PendingOperations
  <2>5. w \in picked /\ picked \intersect InFlight = {}
    BY <1>8 DEF stopAfterGraceAct, PickedStayFree
  <2>6. /\ call' \in [Workspaces -> Call]
        /\ InFlight' \subseteq InFlight \union {w}
        /\ doubleCall' = FALSE
    <3> DEFINE S == IF due THEN {w} ELSE {}
               c == [v \in Workspaces |-> NewCall("stop", "stopping", "none")]
    <3>1. track(S, c)
      BY <2>1
    <3>2. S \in SUBSET Workspaces /\ S \intersect InFlight = {} /\ S \subseteq {w}
      BY <2>5
    <3> HIDE DEF S, c
    <3> QED
      BY <2>4, <3>1, <3>2, TrackFree DEF c
  <2>7. SweepLeaves /\ UNCHANGED <<tab, heldOut, listed, seen>> /\ Acted(w, "idle warn")
    BY <1>8 DEF stopAfterGraceAct, SweepLeaves, apiVars, ctlVars, boundVars
  <2> QED
    BY <1>0, <1>8, <2>3, <2>5, <2>6, <2>7 DEF stopAfterGraceAct
<1> QED
  BY <1>3, <1>4, <1>5, <1>6, <1>7, <1>8

(* Drift: one tracked row against the list. *)
LEMMA DriftSteps ==
    ASSUME IInv, NEW w \in Workspaces,
           \/ nothingToResolve(w) \/ resolveMissingInstance(w)
           \/ resolveObservedStopped(w) \/ resolveObservedRunning(w)
           \/ resolveErrored(w) \/ resolveStarting(w) \/ resolveStopping(w)
    PROVE  IInv'
<1> USE DEF IInv
<1>r. row[w] \in Row /\ row \in [Workspaces -> Row]
  BY DEF TypeOK
<1>d. doubleCall = FALSE
  BY DEF TypeOK, OneCallAtATime
<1>0. ASSUME Resolved(w),
             row' \in [Workspaces -> Row],
             call' \in [Workspaces -> Call],
             InFlight' \subseteq InFlight \union {w},
             doubleCall' = FALSE,
             UNCHANGED <<disturbed, stopGaveUp>>
      PROVE  IInv'
  <2>1. PickedStayFree' /\ RetriesLeft'
    BY <1>0 DEF PickedStayFree, RetriesLeft, Resolved, Acted
  <2>2. SweepLeaves
    BY <1>0 DEF SweepLeaves, Resolved, apiVars, ctlVars, boundVars
  <2>3. pc' \in SweepSteps /\ picked' \in SUBSET Workspaces
    BY <1>0 DEF Resolved, Acted, SweepSteps, TypeOK
  <2>4. /\ heldOut' \in SUBSET Workspaces
        /\ listed' \in [Workspaces -> Statuses]
        /\ seen' \in [Workspaces -> Seen]
    <3>1. NotSeen \in Seen
      BY DEF NotSeen, Seen, States, DesiredStates, ErrorCodes
    <3> QED
      BY <1>0, <3>1 DEF Resolved, EndRefresh, TypeOK, Statuses
  <2>5. SweepKeeps
    BY <1>0, <2>1, <2>3, <2>4 DEF SweepKeeps, Resolved, TypeOK, apiVars
  <2> QED
    BY <2>2, <2>5, SweepStep
(* A step that leaves calls alone and writes this row or none. *)
<1>1. ASSUME Resolved(w), UNCHANGED <<call, ghostVars>>, RowsKept
      PROVE  IInv'
  BY <1>0, <1>1, <1>d DEF RowsKept, InFlight, TypeOK, ghostVars
<1>2. CASE nothingToResolve(w)
  BY <1>1, <1>2, <1>r, OneRowKept DEF nothingToResolve
<1>3. CASE resolveMissingInstance(w)
  BY <1>1, <1>3, <1>r, OneRowKept, WorkerRows DEF resolveMissingInstance
<1>4. CASE resolveObservedStopped(w)
  BY <1>1, <1>4, <1>r, OneRowKept, WorkerRows DEF resolveObservedStopped
<1>5. CASE resolveObservedRunning(w)
  BY <1>1, <1>5, <1>r, OneRowKept, WorkerRows DEF resolveObservedRunning
<1>6. CASE resolveErrored(w)
  <2> DEFINE stopIt == row[w].state = "error" /\ row[w].desired = "stopped"
             S == IF stopIt THEN {w} ELSE {}
             c == [v \in Workspaces |-> NewCall("stop", "stopping", "none")]
  <2>1. Resolved(w) /\ UNCHANGED <<disturbed, stopGaveUp>>
    BY <1>6 DEF resolveErrored
  <2>2. row' \in [Workspaces -> Row]
    BY <1>6, <1>r, WorkerRows DEF resolveErrored, Keeps
  <2>3. track(S, c)
    BY <1>6 DEF resolveErrored
  <2>4. S \in SUBSET Workspaces /\ S \intersect InFlight = {} /\ S \subseteq {w}
    BY <2>1 DEF Resolved, PickedStayFree
  <2>5. c \in [Workspaces -> Call]
    BY NewCalls DEF Kinds, States, PendingOperations
  <2> HIDE DEF S, c
  <2>6. /\ call' \in [Workspaces -> Call]
        /\ InFlight' \subseteq InFlight \union {w}
        /\ doubleCall' = FALSE
    BY <2>3, <2>4, <2>5, TrackFree
  <2> QED
    BY <1>0, <2>1, <2>2, <2>6
<1>7. CASE resolveStarting(w)
  BY <1>1, <1>7, <1>r, OneRowKept, WorkerRows DEF resolveStarting
<1>8. CASE resolveStopping(w)
  <2>1. Keeps(row[w], [row[w] EXCEPT !.state = "running"])
    BY <1>r, ColumnRows DEF States
  <2> QED
    BY <1>1, <1>8, <1>r, <2>1, OneRowKept, WorkerRows DEF resolveStopping
<1> QED
  BY <1>2, <1>3, <1>4, <1>5, <1>6, <1>7, <1>8

(* A worker that exits leaves no call and no picked row. *)
LEMMA RestartStep ==
    ASSUME IInv, WorkerRestarts PROVE IInv'
<1>1. TypeOK'
  <2>1. NotSeen \in Seen /\ NoCall \in Call
    BY DEF NotSeen, Seen, NoCall, Call, States, DesiredStates, ErrorCodes
  <2>2. call' \in [Workspaces -> Call] /\ seen' \in [Workspaces -> Seen]
    BY <2>1 DEF WorkerRestarts, EndRefresh
  <2>3. disturbed' \in [Workspaces -> BOOLEAN]
    BY DEF WorkerRestarts
  <2>4. /\ pc' \in SweepSteps /\ picked' \in SUBSET Workspaces
        /\ heldOut' \in SUBSET Workspaces /\ listed' \in [Workspaces -> Statuses]
    BY DEF WorkerRestarts, EndRefresh, Statuses, SweepSteps
  <2>5. faults' \in Nat
    BY DEF IInv, TypeOK, WorkerRestarts
  <2>6. UNCHANGED <<row, tab, request, inst, ctl, token, adopted, doubleCall, stopGaveUp, env>>
    BY DEF WorkerRestarts, apiVars, ctlVars
  <2> QED
    BY <2>2, <2>3, <2>4, <2>5, <2>6 DEF IInv, TypeOK
<1>2. OneCallAtATime' /\ PickedStayFree' /\ RetriesLeft'
  BY DEF IInv, OneCallAtATime, PickedStayFree, RetriesLeft, WorkerRestarts
<1> QED
  BY <1>1, <1>2 DEF IInv

(* The initial state. *)
LEMMA InitIInv == Init => IInv
<1> SUFFICES ASSUME Init PROVE IInv
  OBVIOUS
<1>1. NotSeen \in Seen /\ NoCall \in Call
  BY DEF NotSeen, Seen, NoCall, Call, States, DesiredStates, ErrorCodes
<1>2. TypeOK
  BY <1>1, InsertedRow DEF Init, TypeOK, TabStates, Requests, Statuses, SweepSteps
<1>3. OneCallAtATime /\ PickedStayFree /\ RetriesLeft
  BY DEF Init, OneCallAtATime, PickedStayFree, RetriesLeft
<1> QED
  BY <1>2, <1>3 DEF IInv

(* Every step. *)
LEMMA NextIInv == IInv /\ [Next]_vars => IInv'
<1> SUFFICES ASSUME IInv, [Next]_vars PROVE IInv'
  OBVIOUS
<1>1. CASE Sweep
  BY <1>1, PresenceSteps, SelectSteps, BeginSteps, ActSteps, DriftSteps DEF Sweep
<1>2. CASE WorkerRestarts
  BY <1>2, RestartStep
<1>3. ASSUME NEW w \in Workspaces,
             Calls(w) \/ GiveUp(w) \/ Controller(w) \/ OutsideChange(w) \/ Api(w)
      PROVE  IInv'
  <2>1. Passive
    BY <1>3, CallsPassive, ControllerPassive, ApiPassive
  <2> QED
    BY <2>1, PassiveStep
<1>4. CASE UNCHANGED vars
  BY <1>4 DEF IInv, TypeOK, OneCallAtATime, PickedStayFree, RetriesLeft, InFlight,
     vars, apiVars, ctlVars, sweepVars, ghostVars, boundVars
<1> QED
  BY <1>1, <1>2, <1>3, <1>4 DEF Next

-----------------------------------------------------------------------------
(* The inductive invariant holds in every behaviour. *)
THEOREM Invariance == Spec => []IInv
BY InitIInv, NextIInv, PTL DEF Spec

(* Every variable keeps its type: among others, a workspace is never retried
   more than MAX_START_RETRIES times in a row. *)
THEOREM TypeCorrect == Spec => []TypeOK
<1>1. IInv => TypeOK
  BY DEF IInv
<1> QED
  BY <1>1, Invariance, PTL

(* No workspace ever gets two controller calls at once, however many
   workspaces, requests, faults and restarts there are: the sweep acts on
   what it picked statements earlier, and track never throws. *)
THEOREM NeverTwoCalls == Spec => []OneCallAtATime
<1>1. IInv => OneCallAtATime
  BY DEF IInv
<1> QED
  BY <1>1, Invariance, PTL

(* What the sweep picked stays free of calls until it acts, and every call
   that list() may have seen half-done is held out of drift. *)
THEOREM SweepActsOnFreeRows == Spec => []PickedStayFree
<1>1. IInv => PickedStayFree
  BY DEF IInv
<1> QED
  BY <1>1, Invariance, PTL

-----------------------------------------------------------------------------
(* Rows and instances.

   What makes RowAgreesWithInstance and AgentHoldsRowToken inductive: the row
   of a workspace with a call is in the call's state (CallFits); as long as
   nothing disturbed the instance, the controller works on it for nobody but
   the call that waits (OwnWork), an answer that is not yet written tells the
   truth (AnswerTells), and so does the list for whatever drift may still act
   on (ListIsFresh). *)

CallFits(w) ==
    /\ call[w].kind = "create" => row[w].state = "provisioning"
    /\ call[w].kind = "start" => row[w].state = "starting"
    /\ call[w].kind = "stop" => row[w].state = "stopping"
    /\ call[w].kind = "operate" =>
          \/ call[w].from \in {"stopped", "error"} /\ row[w].state = call[w].from
          \/ call[w].from = "error" /\ row[w].state = "provisioning"
    /\ call[w].operation # "none" => call[w].kind = "operate"

OwnWork(w) ==
    ~disturbed[w] /\ ctl[w] # {} =>
        call[w].phase = "sent" /\ ctl[w] \subseteq WorkOf(call[w].kind)

RowTells(w) ==
    ~disturbed[w] =>
        /\ row[w].state = "running" =>
             inst[w] = "Running" /\ ("file" \in token[w] \/ adopted[w])
        /\ row[w].state = "stopped" => inst[w] = "Stopped" \/ adopted[w]
        /\ row[w].state \in {"starting", "stopping"} => call[w].kind # "none"

AnswerTells(w) ==
    ~disturbed[w] /\ call[w].phase = "ok" =>
        /\ call[w].kind = "start" => inst[w] = "Running" /\ "file" \in token[w]
        /\ call[w].kind # "start" => inst[w] = "Stopped" \/ adopted[w]

(* The start that the worker waits for carries the row's token. *)
TokenOfStart(w) ==
    call[w].kind = "start" /\ call[w].phase = "sent" =>
        /\ "start" \in ctl[w] => "start" \in token[w]
        /\ "prepared" \in ctl[w] \/ "booted" \in ctl[w] => "file" \in token[w]

ListIsFresh(w) ==
    /\ \/ pc = "read tracked" /\ w \notin heldOut
       \/ pc = "drift" /\ w \in picked
    /\ ~disturbed[w]
    => listed[w] = inst[w]

Agreed(w) == CallFits(w) /\ OwnWork(w) /\ RowTells(w) /\ AnswerTells(w) /\ TokenOfStart(w)

AInv == \A w \in Workspaces : Agreed(w) /\ ListIsFresh(w)

(* The states that the statements leave. *)
LEMMA WorkerStates ==
    ASSUME NEW r \in Row
    PROVE  /\ startedNow(r).state = "running"
           /\ \A from \in States : moveToStarting(r, from).state = "starting"
           /\ failedWith(r, "failed").state = "error"
           /\ failedWith(r, "STOP_FAILED").state = "error"
           /\ stopUnwanted(r).state = "stopping"
           /\ clearGuardAtStop(stopDone(r)).state = "stopped"
           /\ provisioned(r).state = "stopped"
           /\ createRefused(r).state = r.state
           /\ operationDone(r).state = "stopped"
           /\ operationFailed(r).state = "error"
           /\ \A s \in States : replaceRefused(r, s).state = s
           /\ \A s \in States : [r EXCEPT !.state = s].state = s
           /\ observedStopped(r).state = "stopped"
           /\ instanceMissing(r).state = "error"
           /\ stopErrored(r).state = "stopping"
BY DEF Row, startedNow, moveToStarting, failedWith, stopUnwanted, clearGuardAtStop, stopDone,
       provisioned, createRefused, operationDone, operationFailed, replaceRefused,
       observedStopped, instanceMissing, stopErrored

LEMMA ApiStates ==
    ASSUME NEW r \in Row
    PROVE  /\ \A d \in DesiredStates : setDesired(r, d).state = r.state
           /\ presenceOpened(r).state = r.state
           /\ archive(r).state = r.state /\ unarchive(r).state = r.state
           /\ ownerDisabled(r).state = r.state
           /\ \A op \in Operations : requestPendingOperation(r, op).state = r.state
           /\ activity(r).state = r.state
           /\ reprovision(r).state = "provisioning"
BY DEF Row, setDesired, presenceOpened, archive, unarchive, ownerDisabled,
       requestPendingOperation, activity, reprovision

(* What the invariant reads of w is as it was. *)
Same(w) ==
    /\ row'[w].state = row[w].state
    /\ inst'[w] = inst[w] /\ ctl'[w] = ctl[w] /\ token'[w] = token[w]
    /\ call'[w] = call[w]
    /\ adopted'[w] = adopted[w] /\ disturbed'[w] = disturbed[w]

LEMMA SameAgreed ==
    ASSUME NEW w \in Workspaces, Agreed(w), Same(w)
    PROVE  Agreed(w)'
BY DEF Same, Agreed, CallFits, OwnWork, RowTells, AnswerTells, TokenOfStart

(* A step at w outside the sweep: drift is not about w, or w is disturbed, or
   its instance stays as it is. *)
LEMMA OneMoves ==
    ASSUME IInv, AInv, NEW w \in Workspaces, Agreed(w)',
           UNCHANGED <<pc, picked, heldOut, listed>>,
           \A v \in Workspaces \ {w} : Same(v),
           \/ w \in InFlight
           \/ disturbed'[w]
           \/ inst'[w] = inst[w] /\ (disturbed[w] => disturbed'[w])
    PROVE  AInv'
<1>1. ASSUME NEW v \in Workspaces \ {w} PROVE Agreed(v)' /\ ListIsFresh(v)'
  BY <1>1, SameAgreed DEF AInv, ListIsFresh, Same
<1>2. ListIsFresh(w)'
  BY DEF IInv, PickedStayFree, AInv, ListIsFresh
<1> QED
  BY <1>1, <1>2 DEF AInv

(* No call is the call that is none. *)
LEMMA CallShape ==
    ASSUME IInv, NEW w \in Workspaces
    PROVE  /\ call[w].kind = "none" <=> call[w] = NoCall
           /\ call[w].kind = "none" <=> call[w].phase = "none"
           /\ w \in InFlight <=> call[w].kind # "none"
           /\ call[w].kind # "none" => call[w].kind \in Kinds /\ call[w].phase \in Phases
           /\ call[w].from \in States \union {"none"}
           /\ call[w].operation \in PendingOperations
BY DEF IInv, TypeOK, Call, NoCall, Kinds, Phases, InFlight, States, PendingOperations

(* Of an undisturbed instance the controller's work belongs to the call. *)
LEMMA SoleWork ==
    ASSUME IInv, AInv, NEW w \in Workspaces, NEW kind \in Kinds,
           ~disturbed[w], ctl[w] \intersect WorkOf(kind) # {}
    PROVE  Awaited(w, kind) /\ ctl[w] \ WorkOf(kind) = {}
<1>1. call[w].phase = "sent" /\ ctl[w] \subseteq WorkOf(call[w].kind)
  BY DEF AInv, Agreed, OwnWork
<1>2. call[w].kind \in Kinds
  BY <1>1, CallShape
<1>3. call[w].kind = kind
  BY <1>1, <1>2 DEF WorkOf, StartWork, Kinds
<1> QED
  BY <1>1, <1>3 DEF Awaited

-----------------------------------------------------------------------------
(* The end of a call: what it leaves in the row. *)
LEMMA CallOver ==
    ASSUME IInv, AInv, NEW w \in InFlight, CallEnds(w), call[w].phase # "sent",
           UNCHANGED <<inst, ctl, token, adopted, disturbed, pc, picked, heldOut, listed>>,
           \A v \in Workspaces \ {w} : row'[v] = row[v],
           \/ row'[w].state \in {"provisioning", "error"}
           \/ row'[w].state = "running" /\ call[w].phase = "ok" /\ call[w].kind = "start"
           \/ row'[w].state = "stopped" /\ call[w].phase = "ok" /\ call[w].kind # "start"
           \/ row'[w].state = "stopped" /\ row[w].state = "stopped"
    PROVE  AInv'
<1>1. w \in Workspaces
  BY DEF InFlight
<1>2. call'[w] = NoCall /\ \A v \in Workspaces \ {w} : Same(v)
  BY <1>1 DEF IInv, TypeOK, CallEnds, Same
<1>3. Agreed(w)
  BY <1>1 DEF AInv
<1>4. CallFits(w)' /\ TokenOfStart(w)' /\ AnswerTells(w)'
  BY <1>2 DEF CallFits, TokenOfStart, AnswerTells, NoCall
<1>5. OwnWork(w)'
  BY <1>3 DEF Agreed, OwnWork
<1>6. RowTells(w)'
  BY <1>3 DEF Agreed, RowTells, AnswerTells
<1>7. Agreed(w)'
  BY <1>4, <1>5, <1>6 DEF Agreed
<1> QED
  BY <1>1, <1>2, <1>7, OneMoves

LEMMA EndsAgree ==
    ASSUME IInv, AInv, NEW w \in Workspaces,
           \/ createWorkspace(w) \/ startInstance(w) \/ doStop(w) \/ runOperation(w)
           \/ runReplaceHomeEarly(w) \/ runReplaceHome(w)
    PROVE  AInv'
<1>r. row[w] \in Row /\ row \in [Workspaces -> Row]
  BY DEF IInv, TypeOK
<1>c. CallFits(w) /\ call[w].operation \in PendingOperations
  BY CallShape DEF AInv, Agreed
<1>i. call[w].kind \in Kinds => w \in InFlight
  BY DEF InFlight, Kinds
<1>1. CASE createWorkspace(w)
  <2>1. /\ CallEnds(w) /\ UNCHANGED <<inst, ctl, token, adopted, disturbed, pc, picked, heldOut, listed>>
        /\ call[w].kind = "create" /\ call[w].phase # "sent"
        /\ \A v \in Workspaces \ {w} : row'[v] = row[v]
    BY <1>1, <1>r DEF createWorkspace, casUpdate, ctlVars, sweepVars, ghostVars
  <2>2. row[w].state = "provisioning"
    BY <1>c, <2>1 DEF CallFits
  <2>3. \/ row'[w].state \in {"provisioning", "error"}
        \/ row'[w].state = "stopped" /\ call[w].phase = "ok"
    BY <1>1, <1>r, <2>2, WorkerStates DEF createWorkspace, casUpdate
  <2> QED
    BY <1>i, <2>1, <2>3, CallOver DEF Kinds
<1>2. CASE startInstance(w)
  <2>1. /\ CallEnds(w) /\ UNCHANGED <<inst, ctl, token, adopted, disturbed, pc, picked, heldOut, listed>>
        /\ call[w].kind = "start" /\ call[w].phase # "sent"
        /\ \A v \in Workspaces \ {w} : row'[v] = row[v]
    BY <1>2, <1>r DEF startInstance, casUpdate, ctlVars, sweepVars, ghostVars
  <2>2. row[w].state = "starting"
    BY <1>c, <2>1 DEF CallFits
  <2>3. \/ row'[w] = startedNow(row[w]) /\ call[w].phase = "ok"
        \/ row'[w] = failedWith(row[w], "failed")
    BY <1>2, <1>r, <2>2 DEF startInstance, casUpdate
  <2>4. \/ row'[w].state = "error"
        \/ row'[w].state = "running" /\ call[w].phase = "ok"
    BY <1>r, <2>3, WorkerStates
  <2> QED
    BY <1>i, <2>1, <2>4, CallOver DEF Kinds
<1>3. CASE doStop(w)
  <2>1. /\ CallEnds(w) /\ UNCHANGED <<inst, ctl, token, adopted, disturbed, pc, picked, heldOut, listed>>
        /\ call[w].kind = "stop" /\ call[w].phase # "sent"
        /\ \A v \in Workspaces \ {w} : row'[v] = row[v]
    BY <1>3, <1>r DEF doStop, casUpdate, ctlVars, sweepVars
  <2>2. row[w].state = "stopping"
    BY <1>c, <2>1 DEF CallFits
  <2>3. \/ row'[w] = clearGuardAtStop(stopDone(row[w])) /\ call[w].phase = "ok"
        \/ row'[w] = failedWith(row[w], "STOP_FAILED")
    BY <1>3, <1>r, <2>2 DEF doStop, casUpdate
  <2>4. \/ row'[w].state = "error"
        \/ row'[w].state = "stopped" /\ call[w].phase = "ok"
    BY <1>r, <2>3, WorkerStates
  <2> QED
    BY <1>i, <2>1, <2>4, CallOver DEF Kinds
<1>4. CASE runOperation(w)
  <2>1. /\ CallEnds(w) /\ UNCHANGED <<inst, ctl, token, adopted, disturbed, pc, picked, heldOut, listed>>
        /\ call[w].kind = "operate" /\ call[w].phase # "sent"
        /\ \A v \in Workspaces \ {w} : row'[v] = row[v]
    BY <1>4, <1>r DEF runOperation, casUpdate, ctlVars, sweepVars, ghostVars
  <2>2. \/ row[w].state = call[w].from
        \/ call[w].from = "error" /\ row[w].state = "provisioning"
    BY <1>c, <2>1 DEF CallFits
  <2>3. \/ row'[w].state \in {"provisioning", "error"}
        \/ row'[w].state = "stopped" /\ call[w].phase = "ok"
    BY <1>4, <1>r, <2>2, WorkerStates DEF runOperation, casUpdate
  <2> QED
    BY <1>i, <2>1, <2>3, CallOver DEF Kinds
<1>5. CASE runReplaceHomeEarly(w)
  <2>1. call[w].kind = "operate" /\ call[w].phase # "sent"
    BY <1>5, <1>c DEF runReplaceHomeEarly, CallFits
  <2>2. /\ CallEnds(w) /\ UNCHANGED <<inst, ctl, token, adopted, disturbed, pc, picked, heldOut, listed>>
        /\ \A v \in Workspaces \ {w} : row'[v] = row[v]
    BY <1>5, <1>r DEF runReplaceHomeEarly, ctlVars, sweepVars, ghostVars
  <2>3. /\ call[w].from \in {"stopped", "error"}
        /\ \/ row[w].state = call[w].from
           \/ call[w].from = "error" /\ row[w].state = "provisioning"
    BY <1>c, <2>1 DEF CallFits
  <2>4. replaceRefused(row[w], call[w].from).state = call[w].from
    BY <1>r, <2>3, WorkerStates DEF States
  <2>5. \/ row'[w].state = row[w].state
        \/ row'[w].state = call[w].from
    BY <1>5, <1>r, <2>4 DEF runReplaceHomeEarly
  <2> QED
    BY <1>i, <2>1, <2>2, <2>3, <2>5, CallOver DEF Kinds
<1>6. CASE runReplaceHome(w)
  <2>1. call[w].kind = "operate" /\ call[w].phase # "sent"
    BY <1>6, <1>c DEF runReplaceHome, CallFits
  <2>2. PICK r : /\ row' = [row EXCEPT ![w] = IF @.operation = "replace-home" THEN r ELSE @]
                 /\ \/ call[w].phase = "ok" /\ r = operationDone(row[w])
                    \/ r \in {row[w], operationFailed(row[w]), replaceRefused(row[w], call[w].from)}
    BY <1>6 DEF runReplaceHome
  <2>3. /\ CallEnds(w) /\ UNCHANGED <<inst, ctl, token, adopted, disturbed, pc, picked, heldOut, listed>>
        /\ \A v \in Workspaces \ {w} : row'[v] = row[v]
    BY <1>6, <1>r, <2>2 DEF runReplaceHome, ctlVars, sweepVars, ghostVars
  <2>4. /\ call[w].from \in {"stopped", "error"}
        /\ \/ row[w].state = call[w].from
           \/ call[w].from = "error" /\ row[w].state = "provisioning"
    BY <1>c, <2>1 DEF CallFits
  <2>5. /\ replaceRefused(row[w], call[w].from).state = call[w].from
        /\ operationDone(row[w]).state = "stopped" /\ operationFailed(row[w]).state = "error"
    BY <1>r, <2>4, WorkerStates DEF States
  <2>6. row'[w] \in {r, row[w]}
    BY <1>r, <2>2
  <2>7. \/ row'[w].state \in {row[w].state, call[w].from, "error"}
        \/ row'[w].state = "stopped" /\ call[w].phase = "ok"
    BY <2>2, <2>5, <2>6
  <2> QED
    BY <1>i, <2>1, <2>3, <2>4, <2>7, CallOver DEF Kinds
<1> QED
  BY <1>1, <1>2, <1>3, <1>4, <1>5, <1>6

(* A call that goes on. *)
LEMMA PhasesAgree ==
    ASSUME IInv, AInv, NEW w \in Workspaces,
           BeginCall(w) \/ SendCall(w) \/ createAgain(w) \/ GiveUp(w)
    PROVE  AInv'
<1>f. /\ call \in [Workspaces -> Call] /\ token \in [Workspaces -> SUBSET TokenPlaces]
      /\ ctl \in [Workspaces -> SUBSET Work] /\ disturbed \in [Workspaces -> BOOLEAN]
  BY DEF IInv, TypeOK
<1>a. Agreed(w)
  BY DEF AInv
<1>p. call[w].phase \in {"queued", "active", "failed", "sent"} /\ w \in InFlight
  BY CallShape DEF BeginCall, SendCall, createAgain, GiveUp
<1>1. UNCHANGED <<row, inst, adopted, pc, picked, heldOut, listed>>
  BY DEF BeginCall, SendCall, createAgain, GiveUp, ctlVars, sweepVars
<1>2. \A v \in Workspaces \ {w} : Same(v)
  BY <1>f, <1>1 DEF BeginCall, SendCall, createAgain, GiveUp, ctlVars, ghostVars, Same
<1>k. call[w] \in [kind : Kinds, phase : Phases, from : States, operation : PendingOperations]
  BY <1>f, <1>p, CallShape DEF Call
<1>3. CASE BeginCall(w)
  <2>1. /\ call'[w].kind = call[w].kind /\ call'[w].phase = "active"
        /\ call'[w].from = call[w].from /\ call'[w].operation = call[w].operation
    BY <1>3, <1>f, <1>k DEF BeginCall
  <2>2. call[w].phase = "queued" /\ ctl' = ctl /\ disturbed' = disturbed
    BY <1>3 DEF BeginCall, ghostVars
  <2>3. call[w].kind # "start" => token' = token
    BY <1>3 DEF BeginCall
  <2>4. Agreed(w)'
    BY <1>a, <1>1, <2>1, <2>2, <2>3
    DEF Agreed, CallFits, OwnWork, RowTells, AnswerTells, TokenOfStart
  <2> QED
    BY <1>p, <1>1, <1>2, <2>4, OneMoves
<1>4. CASE SendCall(w)
  <2>1. /\ call'[w].kind = call[w].kind /\ call'[w].phase = "sent"
        /\ call'[w].from = call[w].from /\ call'[w].operation = call[w].operation
    BY <1>4, <1>f, <1>k DEF SendCall
  <2>2. /\ call[w].phase = "active" /\ disturbed' = disturbed
        /\ ctl[w] \intersect WorkOf(call[w].kind) = {}
        /\ ctl'[w] = ctl[w] \union {call[w].kind}
    BY <1>4, <1>f DEF SendCall, ghostVars
  <2>3. /\ call[w].kind = "start" => token'[w] = token[w] \union {"start"}
        /\ call[w].kind # "start" => token'[w] = token[w]
    BY <1>4, <1>f DEF SendCall
  <2>4. CallFits(w)' /\ RowTells(w)' /\ AnswerTells(w)'
    BY <1>a, <1>1, <2>1, <2>2, <2>3 DEF Agreed, CallFits, RowTells, AnswerTells
  <2>5. OwnWork(w)'
    <3>1. call[w].kind \in WorkOf(call[w].kind)
      BY DEF WorkOf, StartWork
    <3> QED
      BY <1>a, <2>1, <2>2, <3>1 DEF Agreed, OwnWork
  <2>6. TokenOfStart(w)'
    BY <2>1, <2>2, <2>3 DEF TokenOfStart, WorkOf, StartWork
  <2> QED
    BY <1>p, <1>1, <1>2, <2>4, <2>5, <2>6, OneMoves DEF Agreed
<1>5. CASE createAgain(w)
  <2>1. /\ call'[w].kind = call[w].kind /\ call'[w].phase = "active"
        /\ call'[w].from = call[w].from /\ call'[w].operation = call[w].operation
    BY <1>5, <1>f, <1>k DEF createAgain
  <2>2. call[w].phase = "failed" /\ UNCHANGED <<ctl, disturbed, token>>
    BY <1>5 DEF createAgain, ctlVars, ghostVars
  <2>4. Agreed(w)'
    BY <1>a, <1>1, <2>1, <2>2 DEF Agreed, CallFits, OwnWork, RowTells, AnswerTells, TokenOfStart
  <2> QED
    BY <1>p, <1>1, <1>2, <2>4, OneMoves
<1>6. CASE GiveUp(w)
  <2>1. disturbed'[w]
    BY <1>6, <1>f DEF GiveUp
  <2>2. \/ call'[w] = NoCall
        \/ /\ call'[w].kind = call[w].kind /\ call'[w].phase = "failed"
           /\ call'[w].from = call[w].from /\ call'[w].operation = call[w].operation
    BY <1>6, <1>f, <1>k DEF GiveUp
  <2>3. CallFits(w)' /\ TokenOfStart(w)'
    BY <1>a, <1>1, <2>2 DEF Agreed, CallFits, TokenOfStart, NoCall
  <2>4. OwnWork(w)' /\ RowTells(w)' /\ AnswerTells(w)'
    BY <2>1 DEF OwnWork, RowTells, AnswerTells
  <2> QED
    BY <1>p, <1>1, <1>2, <2>3, <2>4, OneMoves DEF Agreed
<1> QED
  BY <1>3, <1>4, <1>5, <1>6

-----------------------------------------------------------------------------
(* The controller and Incus *)

(* Work that ends with an answer leaves agreement if the instance stays
   disturbed or the answer is what the instance is like. *)
LEMMA AnswerAgrees ==
    ASSUME IInv, AInv, NEW w \in Workspaces, NEW kind \in Kinds,
           NEW answer \in {"ok", "failed", "full"},
           Answer(w, kind, WorkOf(kind), answer),
           \A v \in Workspaces \ {w} :
              /\ inst'[v] = inst[v] /\ token'[v] = token[v]
              /\ adopted'[v] = adopted[v] /\ disturbed'[v] = disturbed[v],
           \/ token'[w] = token[w]
           \/ kind = "start" /\ token'[w] = token[w] \ {"start"},
           \/ disturbed'[w]
           \/ /\ Awaited(w, kind) /\ ctl[w] \ WorkOf(kind) = {}
              /\ row[w].state = "stopped" => inst'[w] = "Stopped" \/ adopted'[w]
              /\ answer = "ok" => IF kind = "start" THEN inst'[w] = "Running" /\ "file" \in token'[w]
                                  ELSE inst'[w] = "Stopped" \/ adopted'[w]
    PROVE  AInv'
<1>f. call \in [Workspaces -> Call] /\ ctl \in [Workspaces -> SUBSET Work]
  BY DEF IInv, TypeOK
<1>a. Agreed(w)
  BY DEF AInv
<1>1. UNCHANGED <<row, pc, picked, heldOut, listed>> /\ ctl'[w] = ctl[w] \ WorkOf(kind)
  BY <1>f DEF Answer, sweepVars
<1>2. \A v \in Workspaces \ {w} : Same(v)
  BY <1>f, <1>1 DEF Answer, Same
<1>3. /\ call'[w].kind = call[w].kind /\ call'[w].from = call[w].from
      /\ call'[w].operation = call[w].operation
      /\ Awaited(w, kind) => call'[w].phase = answer
      /\ ~Awaited(w, kind) => call'[w].phase = call[w].phase
  <2>1. CASE Awaited(w, kind)
    <3>1. call[w] \in [kind : Kinds, phase : Phases, from : States, operation : PendingOperations]
      BY <1>f, <2>1, CallShape DEF Call, Awaited
    <3>2. call' = [call EXCEPT ![w].phase = answer]
      BY <2>1 DEF Answer, Awaited
    <3> QED
      BY <1>f, <2>1, <3>1, <3>2
  <2>2. CASE ~Awaited(w, kind)
    BY <2>2 DEF Answer, Awaited
  <2> QED
    BY <2>1, <2>2
<1>4. CallFits(w)'
  BY <1>a, <1>1, <1>3 DEF Agreed, CallFits
<1>5. TokenOfStart(w)'
  <2>1. SUFFICES ASSUME call'[w].kind = "start", call'[w].phase = "sent"
                 PROVE  /\ "start" \in ctl'[w] => "start" \in token'[w]
                        /\ "prepared" \in ctl'[w] \/ "booted" \in ctl'[w] => "file" \in token'[w]
    BY DEF TokenOfStart
  <2>2. ~Awaited(w, kind)
    BY <1>3, <2>1
  <2>3. kind # "start" /\ call[w].phase = "sent" /\ call[w].kind = "start"
    BY <1>3, <2>1, <2>2 DEF Awaited
  <2> QED
    BY <1>a, <1>1, <2>3 DEF Agreed, TokenOfStart
<1>6. OwnWork(w)' /\ RowTells(w)' /\ AnswerTells(w)'
  <2>1. CASE disturbed'[w]
    BY <2>1 DEF OwnWork, RowTells, AnswerTells
  <2>2. CASE ~disturbed'[w]
    <3>1. Awaited(w, kind) /\ ctl'[w] = {} /\ call'[w].phase = answer /\ call[w].kind = kind
      BY <1>1, <1>3, <2>2 DEF Awaited
    <3>2. row'[w].state # "running" /\ call'[w].kind # "none"
      BY <1>a, <1>1, <1>3, <3>1 DEF Agreed, CallFits, Kinds
    <3> QED
      BY <1>1, <1>3, <2>2, <3>1, <3>2 DEF OwnWork, RowTells, AnswerTells
  <2> QED
    BY <2>1, <2>2
<1>7. w \in InFlight \/ disturbed'[w]
  BY CallShape DEF Awaited, Kinds
<1> QED
  BY <1>1, <1>2, <1>4, <1>5, <1>6, <1>7, OneMoves DEF Agreed

LEMMA AgreesTells ==
    ASSUME IInv, NEW w \in Workspaces, NEW kind, Agrees(w, kind)
    PROVE  /\ \A v \in Workspaces \ {w} :
                adopted'[v] = adopted[v] /\ disturbed'[v] = disturbed[v]
           /\ \/ disturbed' = disturbed
              \/ Awaited(w, kind) /\ ctl'[w] = {}
<1>f. adopted \in [Workspaces -> BOOLEAN] /\ disturbed \in [Workspaces -> BOOLEAN]
  BY DEF IInv, TypeOK
<1>1. \A v \in Workspaces \ {w} : adopted'[v] = adopted[v] /\ disturbed'[v] = disturbed[v]
  BY <1>f DEF Agrees
<1>2. CASE Awaited(w, kind) /\ ctl'[w] = {}
  BY <1>1, <1>2
<1>3. CASE ~(Awaited(w, kind) /\ ctl'[w] = {})
  <2>1. disturbed' = [disturbed EXCEPT ![w] = disturbed[w]]
    BY <1>3, Zenon DEF Agrees
  <2> QED
    BY <1>f, <1>1, <2>1
<1> QED
  BY <1>2, <1>3

LEMMA AnswersAgree ==
    ASSUME IInv, AInv, NEW w \in Workspaces,
           \/ controllerCreate(w) \/ controllerStarted(w) \/ controllerStartFails(w)
           \/ controllerStop(w) \/ controllerOperate(w)
    PROVE  AInv'
<1>f. /\ inst \in [Workspaces -> Statuses] /\ token \in [Workspaces -> SUBSET TokenPlaces]
      /\ adopted \in [Workspaces -> BOOLEAN] /\ disturbed \in [Workspaces -> BOOLEAN]
      /\ ctl \in [Workspaces -> SUBSET Work]
  BY DEF IInv, TypeOK
<1>a. Agreed(w)
  BY DEF AInv
<1>k. /\ WorkOf("create") = {"create"} /\ WorkOf("stop") = {"stop"}
      /\ WorkOf("operate") = {"operate"} /\ WorkOf("start") = StartWork
      /\ "create" \in Kinds /\ "start" \in Kinds /\ "stop" \in Kinds /\ "operate" \in Kinds
  BY DEF WorkOf, Kinds
<1>1. CASE controllerCreate(w)
  <2>1. PICK answer \in {"ok", "failed", "full"} :
          /\ Answer(w, "create", WorkOf("create"), answer)
          /\ \/ /\ answer = "ok"
                /\ inst' = [inst EXCEPT ![w] = IF @ = "Missing" THEN "Stopped" ELSE @]
                /\ adopted' = [adopted EXCEPT ![w] = @ \/ inst[w] \in {"Running", "Other"}]
             \/ answer # "ok" /\ UNCHANGED <<inst, adopted>>
    BY <1>1, <1>k DEF controllerCreate
  <2>2. /\ UNCHANGED <<token, disturbed>> /\ ctl[w] \intersect WorkOf("create") # {}
        /\ \A v \in Workspaces \ {w} : inst'[v] = inst[v] /\ adopted'[v] = adopted[v]
    BY <1>1, <1>f, <1>k, <2>1 DEF controllerCreate
  <2>3. CASE disturbed[w]
    BY <1>k, <2>1, <2>2, <2>3, AnswerAgrees
  <2>4. CASE ~disturbed[w]
    <3>1. answer = "ok" => inst'[w] = "Stopped" \/ adopted'[w]
      BY <1>f, <2>1 DEF Statuses
    <3>2. Awaited(w, "create") /\ ctl[w] \ WorkOf("create") = {}
      BY <1>k, <2>2, <2>4, SoleWork
    <3>3. row[w].state # "stopped"
      BY <1>a, <3>2 DEF Agreed, CallFits, Awaited
    <3> QED
      BY <1>k, <2>1, <2>2, <3>1, <3>2, <3>3, AnswerAgrees
  <2> QED
    BY <2>3, <2>4
<1>2. CASE controllerStarted(w)
  <2>1. /\ Answer(w, "start", WorkOf("start"), "ok") /\ Agrees(w, "start") /\ inst' = inst
        /\ inst[w] = "Running" /\ token' = [token EXCEPT ![w] = @ \ {"start"}]
        /\ "booted" \in ctl[w] /\ ctl[w] \intersect WorkOf("start") # {}
    BY <1>2, <1>k DEF controllerStarted, StartWork
  <2>2. ctl'[w] = ctl[w] \ WorkOf("start")
    BY <1>f, <2>1 DEF Answer
  <2>3. /\ \A v \in Workspaces \ {w} :
              token'[v] = token[v] /\ adopted'[v] = adopted[v] /\ disturbed'[v] = disturbed[v]
        /\ token'[w] = token[w] \ {"start"}
        /\ \/ disturbed' = disturbed
           \/ Awaited(w, "start") /\ ctl'[w] = {}
    BY <1>f, <2>1, AgreesTells
  <2>4. CASE disturbed'[w]
    BY <1>k, <2>1, <2>3, <2>4, AnswerAgrees
  <2>5. CASE ~disturbed'[w]
    <3>1. Awaited(w, "start") /\ ctl[w] \ WorkOf("start") = {}
      BY <1>k, <2>1, <2>2, <2>3, <2>5, SoleWork
    <3>2. row[w].state # "stopped" /\ "file" \in token[w]
      BY <1>a, <2>1, <3>1 DEF Agreed, CallFits, TokenOfStart, Awaited
    <3>3. "file" \in token'[w]
      BY <2>3, <3>2
    <3> QED
      BY <1>k, <2>1, <2>3, <3>1, <3>2, <3>3, AnswerAgrees
  <2> QED
    BY <2>4, <2>5
<1>3. CASE controllerStartFails(w)
  <2>1. /\ Answer(w, "start", WorkOf("start"), "failed") /\ UNCHANGED <<adopted, disturbed>>
        /\ token' = [token EXCEPT ![w] = @ \ {"start"}]
        /\ ctl[w] \intersect WorkOf("start") # {}
        /\ inst' = inst \/ inst' = [inst EXCEPT ![w] = "Stopped"]
    BY <1>3, <1>k DEF controllerStartFails
  <2>2. /\ \A v \in Workspaces \ {w} : token'[v] = token[v] /\ inst'[v] = inst[v]
        /\ token'[w] = token[w] \ {"start"}
    BY <1>f, <2>1
  <2>3. CASE disturbed[w]
    BY <1>k, <2>1, <2>2, <2>3, AnswerAgrees
  <2>4. CASE ~disturbed[w]
    <3>1. Awaited(w, "start") /\ ctl[w] \ WorkOf("start") = {}
      BY <1>k, <2>1, <2>4, SoleWork
    <3>2. row[w].state # "stopped"
      BY <1>a, <3>1 DEF Agreed, CallFits, Awaited
    <3> QED
      BY <1>k, <2>1, <2>2, <3>1, <3>2, AnswerAgrees
  <2> QED
    BY <2>3, <2>4
<1>4. CASE controllerStop(w)
  <2>1. PICK answer \in {"ok", "failed"} :
          /\ Answer(w, "stop", WorkOf("stop"), answer)
          /\ \/ /\ answer = "ok" /\ inst' = [inst EXCEPT ![w] = "Stopped"] /\ Agrees(w, "stop")
             \/ answer = "failed" /\ UNCHANGED <<inst, adopted, disturbed>>
    BY <1>4, <1>k DEF controllerStop
  <2>2. token' = token /\ ctl[w] \intersect WorkOf("stop") # {}
    BY <1>4, <1>k DEF controllerStop
  <2>3. ctl'[w] = ctl[w] \ WorkOf("stop")
    BY <1>f, <2>1 DEF Answer
  <2>4. /\ \A v \in Workspaces \ {w} :
              inst'[v] = inst[v] /\ adopted'[v] = adopted[v] /\ disturbed'[v] = disturbed[v]
        /\ answer = "ok" => inst'[w] = "Stopped"
        /\ \/ disturbed' = disturbed
           \/ Awaited(w, "stop") /\ ctl'[w] = {}
    BY <1>f, <2>1, AgreesTells
  <2>5. CASE disturbed'[w]
    BY <1>k, <2>1, <2>2, <2>4, <2>5, AnswerAgrees
  <2>6. CASE ~disturbed'[w]
    <3>1. Awaited(w, "stop") /\ ctl[w] \ WorkOf("stop") = {}
      BY <1>k, <2>2, <2>3, <2>4, <2>6, SoleWork
    <3>2. row[w].state # "stopped"
      BY <1>a, <3>1 DEF Agreed, CallFits, Awaited
    <3> QED
      BY <1>k, <2>1, <2>2, <2>4, <3>1, <3>2, AnswerAgrees
  <2> QED
    BY <2>5, <2>6
<1>5. CASE controllerOperate(w)
  <2>1. PICK answer \in {"ok", "failed"} :
          Answer(w, "operate", WorkOf("operate"), answer) /\ (answer = "ok" => inst[w] = "Stopped")
    BY <1>5, <1>k DEF controllerOperate
  <2>2. UNCHANGED <<inst, token, adopted, disturbed>> /\ ctl[w] \intersect WorkOf("operate") # {}
    BY <1>5, <1>k DEF controllerOperate
  <2>3. CASE disturbed[w]
    BY <1>k, <2>1, <2>2, <2>3, AnswerAgrees
  <2>4. CASE ~disturbed[w]
    <3>1. Awaited(w, "operate") /\ ctl[w] \ WorkOf("operate") = {}
      BY <1>k, <2>2, <2>4, SoleWork
    <3>2. row[w].state = "stopped" => inst[w] = "Stopped" \/ adopted[w]
      BY <1>a, <2>4 DEF Agreed, RowTells
    <3> QED
      BY <1>k, <2>1, <2>2, <3>1, <3>2, AnswerAgrees
  <2> QED
    BY <2>3, <2>4
<1> QED
  BY <1>1, <1>2, <1>3, <1>4, <1>5

(* The steps of a start before its answer, and changes from outside. *)
LEMMA InstanceAgrees ==
    ASSUME IInv, AInv, NEW w \in Workspaces,
           controllerPrepare(w) \/ controllerBoot(w) \/ OutsideChange(w)
    PROVE  AInv'
<1>f. /\ inst \in [Workspaces -> Statuses] /\ token \in [Workspaces -> SUBSET TokenPlaces]
      /\ disturbed \in [Workspaces -> BOOLEAN] /\ ctl \in [Workspaces -> SUBSET Work]
  BY DEF IInv, TypeOK
<1>a. Agreed(w)
  BY DEF AInv
<1>1. UNCHANGED <<row, adopted, call, pc, picked, heldOut, listed>>
  BY DEF controllerPrepare, controllerBoot, OutsideChange, sweepVars
<1>2. \A v \in Workspaces \ {w} : Same(v)
  BY <1>f, <1>1 DEF controllerPrepare, controllerBoot, OutsideChange, ghostVars, Same
<1>3. CallFits(w)'
  BY <1>a, <1>1 DEF Agreed, CallFits
(* A start under way: its instance is disturbed, or the worker waits for it. *)
<1>4. ASSUME ctl[w] \intersect StartWork # {}, disturbed' = disturbed,
             ctl'[w] \subseteq ctl[w] \union StartWork, TokenOfStart(w)'
      PROVE  AInv'
  <2>1. WorkOf("start") = StartWork /\ "start" \in Kinds
    BY DEF WorkOf, Kinds
  <2>2. CASE disturbed[w]
    <3>1. OwnWork(w)' /\ RowTells(w)' /\ AnswerTells(w)'
      BY <1>4, <2>2 DEF OwnWork, RowTells, AnswerTells
    <3> QED
      BY <1>1, <1>2, <1>3, <1>4, <2>2, <3>1, OneMoves DEF Agreed
  <2>3. CASE ~disturbed[w]
    <3>1. Awaited(w, "start") /\ ctl[w] \ StartWork = {}
      BY <1>4, <2>1, <2>3, SoleWork
    <3>2. /\ row[w].state = "starting" /\ call[w].phase = "sent" /\ call[w].kind = "start"
          /\ w \in InFlight
      BY <1>a, <3>1 DEF Agreed, CallFits, Awaited, InFlight
    <3>3. OwnWork(w)' /\ RowTells(w)' /\ AnswerTells(w)'
      BY <1>1, <1>4, <2>1, <3>1, <3>2 DEF OwnWork, RowTells, AnswerTells
    <3> QED
      BY <1>1, <1>2, <1>3, <1>4, <3>2, <3>3, OneMoves DEF Agreed
  <2> QED
    BY <2>2, <2>3
<1>5. CASE controllerPrepare(w)
  <2>1. /\ "start" \in ctl[w] /\ disturbed' = disturbed
        /\ ctl'[w] = (ctl[w] \ {"start"}) \union {"prepared"}
        /\ token'[w] = IF "start" \in token[w] THEN token[w] \union {"file"} ELSE token[w] \ {"file"}
    BY <1>5, <1>f DEF controllerPrepare, ghostVars
  <2>2. TokenOfStart(w)'
    BY <1>a, <1>1, <2>1 DEF Agreed, TokenOfStart
  <2> QED
    BY <1>4, <2>1, <2>2 DEF StartWork
<1>6. CASE controllerBoot(w)
  <2>1. /\ "prepared" \in ctl[w] /\ disturbed' = disturbed
        /\ ctl'[w] = (ctl[w] \ {"prepared"}) \union {"booted"} /\ token' = token
    BY <1>6, <1>f DEF controllerBoot, ghostVars
  <2>2. TokenOfStart(w)'
    BY <1>a, <1>1, <2>1 DEF Agreed, TokenOfStart
  <2> QED
    BY <1>4, <2>1, <2>2 DEF StartWork
<1>7. CASE OutsideChange(w)
  <2>1. disturbed'[w] /\ UNCHANGED <<ctl, token>>
    BY <1>7, <1>f DEF OutsideChange
  <2>2. OwnWork(w)' /\ RowTells(w)' /\ AnswerTells(w)' /\ TokenOfStart(w)'
    BY <1>a, <1>1, <2>1 DEF Agreed, OwnWork, RowTells, AnswerTells, TokenOfStart
  <2> QED
    BY <1>1, <1>2, <1>3, <2>1, <2>2, OneMoves DEF Agreed
<1> QED
  BY <1>5, <1>6, <1>7

-----------------------------------------------------------------------------
(* Students and administrators: only an insert and Re-provision write a state. *)
LEMMA ApiAgrees ==
    ASSUME IInv, AInv, NEW w \in Workspaces, Api(w)
    PROVE  AInv'
<1>r. /\ row[w] \in Row /\ row \in [Workspaces -> Row] /\ request \in [Workspaces -> Requests]
  BY DEF IInv, TypeOK
<1>a. Agreed(w)
  BY DEF AInv
<1>1. UNCHANGED <<inst, ctl, token, adopted, call, disturbed, pc, picked, heldOut, listed>>
  <2>1. ApiLeaves
    BY DEF Api, createRow, setDesiredRead, setDesiredWrite, openPresenceInsert,
       openPresenceUpdate, dropPresence, losePresence, setArchived, disableOwner,
       reprovisionWorkspace, requestOperation, noteActivity
  <2> QED
    BY <2>1 DEF ApiLeaves, ctlVars, sweepVars
<1>0. ASSUME NEW x, row' = [row EXCEPT ![w] = x],
             \/ x.state = row[w].state
             \/ row[w].state \in {"none", "error"} /\ x.state = "provisioning"
      PROVE  AInv'
  <2>1. (\A v \in Workspaces \ {w} : Same(v)) /\ row'[w].state = x.state
    BY <1>r, <1>0, <1>1 DEF Same
  <2>2. Agreed(w)'
    BY <1>a, <1>0, <1>1, <2>1 DEF Agreed, CallFits, OwnWork, RowTells, AnswerTells, TokenOfStart
  <2> QED
    BY <1>1, <2>1, <2>2, OneMoves
<1>2. CASE UNCHANGED row
  <2>1. row' = [row EXCEPT ![w] = row[w]]
    BY <1>r, <1>2
  <2> QED
    BY <1>0, <2>1
<1>3. CASE createRow(w)
  BY <1>0, <1>3 DEF createRow, Exists, NewRow, NoRow
<1>4. CASE setDesiredWrite(w)
  BY <1>0, <1>4, <1>r, ApiStates DEF setDesiredWrite, Requests
<1>5. CASE openPresenceUpdate(w)
  BY <1>0, <1>5, <1>r, ApiStates DEF openPresenceUpdate
<1>6. CASE setArchived(w)
  BY <1>0, <1>6, <1>r, ApiStates DEF setArchived
<1>7. CASE disableOwner(w)
  BY <1>0, <1>7, <1>r, ApiStates DEF disableOwner
<1>8. CASE reprovisionWorkspace(w)
  BY <1>0, <1>8, <1>r, ApiStates DEF reprovisionWorkspace
<1>9. CASE requestOperation(w)
  BY <1>0, <1>9, <1>r, ApiStates DEF requestOperation
<1>10. CASE noteActivity(w)
  BY <1>0, <1>10, <1>r, ApiStates DEF noteActivity
<1> QED
  BY <1>2, <1>3, <1>4, <1>5, <1>6, <1>7, <1>8, <1>9, <1>10
  DEF Api, setDesiredRead, openPresenceInsert, dropPresence, losePresence

-----------------------------------------------------------------------------
(* The sweep *)

SweepFrame == UNCHANGED <<inst, ctl, token, adopted, disturbed>>

(* A statement that begins no call and writes no state. *)
LEMMA QuietSweep ==
    ASSUME IInv, AInv, SweepFrame, UNCHANGED call,
           \A w \in Workspaces : row'[w].state = row[w].state,
           \A w \in Workspaces : ListIsFresh(w)'
    PROVE  AInv'
<1>1. \A w \in Workspaces : Same(w)
  BY DEF SweepFrame, Same
<1> QED
  BY <1>1, SameAgreed DEF AInv

LEMMA SelectsAgree ==
    ASSUME IInv, AInv,
           \/ expireConnections \/ stampDisconnected \/ clearDisconnected \/ armDeadlines
           \/ startStopped \/ stopRunning \/ stopForOperation \/ stopAfterGrace \/ warnIdle
           \/ retryErrored
           \/ skipRefresh \/ beginRefresh \/ listInstances \/ readTracked
    PROVE  AInv'
<1>r. \A w \in Workspaces : row[w] \in Row
  BY DEF IInv, TypeOK
<1>1. SweepFrame /\ UNCHANGED call
  BY DEF expireConnections, stampDisconnected, clearDisconnected, armDeadlines, startStopped,
     stopRunning, stopForOperation, stopAfterGrace, warnIdle, retryErrored, skipRefresh, beginRefresh,
     listInstances, readTracked, SweepFrame, ctlVars, ghostVars
<1>2. \A w \in Workspaces : row'[w].state = row[w].state
  <2>1. \A r \in Row : /\ [r EXCEPT !.disconnected = TRUE].state = r.state
                       /\ [r EXCEPT !.disconnected = FALSE, !.deadline = FALSE].state = r.state
                       /\ \A b : [r EXCEPT !.deadline = b].state = r.state
                       /\ [r EXCEPT !.idleStop = TRUE].state = r.state
                       /\ [r EXCEPT !.idleStop = FALSE].state = r.state
    BY DEF Row
  <2>2. CASE stampDisconnected
    BY <1>r, <2>1, <2>2 DEF stampDisconnected
  <2>3. CASE clearDisconnected
    BY <1>r, <2>1, <2>3 DEF clearDisconnected
  <2>4. CASE armDeadlines
    <3>1. PICK armed \in SUBSET Workspaces :
            row' = [w \in Workspaces |->
                      IF row[w].state = "running" /\ row[w].disconnected
                      THEN [row[w] EXCEPT !.deadline = (w \in armed)] ELSE row[w]]
      BY <2>4 DEF armDeadlines
    <3>2. \A w \in Workspaces : [row[w] EXCEPT !.deadline = (w \in armed)].state = row[w].state
      BY <1>r DEF Row
    <3> QED
      BY <3>1, <3>2
  <2>5. CASE warnIdle
    BY <1>r, <2>1, <2>5, WarnedRows
  <2>6. CASE UNCHANGED row
    BY <2>6
  <2> QED
    BY <2>2, <2>3, <2>4, <2>5, <2>6
    DEF expireConnections, startStopped, stopRunning, stopForOperation, stopAfterGrace, retryErrored,
        skipRefresh, beginRefresh, listInstances, readTracked
<1>3. ASSUME NEW w \in Workspaces PROVE ListIsFresh(w)'
  <2>1. CASE listInstances
    BY <1>1, <2>1 DEF listInstances, ListIsFresh, SweepFrame
  <2>2. CASE readTracked
    <3>1. pc = "read tracked" /\ pc' \in {"drift", "expire"}
      BY <2>2 DEF readTracked, Select
    <3>2. pc' = "drift" => picked' \subseteq Workspaces \ heldOut /\ listed' = listed
      BY <2>2 DEF readTracked, Select
    <3> QED
      BY <1>1, <3>1, <3>2 DEF AInv, ListIsFresh, SweepFrame
  <2>3. CASE ~listInstances /\ ~readTracked
    <3>1. pc' \notin {"read tracked", "drift"}
      BY <2>3 DEF expireConnections, stampDisconnected, clearDisconnected, armDeadlines,
         startStopped, stopRunning, stopForOperation, stopAfterGrace, warnIdle, retryErrored, skipRefresh,
         beginRefresh, Select
    <3> QED
      BY <3>1 DEF ListIsFresh
  <2> QED
    BY <2>1, <2>2, <2>3
<1> QED
  BY <1>1, <1>2, <1>3, QuietSweep

(* Statements that begin a call for each row of S: none of these rows has a
   call, and each is left in the state its new call is about. *)
LEMMA CallsBegin ==
    ASSUME IInv, AInv, SweepFrame, NEW S \in SUBSET (Workspaces \ InFlight),
           NEW kind \in Kinds, NEW c, track(S, c),
           \A w \in S : \E from \in States, op \in PendingOperations :
              /\ c[w] = NewCall(kind, from, op)
              /\ \/ kind = "create" /\ op = "none" /\ row'[w].state = "provisioning"
                 \/ kind = "start" /\ op = "none" /\ row'[w].state = "starting"
                 \/ kind = "stop" /\ op = "none" /\ row'[w].state = "stopping"
                 \/ /\ kind = "operate" /\ from \in {"stopped", "error"}
                    /\ row[w].state = from /\ row'[w].state = from,
           \A w \in Workspaces \ S : row'[w].state = row[w].state,
           \A w \in Workspaces : ListIsFresh(w)'
    PROVE  AInv'
<1>1. \A w \in Workspaces : call'[w] = IF w \in S THEN c[w] ELSE call[w]
  BY DEF track
<1>2. ASSUME NEW w \in Workspaces \ S PROVE Agreed(w)'
  <2>1. Same(w)
    BY <1>1, <1>2 DEF Same, SweepFrame
  <2> QED
    BY <2>1, SameAgreed DEF AInv
<1>3. ASSUME NEW w \in S PROVE Agreed(w)'
  <2>1. PICK from \in States, op \in PendingOperations :
              /\ c[w] = NewCall(kind, from, op)
              /\ \/ kind = "create" /\ op = "none" /\ row'[w].state = "provisioning"
                 \/ kind = "start" /\ op = "none" /\ row'[w].state = "starting"
                 \/ kind = "stop" /\ op = "none" /\ row'[w].state = "stopping"
                 \/ /\ kind = "operate" /\ from \in {"stopped", "error"}
                    /\ row[w].state = from /\ row'[w].state = from
    OBVIOUS
  <2>2. /\ call'[w].kind = kind /\ call'[w].phase \in {"queued", "active"}
        /\ call'[w].from = from /\ call'[w].operation = op
    BY <1>1, <1>3, <2>1 DEF NewCall
  <2>3. call[w].phase = "none" /\ Agreed(w)
    BY CallShape DEF AInv
  <2>4. CallFits(w)'
    BY <2>1, <2>2 DEF CallFits
  <2>5. OwnWork(w)' /\ AnswerTells(w)' /\ TokenOfStart(w)'
    BY <2>2, <2>3 DEF SweepFrame, Agreed, OwnWork, AnswerTells, TokenOfStart
  <2>6. RowTells(w)'
    BY <2>1, <2>2, <2>3 DEF SweepFrame, Agreed, RowTells, Kinds
  <2> QED
    BY <2>4, <2>5, <2>6 DEF Agreed
<1> QED
  BY <1>2, <1>3 DEF AInv

(* The same for the calls that change a state: the rows of S move to the state
   of the call that begins, and no other row moves. *)
Moves(S, kind, state) ==
    /\ \/ kind = "start" /\ state = "starting"
       \/ kind = "stop" /\ state = "stopping"
    /\ track(S, [w \in Workspaces |-> NewCall(kind, state, "none")])
    /\ \A w \in S : row'[w].state = state
    /\ \A w \in Workspaces \ S : row'[w].state = row[w].state

LEMMA TransitsBegin ==
    ASSUME IInv, AInv, SweepFrame, \A w \in Workspaces : ListIsFresh(w)',
           NEW S \in SUBSET (Workspaces \ InFlight), NEW kind, NEW state,
           Moves(S, kind, state)
    PROVE  AInv'
<1>1. kind \in Kinds /\ state \in States /\ "none" \in PendingOperations
  BY DEF Moves, Kinds, States, PendingOperations
<1>2. PICK c : track(S, c) /\ c = [w \in Workspaces |-> NewCall(kind, state, "none")]
  BY DEF Moves
<1>3. ASSUME NEW w \in S
      PROVE  \E from \in States, op \in PendingOperations :
              /\ c[w] = NewCall(kind, from, op)
              /\ \/ kind = "create" /\ op = "none" /\ row'[w].state = "provisioning"
                 \/ kind = "start" /\ op = "none" /\ row'[w].state = "starting"
                 \/ kind = "stop" /\ op = "none" /\ row'[w].state = "stopping"
                 \/ /\ kind = "operate" /\ from \in {"stopped", "error"}
                    /\ row[w].state = from /\ row'[w].state = from
  <2>1. c[w] = NewCall(kind, state, "none")
    BY <1>2
  <2>2. \/ kind = "start" /\ row'[w].state = "starting"
        \/ kind = "stop" /\ row'[w].state = "stopping"
    BY DEF Moves
  <2> QED
    BY ONLY <1>1, <2>1, <2>2
<1>4. \A w \in Workspaces \ S : row'[w].state = row[w].state
  BY DEF Moves
<1> QED
  BY <1>1, <1>2, <1>3, <1>4, CallsBegin

LEMMA BeginsAgree ==
    ASSUME IInv, AInv,
           createProvisioning \/ stopIdle \/ runMaintenance
    PROVE  AInv'
<1>r. \A w \in Workspaces : row[w] \in Row
  BY DEF IInv, TypeOK
<1>1. SweepFrame
  BY DEF createProvisioning, stopIdle, runMaintenance, SweepFrame, ctlVars
<1>2. \A w \in Workspaces : ListIsFresh(w)'
  BY DEF createProvisioning, stopIdle, runMaintenance, ListIsFresh
<1>k. /\ {"create", "operate"} \subseteq Kinds /\ "none" \in PendingOperations
      /\ "provisioning" \in States
  BY DEF Kinds, PendingOperations, States
<1>3. CASE createProvisioning
  <2>1. PICK S, c : /\ track(S, c)
                    /\ S = {w \in Workspaces \ InFlight : row[w].state = "provisioning"}
                    /\ c = [w \in Workspaces |-> NewCall("create", "provisioning", "none")]
    BY <1>3 DEF createProvisioning
  <2>2. row' = row /\ "create" \in Kinds
    BY <1>3, <1>k DEF createProvisioning
  <2>3. \A w \in S : /\ c[w] = NewCall("create", "provisioning", "none")
                     /\ row'[w].state = "provisioning"
    BY <2>1, <2>2
  <2> QED
    BY <1>1, <1>2, <1>k, <2>1, <2>2, <2>3, CallsBegin
<1>4. ASSUME NEW due \in SUBSET (Workspaces \ InFlight),
             row' = [w \in Workspaces |-> IF w \in due THEN stopUnwanted(row[w]) ELSE row[w]],
             track(due, [w \in Workspaces |-> NewCall("stop", "stopping", "none")])
      PROVE  AInv'
  <2>1. \A w \in due : row'[w].state = "stopping"
    BY <1>r, <1>4, WorkerStates
  <2>2. \A w \in Workspaces \ due : row'[w].state = row[w].state
    BY <1>4
  <2>3. Moves(due, "stop", "stopping")
    BY <1>4, <2>1, <2>2 DEF Moves
  <2> QED
    BY ONLY IInv, AInv, <1>1, <1>2, <1>4, <2>3, TransitsBegin
<1>6. CASE stopIdle
  BY <1>4, <1>6 DEF stopIdle
<1>7. CASE runMaintenance
  <2>1. PICK S, c : /\ track(S, c)
                    /\ S = {w \in Workspaces \ InFlight : toMaintain(row[w])}
                    /\ c = [w \in Workspaces |->
                              NewCall("operate", row[w].state, row[w].operation)]
    BY <1>7 DEF runMaintenance
  <2>2. row' = row /\ "operate" \in Kinds
    BY <1>7, <1>k DEF runMaintenance
  <2>3. \A w \in S : /\ c[w] = NewCall("operate", row[w].state, row[w].operation)
                     /\ row[w].state \in {"stopped", "error"} /\ row[w].state \in States
                     /\ row[w].operation \in PendingOperations
    BY <1>r, <2>1 DEF toMaintain, Row
  <2> QED
    BY <1>1, <1>2, <2>1, <2>2, <2>3, CallsBegin
<1> QED
  BY <1>3, <1>6, <1>7

(* Acting on a picked row leads to no list. *)
LEMMA NotDrifting ==
    ASSUME NEW w, NEW next \in {"stop", "stop for operation", "deadline", "idle warn", "maintain"},
           pc \notin {"read tracked", "drift"}, Acted(w, next)
    PROVE  \A v \in Workspaces : ListIsFresh(v)'
BY DEF Acted, ListIsFresh

LEMMA ActsAgree ==
    ASSUME IInv, AInv, NEW w \in Workspaces,
           \/ startStoppedAct(w) \/ stopRunningAct(w) \/ waitForPoints(w)
           \/ stopForOperationAct(w) \/ stopAfterGraceAct(w) \/ retryErroredAct(w)
    PROVE  AInv'
<1>r. row[w] \in Row /\ row \in [Workspaces -> Row]
  BY DEF IInv, TypeOK
<1>1. ASSUME NEW from \in {"stopped", "error"}, NEW next \in {"stop", "maintain"},
             pc \in {"start act", "retry act"}, startInBackground(w, from, next)
      PROVE  AInv'
  <2>1. SweepFrame /\ \A v \in Workspaces : ListIsFresh(v)'
    BY <1>1, NotDrifting DEF startInBackground, SweepFrame, ctlVars
  <2>2. PICK S : /\ S = IF row[w].state = from THEN {w} ELSE {}
                 /\ track(S, [v \in Workspaces |-> NewCall("start", "starting", "none")])
    BY <1>1 DEF startInBackground
  <2>3. w \notin InFlight
    BY <1>1 DEF startInBackground, IInv, PickedStayFree
  <2>4. S \in SUBSET (Workspaces \ InFlight)
    BY <2>2, <2>3
  <2>5. moveToStarting(row[w], from).state = "starting"
    BY <1>r, WorkerStates DEF States
  <2>6. \A v \in S : row'[v].state = "starting"
    BY <1>r, <1>1, <2>2, <2>5 DEF startInBackground, casUpdate
  <2>7. \A v \in Workspaces \ S : row'[v].state = row[v].state
    BY <1>r, <1>1, <2>2 DEF startInBackground, casUpdate
  <2>8. track(S, [v \in Workspaces |-> NewCall("start", "starting", "none")])
    BY <2>2
  <2>9. Moves(S, "start", "starting")
    BY <2>6, <2>7, <2>8 DEF Moves
  <2> QED
    BY ONLY IInv, AInv, <2>1, <2>4, <2>9, TransitsBegin
<1>2. ASSUME NEW next \in {"stop for operation", "deadline"},
             pc \in {"stop act", "operation act"}, stopInBackground(w, next)
      PROVE  AInv'
  <2>1. SweepFrame /\ \A v \in Workspaces : ListIsFresh(v)'
    BY <1>2, NotDrifting DEF stopInBackground, SweepFrame, ctlVars
  <2>2. PICK S : /\ S = IF row[w].state = "running" THEN {w} ELSE {}
                 /\ track(S, [v \in Workspaces |-> NewCall("stop", "stopping", "none")])
    BY <1>2 DEF stopInBackground
  <2>3. w \notin InFlight
    BY <1>2 DEF stopInBackground, IInv, PickedStayFree
  <2>4. S \in SUBSET (Workspaces \ InFlight)
    BY <2>2, <2>3
  <2>5. [row[w] EXCEPT !.state = "stopping"].state = "stopping"
    BY <1>r DEF Row
  <2>6. \A v \in S : row'[v].state = "stopping"
    BY <1>r, <1>2, <2>2, <2>5 DEF stopInBackground, casUpdate
  <2>7. \A v \in Workspaces \ S : row'[v].state = row[v].state
    BY <1>r, <1>2, <2>2 DEF stopInBackground, casUpdate
  <2>8. track(S, [v \in Workspaces |-> NewCall("stop", "stopping", "none")])
    BY <2>2
  <2>9. Moves(S, "stop", "stopping")
    BY <2>6, <2>7, <2>8 DEF Moves
  <2> QED
    BY ONLY IInv, AInv, <2>1, <2>4, <2>9, TransitsBegin
<1>3. CASE waitForPoints(w)
  <2>1. \A v \in Workspaces : ListIsFresh(v)'
    BY <1>3, NotDrifting DEF waitForPoints
  <2> QED
    BY <1>3, <2>1, QuietSweep DEF waitForPoints, SweepFrame, ctlVars, ghostVars
<1>4. CASE stopAfterGraceAct(w)
  <2>1. SweepFrame /\ \A v \in Workspaces : ListIsFresh(v)'
    BY <1>4, NotDrifting DEF stopAfterGraceAct, SweepFrame, ctlVars
  <2> DEFINE due == row[w].state = "running" /\ row[w].deadline
             S == IF due THEN {w} ELSE {}
  <2>2. /\ row' = IF due THEN [row EXCEPT ![w] = stopUnwanted(@)] ELSE row
        /\ track(S, [v \in Workspaces |-> NewCall("stop", "stopping", "none")])
    BY <1>4 DEF stopAfterGraceAct
  <2>3. w \notin InFlight
    BY <1>4 DEF stopAfterGraceAct, IInv, PickedStayFree
  <2>4. S \in SUBSET (Workspaces \ InFlight)
    BY <2>2, <2>3
  <2>5. stopUnwanted(row[w]).state = "stopping"
    BY <1>r, WorkerStates
  <2>6. \A v \in S : row'[v].state = "stopping"
    BY <1>r, <2>2, <2>5
  <2>7. \A v \in Workspaces \ S : row'[v].state = row[v].state
    BY <1>r, <2>2
  <2>8. Moves(S, "stop", "stopping")
    BY <2>2, <2>6, <2>7 DEF Moves
  <2> QED
    BY ONLY IInv, AInv, <2>1, <2>4, <2>8, TransitsBegin
<1> QED
  BY <1>1, <1>2, <1>3, <1>4
  DEF startStoppedAct, stopRunningAct, stopForOperationAct, retryErroredAct

(* Drift has nothing to correct in a row whose instance nothing disturbed,
   except that the instance is missing, or up since a create adopted it. *)
LEMMA DriftAgrees ==
    ASSUME IInv, AInv, NEW w \in Workspaces,
           \/ nothingToResolve(w) \/ resolveMissingInstance(w)
           \/ resolveObservedStopped(w) \/ resolveObservedRunning(w)
           \/ resolveErrored(w) \/ resolveStarting(w) \/ resolveStopping(w)
    PROVE  AInv'
<1>r. row[w] \in Row /\ row \in [Workspaces -> Row]
  BY DEF IInv, TypeOK
<1>1. Resolved(w)
  BY DEF nothingToResolve, resolveMissingInstance, resolveObservedStopped,
     resolveObservedRunning, resolveErrored, resolveStarting, resolveStopping
<1>2. SweepFrame
  BY <1>1 DEF Resolved, nothingToResolve, resolveMissingInstance, resolveObservedStopped,
     resolveObservedRunning, resolveErrored, resolveStarting, resolveStopping, SweepFrame,
     ctlVars, ghostVars
<1>3. \A v \in Workspaces : ListIsFresh(v)'
  <2>1. CASE picked = {w}
    BY <1>1, <2>1 DEF Resolved, Acted, ListIsFresh
  <2>2. CASE picked # {w}
    <3>1. pc' = "drift" /\ pc = "drift" /\ picked' \subseteq picked /\ listed' = listed
      BY <1>1, <2>2 DEF Resolved, Acted
    <3> QED
      BY <1>2, <3>1 DEF AInv, ListIsFresh, SweepFrame
  <2> QED
    BY <2>1, <2>2
<1>4. /\ w \notin InFlight /\ call[w].kind = "none" /\ call[w].phase = "none"
      /\ Agreed(w) /\ (~disturbed[w] => listed[w] = inst[w])
  <2>1. pc = "drift" /\ w \in picked
    BY <1>1 DEF Resolved
  <2> QED
    BY <2>1, CallShape DEF IInv, PickedStayFree, AInv, ListIsFresh
(* A row that is written truthfully, or whose instance is disturbed. *)
<1>5. ASSUME UNCHANGED call, \A v \in Workspaces \ {w} : row'[v].state = row[v].state,
             \/ disturbed[w]
             \/ row'[w].state = row[w].state
             \/ row'[w].state = "error"
             \/ row'[w].state = "running" /\ inst[w] = "Running" /\ adopted[w]
      PROVE  AInv'
  <2>1. ASSUME NEW v \in Workspaces \ {w} PROVE Agreed(v)'
    <3>1. Same(v)
      BY <1>2, <1>5, <2>1 DEF Same, SweepFrame
    <3> QED
      BY <3>1, SameAgreed DEF AInv
  <2>2. CallFits(w)' /\ OwnWork(w)' /\ AnswerTells(w)' /\ TokenOfStart(w)'
    BY <1>2, <1>4, <1>5 DEF Agreed, CallFits, OwnWork, AnswerTells, TokenOfStart, SweepFrame
  <2>3. RowTells(w)'
    BY <1>2, <1>4, <1>5 DEF Agreed, RowTells, SweepFrame
  <2> QED
    BY <1>3, <2>1, <2>2, <2>3 DEF AInv, Agreed
<1>6. \A from, x : casUpdate(w, from, x) =>
         /\ \A v \in Workspaces \ {w} : row'[v] = row[v]
         /\ row'[w] = IF row[w].state = from THEN x ELSE row[w]
  BY <1>r DEF casUpdate
<1>7. CASE nothingToResolve(w)
  BY <1>5, <1>7 DEF nothingToResolve
<1>8. CASE resolveMissingInstance(w)
  BY <1>5, <1>6, <1>8, <1>r, WorkerStates DEF resolveMissingInstance
<1>9. CASE resolveObservedStopped(w)
  <2>1. ~disturbed[w] => row[w].state # "running"
    BY <1>4, <1>9 DEF resolveObservedStopped, Agreed, RowTells
  <2> QED
    BY <1>5, <1>6, <1>9, <2>1 DEF resolveObservedStopped
<1>10. CASE resolveObservedRunning(w)
  <2>1. ~disturbed[w] /\ row[w].state = "stopped" => inst[w] = "Running" /\ adopted[w]
    BY <1>4, <1>10 DEF resolveObservedRunning, Agreed, RowTells
  <2>2. startedNow(row[w]).state = "running"
    BY <1>r, WorkerStates
  <2> QED
    BY <1>5, <1>6, <1>10, <2>1, <2>2 DEF resolveObservedRunning
<1>11. CASE resolveStarting(w)
  <2>1. ~disturbed[w] => row[w].state # "starting"
    BY <1>4 DEF Agreed, RowTells
  <2> QED
    BY <1>5, <1>6, <1>11, <2>1 DEF resolveStarting
<1>12. CASE resolveStopping(w)
  <2>1. ~disturbed[w] => row[w].state # "stopping"
    BY <1>4 DEF Agreed, RowTells
  <2> QED
    BY <1>5, <1>6, <1>12, <2>1 DEF resolveStopping
<1>13. CASE resolveErrored(w)
  <2> DEFINE stopIt == row[w].state = "error" /\ row[w].desired = "stopped"
  <2>1. PICK S : /\ S = IF stopIt THEN {w} ELSE {}
                 /\ track(S, [v \in Workspaces |-> NewCall("stop", "stopping", "none")])
                 /\ row' = IF stopIt THEN [row EXCEPT ![w] = stopErrored(@)] ELSE row
    BY <1>13 DEF resolveErrored
  <2>2. S \in SUBSET (Workspaces \ InFlight)
    BY <1>4, <2>1
  <2>3. \A v \in S : row'[v].state = "stopping"
    BY <1>r, <2>1, WorkerStates
  <2>4. \A v \in Workspaces \ S : row'[v].state = row[v].state
    BY <1>r, <2>1
  <2>5. track(S, [v \in Workspaces |-> NewCall("stop", "stopping", "none")])
    BY <2>1
  <2>6. Moves(S, "stop", "stopping")
    BY <2>3, <2>4, <2>5 DEF Moves
  <2> QED
    BY ONLY IInv, AInv, <1>2, <1>3, <2>2, <2>6, TransitsBegin
<1> QED
  BY <1>7, <1>8, <1>9, <1>10, <1>11, <1>12, <1>13

(* A worker that exits marks what its calls may still do to an instance. *)
LEMMA RestartAgrees ==
    ASSUME IInv, AInv, WorkerRestarts PROVE AInv'
<1>1. ASSUME NEW w \in Workspaces PROVE Agreed(w)' /\ ListIsFresh(w)'
  <2>1. /\ UNCHANGED <<row, inst, ctl, token, adopted>> /\ call'[w] = NoCall /\ pc' = "expire"
        /\ ~disturbed'[w] => ~disturbed[w] /\ call[w].kind = "none" /\ call[w].phase = "none"
    BY CallShape DEF WorkerRestarts, ctlVars
  <2>2. Agreed(w)
    BY DEF AInv
  <2> QED
    BY <2>1, <2>2 DEF Agreed, CallFits, OwnWork, RowTells, AnswerTells, TokenOfStart,
       ListIsFresh, NoCall
<1> QED
  BY <1>1 DEF AInv

LEMMA InitAInv == Init => AInv
BY DEF Init, AInv, Agreed, CallFits, OwnWork, RowTells, AnswerTells, TokenOfStart, ListIsFresh,
       NoCall, NoRow

LEMMA NextAInv == IInv /\ AInv /\ [Next]_vars => AInv'
<1> SUFFICES ASSUME IInv, AInv, [Next]_vars PROVE AInv'
  OBVIOUS
<1>1. CASE Sweep
  BY <1>1, SelectsAgree, BeginsAgree, ActsAgree, DriftAgrees DEF Sweep
<1>2. CASE WorkerRestarts
  BY <1>2, RestartAgrees
<1>3. ASSUME NEW w \in Workspaces, Calls(w) PROVE AInv'
  BY <1>3, EndsAgree, PhasesAgree DEF Calls
<1>4. ASSUME NEW w \in Workspaces, GiveUp(w) \/ Api(w) PROVE AInv'
  BY <1>4, PhasesAgree, ApiAgrees
<1>5. ASSUME NEW w \in Workspaces, Controller(w) \/ OutsideChange(w) PROVE AInv'
  BY <1>5, AnswersAgree, InstanceAgrees DEF Controller
<1>6. CASE UNCHANGED vars
  <2>1. \A w \in Workspaces : Same(w) /\ ListIsFresh(w)'
    BY <1>6 DEF AInv, ListIsFresh, Same, vars, ctlVars, sweepVars, ghostVars
  <2> QED
    BY <2>1, SameAgreed DEF AInv
<1> QED
  BY <1>1, <1>2, <1>3, <1>4, <1>5, <1>6 DEF Next

LEMMA Agreement == Spec => []AInv
<1>1. IInv /\ AInv /\ [Next]_vars => (IInv /\ AInv)'
  BY NextIInv, NextAInv
<1>2. Init => IInv /\ AInv
  BY InitIInv, InitAInv
<1> QED
  BY <1>1, <1>2, PTL DEF Spec

(* While no call was given up and nobody else touched its instance, a row
   without a call in flight tells the truth about it, whatever order answers,
   lists, requests and restarts come in; but for a row that a create of an
   instance which was up left as stopped. *)
THEOREM RowsTellTheTruth == Spec => []RowAgreesWithInstance
<1>1. AInv => RowAgreesWithInstance
  BY DEF AInv, Agreed, RowTells, RowAgreesWithInstance, InFlight
<1> QED
  BY <1>1, Agreement, PTL

(* Under the same conditions, and unless a create adopted the instance as it
   was up and no start or stop was answered since, the agent of a running
   workspace was booted with the token that its row holds. *)
THEOREM AgentsHoldTheirTokens == Spec => []AgentHoldsRowToken
<1>1. AInv => AgentHoldsRowToken
  BY DEF AInv, Agreed, RowTells, AgentHoldsRowToken, InFlight
<1> QED
  BY <1>1, Agreement, PTL

-----------------------------------------------------------------------------
(* A wish to run survives.

   No statement of the worker but the two stops of its own takes the wish to
   run from a row, whatever the row has become since it was read: each leaves
   desired_state alone or settles a restart into running (Leaves).  The only
   row that a request may overwrite without counting is one that is not there
   yet, and nothing wishes or connects to it (Unborn); no row becomes that
   again, because the state an operation writes back is never "none"
   (CallFits). *)

Leaves(r, x) ==
    /\ r.desired = "running" => x.desired # "stopped"
    /\ x.state = "none" => r.state = "none" /\ x.desired = r.desired

Unborn ==
    \A w \in Workspaces :
        row[w].state = "none" =>
            row[w].desired = "stopped" /\ request[w] = "none" /\ tab[w] = "closed"

OwnStop(w) ==
    /\ row[w].state = "running" /\ row'[w].state = "stopping"
    /\ row[w].idleStop \/ (pc = "deadline act" /\ w \in picked)

(* The statements of the worker. *)
LEMMA WishRows ==
    ASSUME NEW r \in Row
    PROVE  /\ Leaves(r, r)
           /\ \A from \in States : Leaves(r, moveToStarting(r, from))
           /\ Leaves(r, startedNow(r)) /\ Leaves(r, provisioned(r)) /\ Leaves(r, createRefused(r))
           /\ Leaves(r, failedWith(r, "failed")) /\ Leaves(r, failedWith(r, "STOP_FAILED"))
           /\ Leaves(r, clearGuardAtStop(r)) /\ Leaves(r, clearGuardAtStop(stopDone(r)))
           /\ Leaves(r, operationDone(r)) /\ Leaves(r, operationFailed(r))
           /\ \A from \in States \ {"none"} : Leaves(r, replaceRefused(r, from))
           /\ Leaves(r, observedStopped(r)) /\ Leaves(r, instanceMissing(r))
           /\ Leaves(r, stopErrored(r))
           /\ \A s \in States \ {"none"} : Leaves(r, [r EXCEPT !.state = s])
<1> USE DEF Leaves, Row
<1>1. /\ Leaves(r, r)
      /\ Leaves(r, startedNow(r)) /\ Leaves(r, provisioned(r)) /\ Leaves(r, createRefused(r))
  BY DEF startedNow, provisioned, createRefused
<1>2. \A from \in States : Leaves(r, moveToStarting(r, from))
  BY DEF moveToStarting, settleRestarting
<1>3. Leaves(r, failedWith(r, "failed")) /\ Leaves(r, failedWith(r, "STOP_FAILED"))
  BY DEF failedWith
<1>4. Leaves(r, clearGuardAtStop(r))
  BY DEF clearGuardAtStop
<1>5. Leaves(r, clearGuardAtStop(stopDone(r)))
  <2>1. PICK q \in Row : q = stopDone(r)
    BY WorkerRows DEF Keeps
  <2>2. q.state = "stopped" /\ (r.desired = "running" => q.desired # "stopped")
    BY <2>1 DEF stopDone, settleRestarting
  <2>3. clearGuardAtStop(q).state = q.state /\ clearGuardAtStop(q).desired = q.desired
    BY DEF clearGuardAtStop
  <2>4. Leaves(r, clearGuardAtStop(q))
    BY <2>2, <2>3
  <2> QED
    BY ONLY <2>1, <2>4
<1>6. Leaves(r, operationDone(r)) /\ Leaves(r, operationFailed(r))
  BY DEF operationDone, operationFailed, failedWith
<1>7. \A from \in States \ {"none"} : Leaves(r, replaceRefused(r, from))
  BY DEF replaceRefused
<1>8. Leaves(r, observedStopped(r)) /\ Leaves(r, instanceMissing(r))
  BY DEF observedStopped, instanceMissing, failedWith, clearGuardAtStop
<1>9. /\ Leaves(r, stopErrored(r))
      /\ \A s \in States \ {"none"} : Leaves(r, [r EXCEPT !.state = s])
  BY DEF stopErrored
<1> QED
  BY <1>1, <1>2, <1>3, <1>4, <1>5, <1>6, <1>7, <1>8, <1>9

(* One row is written, or none. *)
LEMMA OneWish ==
    ASSUME TypeOK, NEW w \in Workspaces, NEW x, Leaves(row[w], x),
           row' = [row EXCEPT ![w] = x] \/ row' = row
    PROVE  \A v \in Workspaces : Leaves(row[v], row'[v])
BY DEF TypeOK, Leaves

LEMMA CasWish ==
    ASSUME TypeOK, NEW w \in Workspaces, NEW from, NEW x, Leaves(row[w], x),
           casUpdate(w, from, x)
    PROVE  \A v \in Workspaces : Leaves(row[v], row'[v])
BY OneWish DEF casUpdate

(* What a worker's step does to the rows and to the API's state. *)
WorkerLeaves ==
    /\ \A w \in Workspaces : Leaves(row[w], row'[w]) \/ OwnStop(w)
    /\ request' = request
    /\ \A w \in Workspaces : tab[w] = "closed" => tab'[w] = "closed"

(* The ends of the calls. *)
LEMMA CallsWish ==
    ASSUME IInv, AInv, NEW w \in Workspaces, Calls(w)
    PROVE  WorkerLeaves
<1>r. TypeOK /\ \A v \in Workspaces : row[v] \in Row
  BY DEF IInv, TypeOK
<1>a. request' = request /\ tab' = tab
  BY DEF Calls, BeginCall, SendCall, createWorkspace, createAgain, startInstance, doStop,
     runOperation, runReplaceHomeEarly, runReplaceHome, apiVars
<1> SUFFICES \A v \in Workspaces : Leaves(row[v], row'[v])
  BY <1>a DEF WorkerLeaves
<1>w. \A v \in Workspaces : Leaves(row[v], row[v])
  BY <1>r, WishRows
<1>1. CASE BeginCall(w) \/ SendCall(w) \/ createAgain(w)
  BY <1>1, <1>w DEF BeginCall, SendCall, createAgain
<1>2. CASE createWorkspace(w)
  <2>1. PICK x \in {provisioned(row[w]), createRefused(row[w]), failedWith(row[w], "failed")} :
          casUpdate(w, "provisioning", x)
    BY <1>2 DEF createWorkspace
  <2>2. Leaves(row[w], x)
    BY <1>r, WishRows
  <2> QED
    BY <1>r, <2>1, <2>2, CasWish
<1>3. CASE startInstance(w)
  <2>1. PICK x \in {startedNow(row[w]), failedWith(row[w], "failed")} :
          casUpdate(w, "starting", x)
    BY <1>3 DEF startInstance
  <2>2. Leaves(row[w], x)
    BY <1>r, WishRows
  <2> QED
    BY <1>r, <2>1, <2>2, CasWish
<1>4. CASE doStop(w)
  <2>1. CASE row' = [row EXCEPT ![w] = clearGuardAtStop(IF @.state = "stopping" THEN stopDone(@)
                                                        ELSE @)]
    <3>1. PICK x \in {clearGuardAtStop(stopDone(row[w])), clearGuardAtStop(row[w])} :
            row' = [row EXCEPT ![w] = x]
      BY <2>1
    <3>2. Leaves(row[w], x)
      BY <1>r, WishRows
    <3> QED
      BY <1>r, <3>1, <3>2, OneWish
  <2>2. CASE casUpdate(w, "stopping", failedWith(row[w], "STOP_FAILED"))
    BY <1>r, <2>2, WishRows, CasWish
  <2> QED
    BY <1>4, <2>1, <2>2 DEF doStop
<1>5. CASE runOperation(w)
  <2>1. PICK x \in {operationDone(row[w]), operationFailed(row[w])} :
          casUpdate(w, call[w].from, x)
    BY <1>5 DEF runOperation
  <2>2. Leaves(row[w], x)
    BY <1>r, WishRows
  <2> QED
    BY <1>r, <2>1, <2>2, CasWish
<1>6. CASE runReplaceHomeEarly(w) \/ runReplaceHome(w)
  <2>1. call[w].operation = "replace-home"
    BY <1>6 DEF runReplaceHomeEarly, runReplaceHome
  <2>2. PICK from : from = call[w].from
    OBVIOUS
  <2>3. from \in States \ {"none"}
    BY <2>1, <2>2 DEF AInv, Agreed, CallFits, States
  <2>4. PICK x \in {operationDone(row[w]), operationFailed(row[w]), row[w],
                    replaceRefused(row[w], from)} :
          row' = [row EXCEPT ![w] = x] \/ row' = row
    <3>1. CASE runReplaceHomeEarly(w)
      BY <3>1, <2>2 DEF runReplaceHomeEarly
    <3>2. CASE runReplaceHome(w)
      <4>1. PICK y \in {operationDone(row[w]), operationFailed(row[w]), row[w],
                        replaceRefused(row[w], from)} :
              row' = [row EXCEPT ![w] = IF @.operation = "replace-home" THEN y ELSE @]
        BY <3>2, <2>2 DEF runReplaceHome
      <4> QED
        BY <4>1
    <3> QED
      BY <1>6, <3>1, <3>2
  <2>5. Leaves(row[w], x)
    BY <1>r, <2>3, WishRows
  <2> QED
    BY <1>r, <2>4, <2>5, OneWish
<1> QED
  BY <1>1, <1>2, <1>3, <1>4, <1>5, <1>6 DEF Calls

(* The sweep. *)
LEMMA SweepWish ==
    ASSUME IInv, AInv, Sweep
    PROVE  WorkerLeaves
<1>r. TypeOK /\ \A v \in Workspaces : row[v] \in Row
  BY DEF IInv, TypeOK
<1>w. \A v \in Workspaces : Leaves(row[v], row[v])
  BY <1>r, WishRows
<1>a. request' = request /\ (tab' = tab \/ expireConnections)
  BY DEF Sweep, expireConnections, stampDisconnected, clearDisconnected, armDeadlines,
     createProvisioning, startStopped, stopRunning, stopForOperation, stopAfterGrace, warnIdle,
     stopIdle, retryErrored, runMaintenance, skipRefresh, beginRefresh, listInstances,
     readTracked, startStoppedAct, stopRunningAct, waitForPoints, stopForOperationAct,
     stopAfterGraceAct, retryErroredAct, startInBackground, stopInBackground, Resolved, nothingToResolve,
     resolveMissingInstance, resolveObservedStopped, resolveObservedRunning, resolveErrored,
     resolveStarting, resolveStopping, apiVars
<1>b. \A w \in Workspaces : tab[w] = "closed" => tab'[w] = "closed"
  BY <1>a DEF expireConnections
<1> SUFFICES \A v \in Workspaces : Leaves(row[v], row'[v]) \/ OwnStop(v)
  BY <1>a, <1>b DEF WorkerLeaves
<1>1. CASE row' = row
  BY <1>1, <1>w
<1>2. CASE stampDisconnected \/ clearDisconnected \/ armDeadlines \/ warnIdle
  <2>1. ASSUME NEW v \in Workspaces
        PROVE  row'[v].state = row[v].state /\ row'[v].desired = row[v].desired
    <3>1. PICK r \in Row : r = row[v]
      BY <1>r
    <3>2. CASE armDeadlines
      <4>1. PICK armed \in SUBSET Workspaces :
              row' = [w \in Workspaces |->
                        IF row[w].state = "running" /\ row[w].disconnected
                        THEN [row[w] EXCEPT !.deadline = (w \in armed)] ELSE row[w]]
        BY <3>2 DEF armDeadlines
      <4>2. \A w \in Workspaces :
              /\ [row[w] EXCEPT !.deadline = (w \in armed)].state = row[w].state
              /\ [row[w] EXCEPT !.deadline = (w \in armed)].desired = row[w].desired
        BY <1>r DEF Row
      <4> QED
        BY <4>1, <4>2
    <3>3. CASE stampDisconnected \/ clearDisconnected \/ warnIdle
      <4>1. row'[v] \in {r, [r EXCEPT !.disconnected = TRUE],
                         [r EXCEPT !.disconnected = FALSE, !.deadline = FALSE],
                         [r EXCEPT !.idleStop = TRUE], [r EXCEPT !.idleStop = FALSE]}
        BY <3>1, <3>3 DEF stampDisconnected, clearDisconnected, warnIdle
      <4>2. \A q \in {r, [r EXCEPT !.disconnected = TRUE],
                      [r EXCEPT !.disconnected = FALSE, !.deadline = FALSE],
                      [r EXCEPT !.idleStop = TRUE], [r EXCEPT !.idleStop = FALSE]} :
              q.state = r.state /\ q.desired = r.desired
        BY DEF Row
      <4> QED
        BY <3>1, <4>1, <4>2
    <3> QED
      BY <1>2, <3>2, <3>3
  <2> QED
    BY <2>1 DEF Leaves
<1>3. CASE stopIdle
  <2>1. PICK due : /\ \A v \in due : row[v].state = "running" /\ row[v].idleStop
                   /\ row' = [v \in Workspaces |->
                               IF v \in due THEN stopUnwanted(row[v]) ELSE row[v]]
    BY <1>3 DEF stopIdle
  <2>2. ASSUME NEW v \in due \intersect Workspaces PROVE OwnStop(v)
    BY <1>r, <2>1, <2>2, WorkerStates DEF OwnStop
  <2>3. ASSUME NEW v \in Workspaces \ due PROVE Leaves(row[v], row'[v])
    BY <1>w, <2>1, <2>3
  <2> QED
    BY <2>2, <2>3
<1>4. ASSUME NEW w \in Workspaces, stopAfterGraceAct(w)
      PROVE  \A v \in Workspaces : Leaves(row[v], row'[v]) \/ OwnStop(v)
  <2>1. pc = "deadline act" /\ w \in picked
    BY <1>4 DEF stopAfterGraceAct
  <2>2. CASE row[w].state = "running" /\ row[w].deadline
    <3>1. row' = [row EXCEPT ![w] = stopUnwanted(@)]
      BY <1>4, <2>2 DEF stopAfterGraceAct
    <3>2. row'[w].state = "stopping"
      BY <1>r, <3>1, WorkerStates DEF TypeOK
    <3>3. \A v \in Workspaces \ {w} : row'[v] = row[v]
      BY <1>r, <3>1 DEF TypeOK
    <3> QED
      BY <1>w, <2>1, <2>2, <3>2, <3>3 DEF OwnStop
  <2>3. CASE ~(row[w].state = "running" /\ row[w].deadline)
    BY <1>4, <1>w, <2>3 DEF stopAfterGraceAct
  <2> QED
    BY <2>2, <2>3
<1>6. ASSUME NEW w \in Workspaces, NEW from \in States, NEW next, startInBackground(w, from, next)
      PROVE  \A v \in Workspaces : Leaves(row[v], row'[v])
  BY <1>r, <1>6, WishRows, CasWish DEF startInBackground
<1>7. ASSUME NEW w \in Workspaces, NEW next, stopInBackground(w, next)
      PROVE  \A v \in Workspaces : Leaves(row[v], row'[v])
  BY <1>r, <1>7, WishRows, CasWish DEF stopInBackground, States
<1>8. ASSUME NEW w \in Workspaces,
             \/ resolveMissingInstance(w) \/ resolveObservedStopped(w)
             \/ resolveObservedRunning(w) \/ resolveErrored(w)
             \/ resolveStarting(w) \/ resolveStopping(w)
      PROVE  \A v \in Workspaces : Leaves(row[v], row'[v])
  <2>1. PICK x \in {instanceMissing(row[w]), observedStopped(row[w]), startedNow(row[w]),
                    stopErrored(row[w]), failedWith(row[w], "failed"),
                    [row[w] EXCEPT !.state = "running"]} :
          row' = [row EXCEPT ![w] = x] \/ row' = row
    BY <1>8 DEF resolveMissingInstance, resolveObservedStopped, resolveObservedRunning,
       resolveErrored, resolveStarting, resolveStopping, casUpdate
  <2>2. Leaves(row[w], x)
    BY <1>r, WishRows DEF States
  <2> QED
    BY <1>r, <2>1, <2>2, OneWish
<1>9. ASSUME NEW w \in Workspaces, startStoppedAct(w) \/ retryErroredAct(w)
      PROVE  \A v \in Workspaces : Leaves(row[v], row'[v])
  BY <1>6, <1>9 DEF startStoppedAct, retryErroredAct, States
<1>10. ASSUME NEW w \in Workspaces, stopRunningAct(w) \/ stopForOperationAct(w)
       PROVE  \A v \in Workspaces : Leaves(row[v], row'[v])
  BY <1>7, <1>10 DEF stopRunningAct, stopForOperationAct
<1>11. \/ row' = row
       \/ stampDisconnected \/ clearDisconnected \/ armDeadlines \/ warnIdle
       \/ stopIdle
       \/ \E w \in Workspaces :
            \/ startStoppedAct(w) \/ retryErroredAct(w) \/ stopAfterGraceAct(w)
            \/ stopRunningAct(w) \/ stopForOperationAct(w)
            \/ resolveMissingInstance(w) \/ resolveObservedStopped(w)
            \/ resolveObservedRunning(w) \/ resolveErrored(w)
            \/ resolveStarting(w) \/ resolveStopping(w)
  BY DEF Sweep, expireConnections, createProvisioning, startStopped, stopRunning,
     stopForOperation, stopAfterGrace, retryErrored, runMaintenance, skipRefresh, beginRefresh,
     listInstances, readTracked, waitForPoints, nothingToResolve
<1> QED
  BY <1>1, <1>2, <1>3, <1>4, <1>8, <1>9, <1>10, <1>11

(* The controller, exits, given-up calls and outside changes write no row. *)
LEMMA OthersWish ==
    ASSUME IInv,
           \/ WorkerRestarts \/ UNCHANGED vars
           \/ \E w \in Workspaces : GiveUp(w) \/ Controller(w) \/ OutsideChange(w)
    PROVE  WorkerLeaves
<1>1. row' = row /\ request' = request /\ tab' = tab
  BY DEF WorkerRestarts, vars, GiveUp, Controller, OutsideChange, controllerCreate,
     controllerPrepare, controllerBoot, controllerStarted, controllerStartFails, controllerStop,
     controllerOperate, Answer, apiVars
<1>2. \A w \in Workspaces : Leaves(row[w], row[w])
  BY DEF Leaves
<1> QED
  BY <1>1, <1>2 DEF WorkerLeaves


(* The requests: a row that is not there yet is only created, since nobody has
   asked for it and nobody is connected to it. *)
LEMMA ApiWish ==
    ASSUME IInv, Unborn, NEW w \in Workspaces, Api(w)
    PROVE  /\ \A v \in Workspaces :
                \/ row'[v].desired = row[v].desired
                \/ row'[v].desired # "stopped"
                \/ env' # env \/ request[v] = "stopped"
           /\ Unborn'
<1>r. TypeOK /\ row[w] \in Row /\ row \in [Workspaces -> Row]
  BY DEF IInv, TypeOK
<1>t. /\ env \in Nat /\ request \in [Workspaces -> Requests]
      /\ tab \in [Workspaces -> TabStates]
  BY <1>r DEF TypeOK
<1>u. row[w].state = "none" =>
         row[w].desired = "stopped" /\ request[w] = "none" /\ tab[w] = "closed"
  BY DEF Unborn
<1>1. ASSUME NEW x \in Row, row' = [row EXCEPT ![w] = x],
             \A v \in Workspaces \ {w} : request'[v] = request[v] /\ tab'[v] = tab[v],
             x.state # "none",
             \/ x.desired = row[w].desired \/ x.desired # "stopped"
             \/ env' # env \/ request[w] = "stopped"
      PROVE  /\ \A v \in Workspaces :
                  \/ row'[v].desired = row[v].desired
                  \/ row'[v].desired # "stopped"
                  \/ env' # env \/ request[v] = "stopped"
             /\ Unborn'
  BY <1>r, <1>1 DEF Unborn
<1>2. ASSUME row' = row, row[w].state # "none",
             \A v \in Workspaces \ {w} : request'[v] = request[v] /\ tab'[v] = tab[v]
      PROVE  /\ \A v \in Workspaces : row'[v].desired = row[v].desired
             /\ Unborn'
  BY <1>2 DEF Unborn
<1>a. env' = env + 1 => env' # env
  BY <1>t
<1>3. CASE createRow(w)
  <2>1. NewRow \in Row /\ NewRow.state # "none" /\ NewRow.desired = "stopped"
    BY InsertedRow DEF NewRow, NoRow
  <2>2. row[w].desired = "stopped"
    BY <1>3, <1>u DEF createRow, Exists
  <2> QED
    BY <1>1, <1>3, <2>1, <2>2 DEF createRow, apiVars
<1>4. CASE setDesiredRead(w)
  BY <1>2, <1>4, <1>t DEF setDesiredRead, Exists
<1>5. CASE openPresenceInsert(w)
  BY <1>2, <1>5, <1>t DEF openPresenceInsert, Exists
<1>6. CASE dropPresence(w) \/ losePresence(w)
  BY <1>2, <1>6, <1>t, <1>u DEF dropPresence, losePresence
<1>7. CASE setDesiredWrite(w)
  <2>1. PICK d \in DesiredStates : d = request[w]
    BY <1>7, <1>t DEF setDesiredWrite, Requests
  <2>2. PICK x \in Row : x = setDesired(row[w], d)
    BY <1>r, ApiRows DEF Keeps
  <2>3. row[w].state # "none"
    BY <1>7, <1>u DEF setDesiredWrite
  <2>4. x.state # "none"
    BY <1>r, <2>2, <2>3, ApiStates
  <2>5. x.desired = d
    BY <1>r, <2>2 DEF setDesired, Row
  <2>6. row' = [row EXCEPT ![w] = x]
    BY <1>7, <2>1, <2>2 DEF setDesiredWrite
  <2> QED
    BY <1>1, <1>7, <1>t, <2>1, <2>4, <2>5, <2>6 DEF setDesiredWrite
<1>8. CASE openPresenceUpdate(w)
  <2>1. PICK x \in Row : x = presenceOpened(row[w])
    BY <1>r, ApiRows DEF Keeps
  <2>2. row[w].state # "none"
    BY <1>8, <1>u DEF openPresenceUpdate
  <2>3. x.state # "none"
    BY <1>r, <2>1, <2>2, ApiStates
  <2>4. x.desired \in {row[w].desired, "running"}
    BY <1>r, <2>1 DEF presenceOpened, Row
  <2>5. row' = [row EXCEPT ![w] = x]
    BY <1>8, <2>1 DEF openPresenceUpdate
  <2> QED
    BY <1>1, <1>8, <1>t, <2>3, <2>4, <2>5 DEF openPresenceUpdate
<1>9. CASE noteActivity(w)
  <2>1. activity(row[w]).state = row[w].state /\ activity(row[w]).desired = row[w].desired
    BY <1>r DEF activity, Row
  <2>2. \A v \in Workspaces : /\ row'[v].state = row[v].state
                              /\ row'[v].desired = row[v].desired
    BY <1>9, <1>r, <2>1 DEF noteActivity
  <2> QED
    BY <1>9, <2>2 DEF noteActivity, apiVars, Unborn
<1>10. CASE setArchived(w) \/ disableOwner(w) \/ reprovisionWorkspace(w) \/ requestOperation(w)
  <2>1. PICK x : /\ row' = [row EXCEPT ![w] = x]
                 /\ \/ x \in {archive(row[w]), unarchive(row[w]), ownerDisabled(row[w]),
                              reprovision(row[w])}
                    \/ \E op \in Operations : x = requestPendingOperation(row[w], op)
    BY <1>10 DEF setArchived, disableOwner, reprovisionWorkspace, requestOperation
  <2>2. row[w].state # "none"
    BY <1>10 DEF setArchived, disableOwner, reprovisionWorkspace, requestOperation, Exists
  <2>3. x \in Row /\ x.state # "none"
    <3>1. CASE x \in {archive(row[w]), unarchive(row[w]), ownerDisabled(row[w]),
                      reprovision(row[w])}
      <4>1. x \in Row
        BY <1>r, <3>1, ApiRows DEF Keeps
      <4>2. x.state \in {row[w].state, "provisioning"}
        BY <1>r, <3>1, ApiStates
      <4> QED
        BY <2>2, <4>1, <4>2
    <3>2. CASE \E op \in Operations : x = requestPendingOperation(row[w], op)
      <4>1. PICK op \in Operations : x = requestPendingOperation(row[w], op)
        BY <3>2
      <4>2. x \in Row
        BY <1>r, <4>1, ApiRows DEF Keeps
      <4>3. x.state = row[w].state
        BY <1>r, <4>1, ApiStates
      <4> QED
        BY <2>2, <4>2, <4>3
    <3> QED
      BY <2>1, <3>1, <3>2
  <2>4. UNCHANGED apiVars /\ env' = env + 1
    BY <1>10 DEF setArchived, disableOwner, reprovisionWorkspace, requestOperation, Asks
  <2> QED
    BY <1>1, <1>a, <2>1, <2>3, <2>4 DEF apiVars
<1> QED
  BY <1>3, <1>4, <1>5, <1>6, <1>7, <1>8, <1>9, <1>10 DEF Api

LEMMA InitUnborn == Init => Unborn
BY DEF Init, Unborn, NoRow

(* What one step does to the wishes, and that Unborn stays. *)
LEMMA WishStep ==
    ASSUME IInv, AInv, Unborn, [Next]_vars
    PROVE  /\ \A w \in Workspaces :
                row[w].desired = "running" /\ row'[w].desired = "stopped" =>
                   env' # env \/ request[w] = "stopped" \/ OwnStop(w)
           /\ Unborn'
<1>1. ASSUME WorkerLeaves
      PROVE  /\ \A w \in Workspaces :
                  row[w].desired = "running" /\ row'[w].desired = "stopped" =>
                     env' # env \/ request[w] = "stopped" \/ OwnStop(w)
             /\ Unborn'
  <2>1. ASSUME NEW w \in Workspaces, row'[w].state = "none"
        PROVE  row'[w].desired = "stopped" /\ request'[w] = "none" /\ tab'[w] = "closed"
    <3>1. Leaves(row[w], row'[w])
      BY <1>1, <2>1 DEF WorkerLeaves, OwnStop
    <3> QED
      BY <1>1, <2>1, <3>1 DEF WorkerLeaves, Leaves, Unborn
  <2> QED
    BY <1>1, <2>1 DEF WorkerLeaves, Leaves, Unborn
<1>2. CASE Sweep
  BY <1>1, <1>2, SweepWish
<1>3. CASE WorkerRestarts \/ UNCHANGED vars
  BY <1>1, <1>3, OthersWish
<1>4. ASSUME NEW w \in Workspaces, Calls(w)
      PROVE  WorkerLeaves
  BY <1>4, CallsWish
<1>5. ASSUME NEW w \in Workspaces, GiveUp(w) \/ Controller(w) \/ OutsideChange(w)
      PROVE  WorkerLeaves
  BY <1>5, OthersWish
<1>6. ASSUME NEW w \in Workspaces, Api(w)
      PROVE  /\ \A v \in Workspaces :
                  row[v].desired = "running" /\ row'[v].desired = "stopped" =>
                     env' # env \/ request[v] = "stopped" \/ OwnStop(v)
             /\ Unborn'
  BY <1>6, ApiWish
<1> QED
  BY <1>1, <1>2, <1>3, <1>4, <1>5, <1>6 DEF Next

(* A wish to run is taken from a row by nobody but a request, the stop of a
   workspace warned as idle, or the grace stop of one that had no connection
   when that statement started: whatever else the sweep, the calls' ends and
   drift had read before the wish was written, what they write leaves it. *)
THEOREM WishesSurvive == Spec => WishToRunSurvives
<1>1. IInv /\ AInv /\ Unborn /\ [Next]_vars => (IInv /\ AInv /\ Unborn)'
  BY NextIInv, NextAInv, WishStep
<1>2. Init => IInv /\ AInv /\ Unborn
  BY InitIInv, InitAInv, InitUnborn
<1>3. IInv /\ AInv /\ Unborn /\ [Next]_vars =>
        [\A w \in Workspaces :
           row[w].desired = "running" /\ row'[w].desired = "stopped" =>
              \/ env' # env
              \/ request[w] = "stopped"
              \/ /\ row[w].state = "running"
                 /\ row'[w].state = "stopping"
                 /\ row[w].idleStop \/ (pc = "deadline act" /\ w \in picked)]_vars
  BY WishStep DEF OwnStop
<1> QED
  BY <1>1, <1>2, <1>3, PTL DEF Spec, WishToRunSurvives
=============================================================================
