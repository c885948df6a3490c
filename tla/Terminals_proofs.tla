--------------------------- MODULE Terminals_proofs ---------------------------
(***************************************************************************)
(* Proofs about Terminals: for any number of terminals, projects, starts,  *)
(* failures and crashes, any cap and any names given, the cap holds, a name *)
(* the server chose differs from those it saw, and a stop ends every        *)
(* terminal it could see.                                                   *)
(*                                                                         *)
(* The names need that a number is free at all: chooseTerminalName picks   *)
(* the lowest one above 0, and there are fewer open rows of the project    *)
(* than numbers up to their count plus one (NameIsFree).  Between the      *)
(* create's read and its insert the name stays free and there stays room   *)
(* (LockOK): the lock keeps other creates out, and a rename takes its      *)
(* terminal out of the history.  The stop needs that whatever is open      *)
(* while the stop's call is under way was inserted after the others were   *)
(* ended (MissedByTheStop).                                                *)
(*                                                                         *)
(* At the end, for any number of frames, the pipe between one browser and  *)
(* its terminal (TerminalPipe): the browser hears the agent's last word    *)
(* before the close.                                                       *)
(***************************************************************************)
EXTENDS Terminals, TerminalPipe, FiniteSetTheorems, WellFoundedInduction, TLAPS

RowRecs == [state : {"none", "open", "ended"}, project : ProjectIds, cwd : ProjectIds,
            name : Names]
CreatePcs == {"new", "checked", "inserted", "admitted", "made", "failed", "orphan", "over"}
ClosePcs == {"none", "call", "delete"}
CreateRecs(w) == [pc : CreatePcs, boot : 0..w.boots, project : ProjectIds, cwd : ProjectIds]
Deletions(w) == [of : ProjectIds, left : SUBSET Terminals, mark : SUBSET Terminals,
                 removed : BOOLEAN, boot : 0..w.boots]

(* A request that has not inserted its row has none. *)
FreshRows == \A t \in Terminals : create[t].pc \in {"new", "checked"} => rows[t] = NoRow

(* A stop's call begins after its row is stopping and its terminals ended. *)
StopCallAfterEnding == ws.stopCall => ws.state = "stopping" /\ ~ws.ending

(* What is open during the stop's call and after it was missed by the stop. *)
MissedByTheStop ==
    ws.stopCall \/ (ws.state = "stopped" /\ ~ws.ending) => \A t \in Open : late[t]

(* The lock's one holder has no row yet, there is room for it, and its name is
   not shown by any terminal it was to differ from. *)
LockOK ==
    /\ \A t \in lock.holder : create[t].pc = "checked" /\ lock.holder = {t}
    /\ lock.holder # {} => Cardinality(Open) + 1 <= MaxTerminals
    /\ \A t \in lock.holder : \A u \in Open : u \in unlike[t] => rows[u].name # lock.name

(* The server has seen the names of terminals that had their row. *)
SeenWasThere ==
    \A t, u \in Terminals : u \in unlike[t] => create[u].pc \notin {"new", "checked"}

IInv == /\ TypeOK /\ CapHolds /\ NamesDiffer /\ LockOK /\ SeenWasThere
        /\ FreshRows /\ StopCallAfterEnding /\ MissedByTheStop

----------------------------------------------------------------------------
(* Names. *)
LEMMA LeastNatural ==
  ASSUME NEW S \in SUBSET Nat, S # {}
  PROVE  \E m \in S : \A k \in S : m <= k
<1>1. PICK R : IsWellFoundedOn(R, Nat) /\ R = OpToRel(<, Nat)
  BY NatLessThanWellFounded
<1>2. PICK m \in S : \A k \in S : <<k, m>> \notin R
  BY <1>1, WFMin
<1>3. \A k \in S : ~(k < m)
  BY <1>1, <1>2 DEF OpToRel
<1>. QED BY ONLY <1>3, S \in SUBSET Nat, m \in S

(* Of the numbers up to n + 1 one is not the name of any of n rows. *)
LEMMA SomeNumberFree ==
  ASSUME NEW U, IsFiniteSet(U), NEW name
  PROVE  \E n \in 1..(Cardinality(U) + 1) : \A u \in U : name[u] # n
<1> DEFINE k == Cardinality(U)
           S == 1..(k + 1)
<1>1. SUFFICES ASSUME \A n \in S : \E u \in U : name[u] = n PROVE FALSE
  OBVIOUS
<1>2. k \in Nat /\ IsFiniteSet(S) /\ Cardinality(S) = k + 1
  <2>1. k \in Nat
    BY FS_CardinalityType
  <2>. HIDE DEF k
  <2>2. IsFiniteSet(1..(k + 1)) /\ Cardinality(1..(k + 1)) = (k + 1) - 1 + 1
    BY <2>1, FS_Interval
  <2>. QED BY <2>1, <2>2
<1>3. PICK f : f = [n \in S |-> CHOOSE u \in U : name[u] = n]
  OBVIOUS
<1>4. \A n \in S : f[n] \in U /\ name[f[n]] = n
  BY <1>1, <1>3
<1>5. f \in [S -> U]
  BY <1>3, <1>4
<1>6. Cardinality(U) < Cardinality(S)
  BY <1>2
<1>7. PICK x, y \in S : x # y /\ f[x] = f[y]
  <2>. HIDE DEF S
  <2>. QED BY <1>2, <1>5, <1>6, FS_PigeonHole
<1>. QED BY <1>4, <1>7

LEMMA OpenFinite == IsFiniteSet(Open) /\ Cardinality(Open) \in Nat
BY FS_Subset, FS_CardinalityType, TerminalsAssumption DEF Open

(* chooseTerminalName returns names, and none that an open terminal of the
   project shows. *)
LEMMA NameIsFree ==
  ASSUME NEW p, NEW c \in chooseTerminalName(p)
  PROVE  c \in Names /\ \A u \in OpenIn(p) : rows[u].name # c
<1> DEFINE live == {rows[u].name : u \in OpenIn(p)}
           k == Cardinality(OpenIn(p))
           Lowest(n) == n \notin live /\ \A j \in 1..(n - 1) : j \in live
           ended == {rows[u].name : u \in {v \in Terminals : /\ rows[v].state = "ended"
                                                            /\ rows[v].project = p}}
           again == (ended \intersect CustomNames) \ live
<1>1. IsFiniteSet(OpenIn(p)) /\ k \in Nat
  <2>1. OpenIn(p) \subseteq Open
    BY DEF OpenIn
  <2>. QED BY <2>1, OpenFinite, FS_Subset, FS_CardinalityType
<1>2. PICK n0 \in 1..(k + 1) : n0 \notin live
  <2>1. PICK name : name = [u \in OpenIn(p) |-> rows[u].name]
    OBVIOUS
  <2>2. PICK n \in 1..(k + 1) : \A u \in OpenIn(p) : name[u] # n
    BY <1>1, SomeNumberFree
  <2>. QED BY <2>1, <2>2
<1>3. \E n \in 1..(k + 1) : Lowest(n)
  <2>1. PICK S : S = {n \in 1..(k + 1) : n \notin live}
    OBVIOUS
  <2>2. S \in SUBSET Nat /\ S # {}
    BY <1>1, <1>2, <2>1
  <2>3. PICK m \in S : \A j \in S : m <= j
    BY <2>2, LeastNatural
  <2>4. m \in 1..(k + 1) /\ m \notin live
    BY <2>1, <2>3
  <2>5. \A j \in 1..(m - 1) : j \in live
    <3>1. ASSUME NEW j \in 1..(m - 1), j \notin live PROVE FALSE
      <4>1. j \in 1..(k + 1) /\ ~(m <= j)
        BY <1>1, <2>4
      <4>2. j \in S
        BY <2>1, <3>1, <4>1
      <4>. QED BY <2>3, <4>1, <4>2
    <3>. QED BY <3>1
  <2>. QED BY <2>4, <2>5
<1>4. CASE again # {}
  <2>1. c \in again
    BY <1>4 DEF chooseTerminalName
  <2>. QED BY <2>1 DEF Names
<1>5. CASE again = {}
  <2>1. c = CHOOSE n \in 1..(k + 1) : Lowest(n)
    BY <1>5 DEF chooseTerminalName
  <2>2. c \in 1..(k + 1) /\ Lowest(c)
    <3>. HIDE DEF Lowest, k
    <3>. QED BY <1>3, <2>1
  <2>. QED BY <1>1, <2>2 DEF Names
<1>. QED BY <1>4, <1>5

----------------------------------------------------------------------------
(* Types: one lemma for each way the requests and the rows are updated. *)
LEMMA CreateTyped ==
  ASSUME TypeOK, NEW t \in Terminals, NEW p \in CreatePcs, UNCHANGED world,
         create' = [create EXCEPT ![t].pc = p]
  PROVE  /\ create' \in [Terminals -> CreateRecs(world')]
         /\ create'[t].pc = p
         /\ \A u \in Terminals : u # t => create'[u] = create[u]
<1>1. PICK R : R = CreateRecs(world)
  OBVIOUS
<1>2. create \in [Terminals -> R]
  BY <1>1 DEF TypeOK, CreatePcs, CreateRecs
<1>3. PICK r : r = [create[t] EXCEPT !.pc = p]
  OBVIOUS
<1>4. r \in R /\ r.pc = p
  BY <1>1, <1>2, <1>3 DEF CreateRecs
<1>5. create' = [create EXCEPT ![t] = r]
  BY <1>3
<1>6. create' \in [Terminals -> R] /\ create'[t] = r
      /\ \A u \in Terminals : u # t => create'[u] = create[u]
  BY <1>2, <1>4, <1>5
<1>. QED BY <1>1, <1>4, <1>6 DEF CreateRecs

LEMMA CloseTyped ==
  ASSUME TypeOK, NEW t \in Terminals, NEW p \in ClosePcs, UNCHANGED world,
         close' = [close EXCEPT ![t].pc = p]
  PROVE  close' \in [Terminals -> [pc : ClosePcs, boot : 0..world'.boots]]
<1>1. PICK R : R = [pc : ClosePcs, boot : 0..world.boots]
  OBVIOUS
<1>2. close \in [Terminals -> R]
  BY <1>1 DEF TypeOK, ClosePcs
<1>3. PICK r : r = [close[t] EXCEPT !.pc = p]
  OBVIOUS
<1>4. r \in R
  BY <1>1, <1>2, <1>3
<1>5. close' \in [Terminals -> R]
  BY <1>2, <1>3, <1>4
<1>. QED BY <1>1, <1>5

LEMMA RowTyped ==
  ASSUME TypeOK, NEW t \in Terminals, NEW r \in RowRecs, rows' = [rows EXCEPT ![t] = r]
  PROVE  /\ rows' \in [Terminals -> RowRecs] /\ rows'[t] = r
         /\ \A u \in Terminals : u # t => rows'[u] = rows[u]
BY DEF TypeOK, RowRecs

LEMMA NoRowTyped == NoRow \in RowRecs /\ NoName \in Names /\ NoRow.state = "none"
BY DEF NoRow, RowRecs, NoName, Names, ProjectIds

LEMMA FaultsTyped ==
  ASSUME TypeOK, Fault \/ Crash \/ UNCHANGED faults, UNCHANGED world
  PROVE  faults' \in [calls : 0..world'.faults, crashes : 0..world'.crashes]
<1>1. /\ world.faults \in Nat /\ world.crashes \in Nat
      /\ faults \in [calls : 0..world.faults, crashes : 0..world.crashes]
  BY WorldsAssumption DEF TypeOK
<1>2. CASE Fault
  <2>1. faults.calls + 1 \in 0..world.faults
    BY <1>1, <1>2 DEF Fault
  <2>. QED BY <1>1, <1>2, <2>1 DEF Fault
<1>3. CASE Crash
  <2>1. faults.crashes + 1 \in 0..world.crashes
    BY <1>1, <1>3 DEF Crash
  <2>. QED BY <1>1, <1>3, <2>1 DEF Crash
<1>. QED BY <1>1, <1>2, <1>3

(* What a step that inserts no row keeps: the open rows are open before it,
   and one with another name is in nobody's history. *)
NoneInserted ==
  /\ \A t \in Terminals : rows'[t].state = "open" =>
        /\ rows[t].state = "open"
        /\ \/ rows'[t].name = rows[t].name
           \/ unlike'[t] = {} /\ \A u \in Terminals : t \notin unlike'[u]
  /\ \A t \in Terminals : unlike'[t] \subseteq unlike[t]
  /\ UNCHANGED lock
  /\ \A t \in Terminals : create'[t].pc \in {"new", "checked"} =>
        create[t].pc \in {"new", "checked"}
  /\ \A t \in lock.holder : create'[t].pc = create[t].pc

LEMMA NothingInserted ==
  ASSUME IInv, NoneInserted
  PROVE  /\ Open' \subseteq Open /\ CapHolds' /\ NamesDiffer' /\ LockOK' /\ SeenWasThere'
<1>1. Open' \subseteq Open
  BY DEF Open, NoneInserted
<1>c. Cardinality(Open') <= Cardinality(Open) /\ Cardinality(Open') \in Nat
      /\ Cardinality(Open) \in Nat /\ MaxTerminals \in Nat
  BY <1>1, OpenFinite, FS_Subset, FS_CardinalityType, TerminalsAssumption
<1>2. CapHolds'
  <2>1. Cardinality(Open) <= MaxTerminals
    BY DEF IInv, CapHolds
  <2>2. Cardinality(Open') <= MaxTerminals
    BY ONLY <1>c, <2>1
  <2>. QED BY <2>2 DEF CapHolds
<1>n. ASSUME NEW t \in Terminals, NEW u \in Open', u \in unlike'[t]
      PROVE  u \in Open /\ u \in unlike[t] /\ rows'[u].name = rows[u].name
  BY <1>1, <1>n DEF NoneInserted, Open
<1>3. NamesDiffer'
  <2>1. SUFFICES ASSUME NEW t \in Open', NEW u \in Open', u \in unlike'[t]
                 PROVE  rows'[t].name # rows'[u].name
    BY DEF NamesDiffer
  <2>2. t \in Open /\ t \in Terminals
    BY <1>1 DEF Open
  <2>3. rows'[t].name = rows[t].name
    BY <2>1, <2>2 DEF NoneInserted, Open
  <2>4. u \in Open /\ u \in unlike[t] /\ rows'[u].name = rows[u].name
    BY <1>n, <2>1, <2>2
  <2>. QED BY <2>2, <2>3, <2>4 DEF IInv, NamesDiffer
<1>4. LockOK'
  <2>1. lock' = lock
    BY DEF NoneInserted
  <2>2. \A t \in lock'.holder : create'[t].pc = "checked" /\ lock'.holder = {t}
    BY <2>1 DEF NoneInserted, IInv, LockOK
  <2>3. lock'.holder # {} => Cardinality(Open') + 1 <= MaxTerminals
    <3>1. lock.holder # {} => Cardinality(Open) + 1 <= MaxTerminals
      BY DEF IInv, LockOK
    <3>2. lock.holder # {} => Cardinality(Open') + 1 <= MaxTerminals
      BY ONLY <1>c, <3>1
    <3>. QED BY <2>1, <3>2
  <2>4. ASSUME NEW t \in lock'.holder, NEW u \in Open', u \in unlike'[t]
        PROVE  rows'[u].name # lock'.name
    <3>1. t \in Terminals /\ t \in lock.holder
      BY <2>1 DEF IInv, TypeOK
    <3>2. u \in Open /\ u \in unlike[t] /\ rows'[u].name = rows[u].name
      BY <1>n, <2>4, <3>1
    <3>. QED BY <2>1, <3>1, <3>2 DEF IInv, LockOK
  <2>. QED BY <2>2, <2>3, <2>4 DEF LockOK
<1>5. SeenWasThere'
  BY DEF SeenWasThere, IInv, NoneInserted
<1>. QED BY <1>1, <1>2, <1>3, <1>4, <1>5

(* A step that changes rows without inserting one, and neither the workspace
   nor late. *)
LEMMA RowsShrink ==
  ASSUME IInv, TypeOK', UNCHANGED <<ws, late>>, NoneInserted,
         \A t \in Terminals : rows[t] = NoRow => rows'[t] = NoRow
  PROVE  IInv'
<1>1. Open' \subseteq Open /\ CapHolds' /\ NamesDiffer' /\ LockOK' /\ SeenWasThere'
  BY NothingInserted
<1>2. MissedByTheStop'
  BY <1>1 DEF IInv, MissedByTheStop
<1>3. FreshRows' /\ StopCallAfterEnding'
  BY DEF IInv, FreshRows, StopCallAfterEnding, NoneInserted
<1>. QED BY <1>1, <1>2, <1>3 DEF IInv

(* A step of a request that leaves the rows and names alone. *)
LEMMA RowsKept ==
  ASSUME IInv, TypeOK', UNCHANGED <<rows, ws, late, lock, unlike>>,
         \A t \in Terminals : create'[t].pc \in {"new", "checked"} =>
                                  create[t].pc \in {"new", "checked"},
         \A t \in lock.holder : create'[t].pc = create[t].pc
  PROVE  IInv'
<1>1. NoneInserted
  BY DEF NoneInserted
<1>. QED BY <1>1, RowsShrink

----------------------------------------------------------------------------
(* The create. *)
LEMMA CreateChecksStep ==
  ASSUME IInv, NEW t \in Terminals, createChecks(t) PROVE IInv'
<1>. USE DEF requestsOnly, namesUnchanged
<1>1. PICK place \in world.places :
         create' = [create EXCEPT ![t] = [pc |-> "checked", boot |-> boot,
                                         project |-> place.project, cwd |-> place.cwd]]
  BY DEF createChecks
<1>2. /\ create[t].pc = "new"
      /\ UNCHANGED <<rows, sessions, close, faults, late, ws, boot, up, world, lock, unlike,
                     projects, deletion>>
  BY DEF createChecks
<1>3. place.project \in ProjectIds /\ place.cwd \in ProjectIds
  BY WorldsAssumption DEF IInv, TypeOK
<1>4. create' \in [Terminals -> CreateRecs(world)]
  BY <1>1, <1>3 DEF IInv, TypeOK, CreatePcs, CreateRecs
<1>5. TypeOK'
  BY <1>2, <1>4 DEF IInv, TypeOK, CreatePcs, CreateRecs
<1>6. \A u \in Terminals : create'[u].pc \in {"new", "checked"} =>
                               create[u].pc \in {"new", "checked"}
  BY <1>1, <1>2 DEF IInv, TypeOK
<1>7. \A u \in lock.holder : u # t /\ create'[u].pc = create[u].pc
  BY <1>1, <1>2 DEF IInv, LockOK, TypeOK
<1>. QED BY <1>2, <1>5, <1>6, <1>7, RowsKept

LEMMA LockStep ==
  ASSUME IInv, NEW t \in Terminals, lockAndName(t) PROVE IInv'
<1>1. /\ create[t].pc = "checked" /\ lock.holder = {}
      /\ UNCHANGED <<rows, sessions, close, projects, deletion, ws, boot, up, faults, late, world>>
      /\ Open' = Open
  BY DEF lockAndName, Open
<1>2. CASE ~UnderCap
  <2>1. create' = [create EXCEPT ![t].pc = "over"] /\ UNCHANGED <<lock, unlike>>
    BY <1>2 DEF lockAndName
  <2>2. /\ create' \in [Terminals -> CreateRecs(world')]
        /\ create'[t].pc = "over"
        /\ \A u \in Terminals : u # t => create'[u] = create[u]
    BY <1>1, <2>1, CreateTyped DEF CreatePcs, IInv
  <2>3. TypeOK'
    BY <1>1, <2>1, <2>2 DEF IInv, TypeOK, CreatePcs, CreateRecs
  <2>4. \A u \in Terminals : create'[u].pc \in {"new", "checked"} =>
                                 create[u].pc \in {"new", "checked"}
    BY <2>2
  <2>. QED BY <1>1, <2>1, <2>3, <2>4, RowsKept
<1>3. CASE UnderCap
  <2>. DEFINE NamesIt(n, seen) ==
                /\ lock' = [holder |-> {t}, name |-> n] /\ n \in Names
                /\ unlike' = [unlike EXCEPT ![t] = seen]
                /\ seen \subseteq Terminals
                /\ \A u \in seen : create[u].pc \notin {"new", "checked"}
                /\ \A u \in Open \intersect seen : rows[u].name # n
                /\ UNCHANGED create
  <2>1. PICK n, seen : NamesIt(n, seen)
    <3>1. CASE /\ \E n \in chooseTerminalName(create[t].project) :
                      lock' = [holder |-> {t}, name |-> n]
               /\ unlike' = [unlike EXCEPT ![t] = OpenIn(create[t].project)]
               /\ UNCHANGED create
      <4>1. OpenIn(create[t].project) \subseteq Terminals
            /\ \A u \in OpenIn(create[t].project) : create[u].pc \notin {"new", "checked"}
        BY NoRowTyped DEF OpenIn, Open, IInv, FreshRows
      <4>2. PICK n \in chooseTerminalName(create[t].project) :
                      lock' = [holder |-> {t}, name |-> n]
        BY <3>1
      <4>3. n \in Names /\ \A u \in OpenIn(create[t].project) : rows[u].name # n
        BY NameIsFree
      <4>4. NamesIt(n, OpenIn(create[t].project))
        BY <3>1, <4>1, <4>2, <4>3
      <4>. QED BY <4>4, Zenon
    <3>2. CASE /\ \E n \in world.names : lock' = [holder |-> {t}, name |-> n]
               /\ unlike' = [unlike EXCEPT ![t] = {}] /\ UNCHANGED create
      <4>1. PICK n \in world.names : lock' = [holder |-> {t}, name |-> n]
        BY <3>2
      <4>2. n \in Names
        BY WorldsAssumption DEF IInv, TypeOK
      <4>3. PICK none : none = {}
        OBVIOUS
      <4>4. unlike' = [unlike EXCEPT ![t] = none]
        BY <3>2, <4>3
      <4>5. NamesIt(n, none)
        BY <3>2, <4>1, <4>2, <4>3, <4>4
      <4>. QED BY <4>5, Zenon
    <3>3. \/ /\ UnderCap
             /\ \/ /\ \E n \in chooseTerminalName(create[t].project) :
                         lock' = [holder |-> {t}, name |-> n]
                   /\ unlike' = [unlike EXCEPT ![t] = OpenIn(create[t].project)]
                \/ /\ \E n \in world.names : lock' = [holder |-> {t}, name |-> n]
                   /\ unlike' = [unlike EXCEPT ![t] = {}]
             /\ UNCHANGED create
          \/ ~UnderCap
      BY Zenon DEF lockAndName
    <3>. QED BY <1>3, <3>1, <3>2, <3>3, Zenon
  <2>2. /\ unlike' \in [Terminals -> SUBSET Terminals] /\ unlike'[t] = seen
        /\ \A u \in Terminals : u # t => unlike'[u] = unlike[u]
    BY <2>1 DEF IInv, TypeOK
  <2>3. lock' \in [holder : SUBSET Terminals, name : Names]
        /\ lock'.holder = {t} /\ lock'.name = n
    BY <2>1
  <2>4. TypeOK'
    BY <1>1, <2>1, <2>2, <2>3 DEF IInv, TypeOK
  <2>5. t \notin Open
    BY <1>1, NoRowTyped DEF IInv, FreshRows, Open
  <2>6. NamesDiffer'
    BY <1>1, <2>2, <2>5 DEF IInv, NamesDiffer, Open
  <2>7. LockOK'
    <3>1. Cardinality(Open) + 1 <= MaxTerminals
      BY <1>3, OpenFinite, TerminalsAssumption DEF UnderCap
    <3>. QED BY <1>1, <2>1, <2>2, <2>3, <3>1 DEF LockOK
  <2>8. SeenWasThere'
    BY <2>1, <2>2 DEF IInv, SeenWasThere
  <2>9. CapHolds' /\ FreshRows' /\ StopCallAfterEnding' /\ MissedByTheStop'
    BY <1>1, <2>1 DEF IInv, CapHolds, FreshRows, StopCallAfterEnding, MissedByTheStop
  <2>. QED BY <2>4, <2>6, <2>7, <2>8, <2>9 DEF IInv
<1>. QED BY <1>2, <1>3

LEMMA InsertStep ==
  ASSUME IInv, NEW t \in Terminals, insertTerminal(t) PROVE IInv'
<1>. DEFINE gone == create[t].project \in Projects /\ projects[create[t].project] = "deleted"
<1>0. /\ t \in lock.holder /\ lock' = [holder |-> {}, name |-> NoName]
      /\ UNCHANGED <<sessions, close, projects, deletion, ws, boot, up, faults, unlike, world>>
  BY DEF insertTerminal
<1>1. /\ create[t].pc = "checked" /\ rows[t] = NoRow /\ t \notin Open
      /\ lock.holder = {t} /\ lock.name \in Names
      /\ Cardinality(Open) + 1 <= MaxTerminals
      /\ \A u \in Open : u \in unlike[t] => rows[u].name # lock.name
  BY <1>0, NoRowTyped DEF IInv, LockOK, FreshRows, Open, TypeOK
<1>2. lock' \in [holder : SUBSET Terminals, name : Names] /\ lock'.holder = {}
  BY <1>0, NoRowTyped
<1>3. LockOK'
  BY <1>2 DEF LockOK
<1>4. CASE ~gone
  <2>1. PICK r : r = [state |-> "open", project |-> create[t].project,
                      cwd |-> create[t].cwd, name |-> lock.name]
    OBVIOUS
  <2>2. r \in RowRecs /\ r.state = "open" /\ r.name = lock.name
    BY <1>1, <2>1 DEF RowRecs, IInv, TypeOK
  <2>3. /\ rows' = [rows EXCEPT ![t] = r]
        /\ create' = [create EXCEPT ![t].pc = "inserted"]
        /\ late' = [late EXCEPT ![t] = ws.state # "running" /\ ~ws.ending]
    BY <1>4, <2>1 DEF insertTerminal
  <2>4. /\ create' \in [Terminals -> CreateRecs(world')]
        /\ create'[t].pc = "inserted"
        /\ \A u \in Terminals : u # t => create'[u] = create[u]
    BY <1>0, <2>3, CreateTyped DEF CreatePcs, IInv
  <2>5. /\ rows' \in [Terminals -> RowRecs] /\ rows'[t] = r
        /\ \A u \in Terminals : u # t => rows'[u] = rows[u]
    BY <2>2, <2>3, RowTyped DEF IInv
  <2>6. late' \in [Terminals -> BOOLEAN]
    BY <2>3 DEF IInv, TypeOK
  <2>7. TypeOK'
    BY <1>0, <1>2, <2>4, <2>5, <2>6 DEF IInv, TypeOK, RowRecs, CreatePcs, CreateRecs
  <2>8. Open' = Open \union {t}
    BY <2>2, <2>5 DEF Open
  <2>9. CapHolds'
    <3>1. Cardinality(Open') = Cardinality(Open) + 1
      BY <1>1, <2>8, OpenFinite, FS_AddElement
    <3>. QED BY <1>1, <3>1 DEF CapHolds
  <2>10. NamesDiffer'
    <3>1. SUFFICES ASSUME NEW u \in Open', NEW v \in Open', v \in unlike'[u]
                   PROVE  rows'[u].name # rows'[v].name
      BY DEF NamesDiffer
    <3>2. u \in Terminals /\ v \in Terminals /\ v \in unlike[u]
      BY <1>0, <3>1 DEF Open
    <3>3. v # t /\ v \in Open
      BY <1>1, <2>8, <3>1, <3>2 DEF IInv, SeenWasThere
    <3>4. CASE u # t
      <4>1. u \in Open
        BY <2>8, <3>1, <3>4
      <4>. QED BY <2>5, <3>2, <3>3, <3>4, <4>1 DEF IInv, NamesDiffer
    <3>5. CASE u = t
      BY <1>1, <2>2, <2>5, <3>2, <3>3, <3>5
    <3>. QED BY <3>4, <3>5
  <2>11. FreshRows' /\ SeenWasThere'
    BY <1>0, <2>4, <2>5 DEF IInv, FreshRows, SeenWasThere
  <2>12. StopCallAfterEnding'
    BY <1>0 DEF IInv, StopCallAfterEnding
  <2>13. MissedByTheStop'
    <3>1. ASSUME ws.stopCall \/ (ws.state = "stopped" /\ ~ws.ending)
          PROVE  ws.state # "running" /\ ~ws.ending
      BY <3>1 DEF IInv, StopCallAfterEnding
    <3>2. \A u \in Terminals : late'[u] = IF u = t THEN ws.state # "running" /\ ~ws.ending
                                          ELSE late[u]
      BY <2>3 DEF IInv, TypeOK
    <3>3. ASSUME ws.stopCall \/ (ws.state = "stopped" /\ ~ws.ending), NEW u \in Open'
          PROVE  late'[u]
      <4>1. CASE u = t
        BY <3>1, <3>2, <3>3, <4>1 DEF Open
      <4>2. CASE u # t
        BY <2>8, <3>2, <3>3, <4>2 DEF IInv, MissedByTheStop, Open
      <4>. QED BY <4>1, <4>2
    <3>. QED BY <1>0, <3>3 DEF MissedByTheStop
  <2>. QED BY <1>3, <2>7, <2>9, <2>10, <2>11, <2>12, <2>13 DEF IInv
<1>5. CASE gone
  <2>1. create' = [create EXCEPT ![t].pc = "over"] /\ UNCHANGED <<rows, late>>
    BY <1>5 DEF insertTerminal
  <2>2. /\ create' \in [Terminals -> CreateRecs(world')]
        /\ create'[t].pc = "over"
        /\ \A u \in Terminals : u # t => create'[u] = create[u]
    BY <1>0, <2>1, CreateTyped DEF CreatePcs, IInv
  <2>3. TypeOK'
    BY <1>0, <1>2, <2>1, <2>2 DEF IInv, TypeOK, CreatePcs, CreateRecs
  <2>4. FreshRows' /\ SeenWasThere'
    BY <1>0, <2>1, <2>2 DEF IInv, FreshRows, SeenWasThere
  <2>5. Open' = Open
    BY <2>1 DEF Open
  <2>6. CapHolds' /\ NamesDiffer' /\ StopCallAfterEnding' /\ MissedByTheStop'
    BY <1>0, <2>1, <2>5 DEF IInv, CapHolds, NamesDiffer, StopCallAfterEnding, MissedByTheStop
  <2>. QED BY <1>3, <2>3, <2>4, <2>6 DEF IInv
<1>. QED BY <1>4, <1>5

(* The other steps of a create move its pc, and touch the sessions, the
   faults or its own row besides. *)
LEMMA CreateMoves ==
  ASSUME IInv, NEW t \in Terminals, NEW p \in CreatePcs \ {"new", "checked"},
         create[t].pc # "checked",
         create' = [create EXCEPT ![t].pc = p],
         rows' = rows \/ rows' = [rows EXCEPT ![t] = NoRow],
         sessions' \subseteq Terminals,
         Fault \/ UNCHANGED faults,
         UNCHANGED <<close, ws, boot, up, late, world, lock, unlike, projects, deletion>>
  PROVE  IInv'
<1>1. /\ create' \in [Terminals -> CreateRecs(world')]
      /\ create'[t].pc = p
      /\ \A u \in Terminals : u # t => create'[u] = create[u]
  BY CreateTyped DEF IInv
<1>2. faults' \in [calls : 0..world'.faults, crashes : 0..world'.crashes]
  BY FaultsTyped DEF IInv
<1>3. /\ rows' \in [Terminals -> RowRecs]
      /\ \A u \in Terminals : rows'[u] \in {rows[u], NoRow}
  BY NoRowTyped, RowTyped DEF IInv, TypeOK, RowRecs
<1>4. TypeOK'
  BY <1>1, <1>2, <1>3 DEF IInv, TypeOK, CreatePcs, RowRecs, CreateRecs
<1>5. \A u \in Terminals : create'[u].pc \in {"new", "checked"} =>
                               create[u].pc \in {"new", "checked"}
  BY <1>1
<1>6. \A u \in lock.holder : create'[u].pc = create[u].pc
  BY <1>1 DEF IInv, LockOK, TypeOK
<1>7. NoneInserted
  BY <1>3, <1>5, <1>6, NoRowTyped DEF NoneInserted
<1>. QED BY <1>3, <1>4, <1>7, RowsShrink

LEMMA CreateStep ==
  ASSUME IInv, NEW t \in Terminals, Create(t) PROVE IInv'
<1>. USE DEF CreatePcs, requestsOnly, namesUnchanged
<1>0. sessions \subseteq Terminals /\ sessions \ {t} \subseteq Terminals
      /\ sessions \union {t} \subseteq Terminals
  BY DEF IInv, TypeOK
<1>1. CASE createChecks(t) \/ lockAndName(t) \/ insertTerminal(t)
  BY <1>1, CreateChecksStep, LockStep, InsertStep
<1>2. CASE agentAdmits(t)
  <2>1. PICK p \in {"admitted", "failed"} : create' = [create EXCEPT ![t].pc = p]
    BY <1>2 DEF agentAdmits
  <2>. QED BY <1>0, <1>2, <2>1, CreateMoves DEF agentAdmits
<1>3. CASE createSession(t)
  BY <1>0, <1>3, CreateMoves DEF createSession
<1>4. CASE createCallFails(t)
  BY <1>0, <1>4, CreateMoves DEF createCallFails
<1>5. CASE createAnswerLost(t)
  BY <1>0, <1>5, CreateMoves DEF createAnswerLost
<1>6. CASE createFailed(t)
  BY <1>0, <1>6, CreateMoves DEF createFailed
<1>7. CASE saveTerminal(t)
  <2>1. PICK p \in {"orphan", "over"} : create' = [create EXCEPT ![t].pc = p]
    BY <1>7 DEF saveTerminal, AfterSave
  <2>. QED BY <1>0, <1>7, <2>1, CreateMoves DEF saveTerminal
<1>8. CASE endOrphanSession(t)
  BY <1>0, <1>8, CreateMoves DEF endOrphanSession
<1>. QED BY <1>1, <1>2, <1>3, <1>4, <1>5, <1>6, <1>7, <1>8 DEF Create

----------------------------------------------------------------------------
(* Close, rename, the shell's end and the worker's prune. *)
LEMMA CloseMoves ==
  ASSUME IInv, NEW t \in Terminals,
         close' \in [Terminals -> [pc : ClosePcs, boot : 0..world'.boots]],
         rows' = rows \/ rows' = [rows EXCEPT ![t] = NoRow],
         sessions' \subseteq Terminals,
         Fault \/ UNCHANGED faults,
         UNCHANGED <<create, ws, boot, up, late, world, lock, unlike, projects, deletion>>
  PROVE  IInv'
<1>1. faults' \in [calls : 0..world'.faults, crashes : 0..world'.crashes]
  BY FaultsTyped DEF IInv
<1>2. /\ rows' \in [Terminals -> RowRecs]
      /\ \A u \in Terminals : rows'[u] \in {rows[u], NoRow}
  BY NoRowTyped, RowTyped DEF IInv, TypeOK, RowRecs
<1>3. TypeOK'
  BY <1>1, <1>2 DEF IInv, TypeOK, ClosePcs, RowRecs
<1>4. NoneInserted
  BY <1>1, <1>2, NoRowTyped DEF NoneInserted
<1>. QED BY <1>2, <1>3, <1>4, RowsShrink

LEMMA CloseStep ==
  ASSUME IInv, NEW t \in Terminals, Close(t) PROVE IInv'
<1>. USE DEF requestsOnly, namesUnchanged
<1>0. sessions \subseteq Terminals /\ sessions \ {t} \subseteq Terminals
  BY DEF IInv, TypeOK
<1>1. CASE closeBegins(t)
  <2>1. PICK p \in ClosePcs : close' = [close EXCEPT ![t] = [pc |-> p, boot |-> boot]]
    BY <1>1 DEF closeBegins, ClosePcs
  <2>2. UNCHANGED <<rows, sessions, create, faults, late, ws, boot, up, world, lock, unlike,
                    projects, deletion>>
    BY <1>1 DEF closeBegins
  <2>3. close' \in [Terminals -> [pc : ClosePcs, boot : 0..world'.boots]]
    BY <2>1, <2>2 DEF IInv, TypeOK, ClosePcs
  <2>. QED BY <1>0, <2>2, <2>3, CloseMoves
<1>2. ASSUME closeSession(t) \/ closeUnanswered(t) \/ closeFails(t) \/ deleteRow(t)
      PROVE  close' \in [Terminals -> [pc : ClosePcs, boot : 0..world'.boots]]
  <2>1. UNCHANGED world
    BY <1>2 DEF closeSession, closeUnanswered, closeFails, deleteRow
  <2>2. PICK p \in ClosePcs : close' = [close EXCEPT ![t].pc = p]
    BY <1>2 DEF closeSession, closeUnanswered, closeFails, deleteRow, ClosePcs
  <2>. QED BY <2>1, <2>2, CloseTyped DEF IInv
<1>3. CASE closeSession(t)
  BY <1>0, <1>2, <1>3, CloseMoves DEF closeSession
<1>4. CASE closeUnanswered(t)
  BY <1>0, <1>2, <1>4, CloseMoves DEF closeUnanswered
<1>5. CASE closeFails(t)
  BY <1>0, <1>2, <1>5, CloseMoves DEF closeFails
<1>6. CASE deleteRow(t)
  BY <1>0, <1>2, <1>6, CloseMoves DEF deleteRow
<1>. QED BY <1>1, <1>3, <1>4, <1>5, <1>6 DEF Close

LEMMA RenameStep ==
  ASSUME IInv, NEW t \in Terminals, renameTerminal(t) PROVE IInv'
<1>1. PICK n \in world.names : rows' = [rows EXCEPT ![t].name = n]
  BY DEF renameTerminal
<1>2. /\ rows[t] # NoRow /\ n \in Names
      /\ unlike' = [u \in Terminals |-> IF u = t THEN {} ELSE unlike[u] \ {t}]
      /\ UNCHANGED <<sessions, create, lock, close, projects, deletion, ws, boot, up, faults,
                     late, world>>
  BY WorldsAssumption DEF renameTerminal, IInv, TypeOK
<1>3. /\ rows' \in [Terminals -> RowRecs]
      /\ rows'[t].state = rows[t].state
      /\ \A u \in Terminals : u # t => rows'[u] = rows[u]
  <2>1. PICK r : r = [rows[t] EXCEPT !.name = n]
    OBVIOUS
  <2>2. rows[t] \in RowRecs
    BY DEF IInv, TypeOK, RowRecs
  <2>3. r \in RowRecs /\ r.state = rows[t].state
    BY <1>2, <2>1, <2>2 DEF RowRecs
  <2>4. rows' = [rows EXCEPT ![t] = r]
    BY <1>1, <2>1
  <2>. QED BY <2>3, <2>4, RowTyped DEF IInv
<1>4. /\ unlike' \in [Terminals -> SUBSET Terminals] /\ unlike'[t] = {}
      /\ \A u \in Terminals : unlike'[u] \subseteq unlike[u] /\ t \notin unlike'[u]
  <2>1. unlike \in [Terminals -> SUBSET Terminals]
    BY DEF IInv, TypeOK
  <2>2. ASSUME NEW u \in Terminals
        PROVE  /\ unlike'[u] \subseteq unlike[u] /\ t \notin unlike'[u]
               /\ unlike'[u] \in SUBSET Terminals
    <3>1. unlike'[u] \in {{}, unlike[u] \ {t}} /\ (u = t => unlike'[u] = {})
      BY <1>2
    <3>2. t \notin unlike'[u]
      BY <3>1
    <3>. QED BY <2>1, <3>1, <3>2
  <2>3. unlike' \in [Terminals -> SUBSET Terminals]
    BY <1>2, <2>2
  <2>. QED BY <1>2, <2>2, <2>3
<1>5. TypeOK'
  BY <1>2, <1>3, <1>4 DEF IInv, TypeOK, RowRecs
<1>6. NoneInserted
  BY <1>2, <1>3, <1>4 DEF NoneInserted
<1>7. \A u \in Terminals : rows[u] = NoRow => rows'[u] = NoRow
  BY <1>2, <1>3
<1>. QED BY <1>2, <1>5, <1>6, <1>7, RowsShrink

LEMMA ShellExitsStep ==
  ASSUME IInv, NEW t \in Terminals, shellExits(t) PROVE IInv'
<1>1. /\ sessions' = sessions \ {t}
      /\ UNCHANGED <<rows, create, close, faults, late, ws, boot, up, world, lock, unlike,
                     projects, deletion>>
  BY DEF shellExits, requestsOnly, namesUnchanged
<1>2. TypeOK'
  BY <1>1 DEF IInv, TypeOK
<1>. QED BY <1>1, <1>2, RowsKept

LEMMA PruneStep ==
  ASSUME IInv, pruneEndedTerminals PROVE IInv'
<1>1. PICK old : /\ rows' = [t \in Terminals |-> IF t \in old THEN NoRow ELSE rows[t]]
                 /\ UNCHANGED <<sessions, create, close, faults, late, ws, boot, up, world,
                                lock, unlike, projects, deletion>>
  BY DEF pruneEndedTerminals, requestsOnly, namesUnchanged
<1>2. /\ rows' \in [Terminals -> RowRecs]
      /\ \A u \in Terminals : rows'[u] \in {rows[u], NoRow}
  BY <1>1, NoRowTyped DEF IInv, TypeOK, RowRecs
<1>3. TypeOK'
  BY <1>1, <1>2 DEF IInv, TypeOK, RowRecs
<1>4. NoneInserted
  BY <1>1, <1>2, NoRowTyped DEF NoneInserted
<1>. QED BY <1>1, <1>2, <1>3, <1>4, RowsShrink

----------------------------------------------------------------------------
(* The delete of a project ends terminals and takes their project away. *)
LEMMA DeleteMoves ==
  ASSUME IInv, deletionOnly,
         deletion' \in Deletions(world),
         projects' \in [Projects -> {"there", "removed", "deleted"}],
         rows' \in [Terminals -> RowRecs],
         \A u \in Terminals :
            /\ rows'[u].state = "open" => rows[u].state = "open" /\ rows'[u].name = rows[u].name
            /\ rows[u] = NoRow => rows'[u] = NoRow,
         sessions' \subseteq Terminals, Fault \/ UNCHANGED faults
  PROVE  IInv'
<1>1. UNCHANGED <<create, lock, close, ws, boot, up, late, unlike, world>>
  BY DEF deletionOnly
<1>2. faults' \in [calls : 0..world'.faults, crashes : 0..world'.crashes]
  BY <1>1, FaultsTyped DEF IInv
<1>3. TypeOK'
  BY <1>1, <1>2 DEF IInv, TypeOK, RowRecs, Deletions
<1>4. NoneInserted
  BY <1>1 DEF NoneInserted
<1>. QED BY <1>1, <1>3, <1>4, RowsShrink

LEMMA DeleteProjectStep ==
  ASSUME IInv, DeleteProject PROVE IInv'
<1>0. /\ deletion \in Deletions(world) /\ NoDeletion \in Deletions(world)
      /\ projects \in [Projects -> {"there", "removed", "deleted"}]
      /\ rows \in [Terminals -> RowRecs] /\ sessions \subseteq Terminals
      /\ boot \in 0..world.boots
  BY WorldsAssumption DEF IInv, TypeOK, Deletions, RowRecs, NoDeletion, ProjectIds
<1>1. CASE \E p \in Projects : deleteBegins(p)
  <2>1. PICK p \in Projects : deleteBegins(p)
    BY <1>1
  <2>2. /\ deletion' = [of |-> p, left |-> {t \in Open : rows[t].cwd = p}, mark |-> {},
                        removed |-> FALSE, boot |-> boot]
        /\ UNCHANGED <<rows, sessions, projects, faults>> /\ deletionOnly
    BY <2>1 DEF deleteBegins
  <2>3. deletion' \in Deletions(world)
    BY <1>0, <2>2 DEF Deletions, ProjectIds, Open
  <2>. QED BY <1>0, <2>2, <2>3, DeleteMoves
<1>2. CASE \E t \in Terminals : endInside(t)
  <2>1. PICK t \in Terminals : endInside(t)
    BY <1>2
  <2>2. /\ deletion' = [deletion EXCEPT !.left = @ \ {t}, !.mark = {t}]
        /\ sessions' \subseteq Terminals
        /\ (Fault \/ UNCHANGED faults)
        /\ UNCHANGED <<rows, projects>> /\ deletionOnly
    BY <1>0, <2>1 DEF endInside
  <2>3. deletion' \in Deletions(world)
    BY <1>0, <2>2 DEF Deletions
  <2>. QED BY <1>0, <2>2, <2>3, DeleteMoves
<1>3. CASE \E t \in Terminals : markEnded(t)
  <2>1. PICK t \in Terminals : markEnded(t)
    BY <1>3
  <2>2. /\ deletion' = [deletion EXCEPT !.mark = {}]
        /\ rows' = IF t \in Open THEN [rows EXCEPT ![t].state = "ended"] ELSE rows
        /\ UNCHANGED <<sessions, projects, faults>> /\ deletionOnly
    BY <2>1 DEF markEnded
  <2>3. deletion' \in Deletions(world)
    BY <1>0, <2>2 DEF Deletions
  <2>4. /\ rows' \in [Terminals -> RowRecs]
        /\ \A u \in Terminals : rows'[u] = rows[u] \/ (u \in Open /\ rows'[u].state = "ended")
    BY <1>0, <2>2 DEF RowRecs
  <2>5. \A u \in Terminals :
            /\ rows'[u].state = "open" => rows[u].state = "open" /\ rows'[u].name = rows[u].name
            /\ rows[u] = NoRow => rows'[u] = NoRow
    BY <2>4, NoRowTyped DEF Open
  <2>. QED BY <1>0, <2>2, <2>3, <2>4, <2>5, DeleteMoves
<1>4. CASE removeFolder
  <2>1. /\ deletion' = [deletion EXCEPT !.removed = TRUE]
        /\ projects' = [projects EXCEPT ![deletion.of] = "removed"]
        /\ UNCHANGED <<rows, sessions, faults>> /\ deletionOnly
    BY <1>4 DEF removeFolder
  <2>2. /\ deletion' \in Deletions(world)
        /\ projects' \in [Projects -> {"there", "removed", "deleted"}]
    BY <1>0, <2>1 DEF Deletions
  <2>. QED BY <1>0, <2>1, <2>2, DeleteMoves
<1>5. CASE deleteFails
  <2>1. /\ deletion' = NoDeletion
        /\ (Fault \/ UNCHANGED faults)
        /\ UNCHANGED <<rows, sessions, projects>> /\ deletionOnly
    BY <1>5 DEF deleteFails
  <2>. QED BY <1>0, <2>1, DeleteMoves
<1>6. CASE projectDeleted
  <2>1. /\ projects' = [projects EXCEPT ![deletion.of] = "deleted"]
        /\ rows' = [t \in Terminals |-> IF rows[t].project = deletion.of
                                    THEN [rows[t] EXCEPT !.project = NoProject] ELSE rows[t]]
        /\ deletion' = NoDeletion
        /\ UNCHANGED <<sessions, faults>> /\ deletionOnly
    BY <1>6 DEF projectDeleted
  <2>2. projects' \in [Projects -> {"there", "removed", "deleted"}]
    BY <1>0, <2>1
  <2>3. ASSUME NEW u \in Terminals
        PROVE  /\ rows'[u] \in RowRecs
               /\ rows'[u].state = rows[u].state /\ rows'[u].name = rows[u].name
               /\ rows[u] = NoRow => rows'[u] = NoRow
    <3>1. PICK r : r = [rows[u] EXCEPT !.project = NoProject]
      OBVIOUS
    <3>2. /\ r \in RowRecs /\ r.state = rows[u].state /\ r.name = rows[u].name
          /\ rows[u] = NoRow => r = NoRow
      BY <1>0, <3>1 DEF RowRecs, ProjectIds, NoRow
    <3>3. rows'[u] \in {r, rows[u]}
      BY <2>1, <3>1
    <3>. QED BY <1>0, <3>2, <3>3
  <2>4. rows' \in [Terminals -> RowRecs]
    BY <2>1, <2>3
  <2>. QED BY <1>0, <2>1, <2>2, <2>3, <2>4, DeleteMoves
<1>. QED BY <1>1, <1>2, <1>3, <1>4, <1>5, <1>6 DEF DeleteProject

----------------------------------------------------------------------------
(* The worker. *)

(* Steps that change no row, create or name keep all but what is said of the
   stop. *)
LEMMA WorkerLeavesRows ==
  ASSUME IInv, UNCHANGED <<rows, create, lock, unlike>>
  PROVE  /\ CapHolds' /\ NamesDiffer' /\ LockOK' /\ SeenWasThere' /\ FreshRows' /\ Open' = Open
<1>1. Open' = Open
  BY DEF Open
<1>. QED BY <1>1 DEF IInv, CapHolds, NamesDiffer, LockOK, SeenWasThere, FreshRows

LEMMA EndOpenStep ==
  ASSUME IInv, endOpenTerminals PROVE IInv'
<1>1. /\ rows' = [t \in Terminals |->
                   IF t \in Open THEN [rows[t] EXCEPT !.state = "ended"] ELSE rows[t]]
      /\ ws' = [ws EXCEPT !.ending = FALSE, !.stopCall = (ws.state = "stopping")]
      /\ ws.ending
      /\ UNCHANGED <<sessions, boot, up, faults, create, close, late, world, lock, unlike,
                     projects, deletion>>
  BY DEF endOpenTerminals, requestsUnchanged, namesUnchanged
<1>2. \A t \in Terminals : /\ rows'[t] \in RowRecs /\ rows'[t].state # "open"
                           /\ rows[t] = NoRow => rows'[t] = NoRow
  <2>1. SUFFICES ASSUME NEW t \in Terminals
                 PROVE  /\ rows'[t] \in RowRecs /\ rows'[t].state # "open"
                        /\ rows[t] = NoRow => rows'[t] = NoRow
    OBVIOUS
  <2>2. rows[t] \in RowRecs
    BY DEF IInv, TypeOK, RowRecs
  <2>3. CASE t \in Open
    BY <1>1, <2>2, <2>3, NoRowTyped DEF RowRecs, Open
  <2>4. CASE t \notin Open
    BY <1>1, <2>2, <2>4 DEF Open
  <2>. QED BY <2>3, <2>4
<1>3. rows' \in [Terminals -> RowRecs]
  BY <1>1, <1>2
<1>4. ws' \in [state : {"running", "stopping", "stopped"}, ending : BOOLEAN, stopCall : BOOLEAN]
  BY <1>1, Zenon DEF IInv, TypeOK
<1>5. TypeOK'
  BY <1>1, <1>3, <1>4 DEF IInv, TypeOK, RowRecs
<1>6. Open' = {}
  BY <1>2 DEF Open
<1>7. CapHolds' /\ NamesDiffer' /\ LockOK' /\ SeenWasThere'
  <2>1. NoneInserted
    BY <1>1, <1>2 DEF NoneInserted
  <2>. QED BY <2>1, NothingInserted
<1>8. FreshRows'
  BY <1>1, <1>2 DEF IInv, FreshRows
<1>9. StopCallAfterEnding'
  <2>1. ws'.state = ws.state /\ ws'.ending = FALSE
    BY <1>1 DEF IInv, TypeOK
  <2>2. ws'.stopCall = (ws.state = "stopping")
    BY <1>1, Zenon DEF IInv, TypeOK
  <2>. QED BY <2>1, <2>2, Zenon DEF StopCallAfterEnding
<1>10. MissedByTheStop'
  BY <1>6 DEF MissedByTheStop
<1>. QED BY <1>5, <1>7, <1>8, <1>9, <1>10 DEF IInv

LEMMA WorkerRestartsStep ==
  ASSUME IInv, workerRestarts PROVE IInv'
<1>1. /\ ws' = [ws EXCEPT !.ending = FALSE, !.stopCall = FALSE]
      /\ late' = [t \in Terminals |->
                    late[t] \/ (t \in Open /\ ws.ending /\ ws.state = "stopped")]
      /\ UNCHANGED <<rows, sessions, create, close, boot, up, world, lock, unlike, projects,
                     deletion>>
      /\ Crash
  BY DEF workerRestarts, namesUnchanged
<1>2. /\ ws'.state = ws.state /\ ws'.ending = FALSE /\ ws'.stopCall = FALSE
      /\ ws' \in [state : {"running", "stopping", "stopped"}, ending : BOOLEAN, stopCall : BOOLEAN]
  BY <1>1 DEF IInv, TypeOK
<1>3. late' \in [Terminals -> BOOLEAN]
  BY <1>1
<1>4. faults' \in [calls : 0..world'.faults, crashes : 0..world'.crashes]
  BY <1>1, FaultsTyped DEF IInv
<1>5. TypeOK'
  BY <1>1, <1>2, <1>3, <1>4 DEF IInv, TypeOK
<1>6. CapHolds' /\ NamesDiffer' /\ LockOK' /\ SeenWasThere' /\ FreshRows' /\ Open' = Open
  BY <1>1, WorkerLeavesRows
<1>7. StopCallAfterEnding'
  BY <1>2 DEF StopCallAfterEnding
<1>8. MissedByTheStop'
  <2>1. ASSUME ws.state = "stopped", NEW t \in Open PROVE late'[t]
    <3>1. t \in Terminals
      BY DEF Open
    <3>2. CASE ws.ending
      BY <1>1, <2>1, <3>1, <3>2, Zenon
    <3>3. CASE ~ws.ending
      <4>1. late[t]
        BY <2>1, <3>3 DEF IInv, MissedByTheStop
      <4>. QED BY <1>1, <3>1, <4>1, Zenon
    <3>. QED BY <3>2, <3>3
  <2>. QED BY <1>2, <1>6, <2>1 DEF MissedByTheStop
<1>. QED BY <1>5, <1>6, <1>7, <1>8 DEF IInv

(* The other steps set the state of the workspace and of the instance. *)
LEMMA WorkerMoves ==
  ASSUME IInv, UNCHANGED <<rows, create, close, late, world, lock, unlike, projects, deletion>>,
         ws' \in [state : {"running", "stopping", "stopped"}, ending : BOOLEAN, stopCall : BOOLEAN],
         sessions' \subseteq Terminals, up' \in BOOLEAN, boot' \in 0..world.boots,
         Crash \/ UNCHANGED faults,
         ws'.stopCall => ws'.state = "stopping" /\ ~ws'.ending,
         ws'.stopCall \/ (ws'.state = "stopped" /\ ~ws'.ending) =>
             ws.stopCall \/ (ws.state = "stopped" /\ ~ws.ending)
  PROVE  IInv'
<1>1. faults' \in [calls : 0..world'.faults, crashes : 0..world'.crashes]
  BY FaultsTyped DEF IInv
<1>2. TypeOK'
  BY <1>1 DEF IInv, TypeOK
<1>3. CapHolds' /\ NamesDiffer' /\ LockOK' /\ SeenWasThere' /\ FreshRows' /\ Open' = Open
  BY WorkerLeavesRows
<1>4. StopCallAfterEnding' /\ MissedByTheStop'
  BY <1>3 DEF IInv, StopCallAfterEnding, MissedByTheStop
<1>. QED BY <1>2, <1>3, <1>4 DEF IInv

LEMMA WorkerStep ==
  ASSUME IInv, Worker PROVE IInv'
<1>. USE DEF requestsUnchanged, namesUnchanged
<1>0. /\ ws \in [state : {"running", "stopping", "stopped"}, ending : BOOLEAN, stopCall : BOOLEAN]
      /\ sessions \subseteq Terminals /\ {} \subseteq Terminals /\ up \in BOOLEAN
      /\ boot \in 0..world.boots /\ world.boots \in Nat
      /\ StopCallAfterEnding
  BY WorldsAssumption DEF IInv, TypeOK
<1>1. CASE stopRunning
  <2>1. /\ ws' = [state |-> "stopping", ending |-> TRUE, stopCall |-> FALSE]
        /\ UNCHANGED <<rows, sessions, boot, up, faults, create, close, late, world,
                       lock, unlike, projects, deletion>>
    BY <1>1 DEF stopRunning, Ends
  <2>. QED BY <1>0, <2>1, WorkerMoves
<1>2. CASE instanceStops
  <2>1. /\ up' = FALSE /\ sessions' = {}
        /\ UNCHANGED <<rows, ws, boot, faults, create, close, late, world,
                       lock, unlike, projects, deletion>>
    BY <1>2 DEF instanceStops
  <2>. QED BY <1>0, <2>1, WorkerMoves DEF StopCallAfterEnding
<1>3. CASE stopEnds
  <2>1. /\ ws' = [ws EXCEPT !.state = "stopped", !.stopCall = FALSE] /\ ws.stopCall
        /\ UNCHANGED <<rows, sessions, boot, up, faults, create, close, late, world,
                       lock, unlike, projects, deletion>>
    BY <1>3 DEF stopEnds
  <2>2. /\ ws' \in [state : {"running", "stopping", "stopped"}, ending : BOOLEAN, stopCall : BOOLEAN]
        /\ ws'.stopCall = FALSE
    BY <1>0, <2>1
  <2>. QED BY <1>0, <2>1, <2>2, WorkerMoves
<1>4. CASE resolveStopping
  <2>1. /\ ws.state = "stopping" /\ ~ws.ending /\ ~ws.stopCall
        /\ ws' = IF up THEN [ws EXCEPT !.state = "running"]
                 ELSE [ws EXCEPT !.state = "stopped", !.ending = TRUE]
        /\ UNCHANGED <<rows, sessions, boot, up, faults, create, close, late, world,
                       lock, unlike, projects, deletion>>
    BY <1>4 DEF resolveStopping
  <2>2. /\ ws' \in [state : {"running", "stopping", "stopped"}, ending : BOOLEAN, stopCall : BOOLEAN]
        /\ ws'.stopCall = ws.stopCall
        /\ ws'.state = "running" \/ (ws'.state = "stopped" /\ ws'.ending)
    BY <1>0, <2>1
  <2>. QED BY <1>0, <2>1, <2>2, WorkerMoves
<1>5. CASE instanceGoes
  <2>1. /\ up' = FALSE /\ sessions' = {} /\ Crash
        /\ UNCHANGED <<rows, ws, boot, create, close, late, world,
                       lock, unlike, projects, deletion>>
    BY <1>5 DEF instanceGoes
  <2>. QED BY <1>0, <2>1, WorkerMoves DEF StopCallAfterEnding
<1>6. CASE observeStopped
  <2>1. /\ ws.state = "running"
        /\ ws' = [ws EXCEPT !.state = "stopped", !.ending = TRUE]
        /\ UNCHANGED <<rows, sessions, boot, up, faults, create, close, late, world,
                       lock, unlike, projects, deletion>>
    BY <1>6 DEF observeStopped
  <2>2. /\ ws' \in [state : {"running", "stopping", "stopped"}, ending : BOOLEAN, stopCall : BOOLEAN]
        /\ ws'.stopCall = ws.stopCall /\ ws'.ending = TRUE
    BY <1>0, <2>1
  <2>3. ~ws.stopCall
    BY <1>0, <2>1 DEF StopCallAfterEnding
  <2>. QED BY <1>0, <2>1, <2>2, <2>3, WorkerMoves
<1>7. CASE startEnds
  <2>1. /\ ws.state = "stopped" /\ ws' = [ws EXCEPT !.state = "running"]
        /\ boot < world.boots /\ boot' = boot + 1 /\ up' = TRUE
        /\ UNCHANGED <<rows, sessions, faults, create, close, late, world,
                       lock, unlike, projects, deletion>>
    BY <1>7 DEF startEnds
  <2>2. /\ ws' \in [state : {"running", "stopping", "stopped"}, ending : BOOLEAN, stopCall : BOOLEAN]
        /\ ws'.stopCall = ws.stopCall /\ ws'.state = "running"
    BY <1>0, <2>1
  <2>3. ~ws.stopCall
    BY <1>0, <2>1 DEF StopCallAfterEnding
  <2>4. boot' \in 0..world.boots
    BY <1>0, <2>1
  <2>. QED BY <1>0, <2>1, <2>2, <2>3, <2>4, WorkerMoves
<1>. QED BY <1>1, <1>2, <1>3, <1>4, <1>5, <1>6, <1>7, EndOpenStep, WorkerRestartsStep DEF Worker

----------------------------------------------------------------------------
LEMMA InitInvariant == Init => IInv
<1>1. SUFFICES ASSUME Init PROVE IInv
  OBVIOUS
<1>2. world.boots \in Nat \ {0} /\ world.faults \in Nat /\ world.crashes \in Nat
  BY <1>1, WorldsAssumption DEF Init
<1>3. TypeOK
  <2>1. NoDeletion \in Deletions(world)
    BY <1>2 DEF NoDeletion, Deletions, ProjectIds
  <2>. QED BY <1>1, <1>2, <2>1, NoRowTyped DEF Init, TypeOK, RowRecs, Deletions, ProjectIds
<1>4. Open = {}
  BY <1>1, NoRowTyped DEF Init, Open
<1>5. CapHolds /\ NamesDiffer /\ MissedByTheStop /\ LockOK /\ SeenWasThere
  BY <1>1, <1>4, FS_EmptySet, TerminalsAssumption
     DEF Init, CapHolds, NamesDiffer, MissedByTheStop, LockOK, SeenWasThere
<1>6. FreshRows /\ StopCallAfterEnding
  BY <1>1 DEF Init, FreshRows, StopCallAfterEnding
<1>. QED BY <1>3, <1>5, <1>6 DEF IInv

LEMMA StutterStep ==
  ASSUME IInv, UNCHANGED vars PROVE IInv'
<1>1. UNCHANGED <<rows, sessions, create, lock, close, projects, deletion, ws, boot, up, faults,
                  late, unlike, world>>
  BY DEF vars
<1>2. TypeOK'
  BY <1>1 DEF IInv, TypeOK
<1>. QED BY <1>1, <1>2, RowsKept

LEMMA Invariant == Spec => []IInv
<1>1. Init => IInv
  BY InitInvariant
<1>2. IInv /\ [Next]_vars => IInv'
  BY CreateStep, CloseStep, RenameStep, ShellExitsStep, PruneStep, DeleteProjectStep, WorkerStep,
     StutterStep DEF Next
<1>. QED BY <1>1, <1>2, PTL DEF Spec

(* The rows, requests, projects and sessions have their types. *)
THEOREM TerminalsTyped == Spec => []TypeOK
<1>1. IInv => TypeOK
  BY DEF IInv
<1>. QED BY <1>1, Invariant, PTL

(* Parallel creates never open more terminals than the cap: the create counts
   again under the lock it inserts under. *)
THEOREM CapNeverPassed == Spec => []CapHolds
<1>1. IInv => CapHolds
  BY DEF IInv
<1>. QED BY <1>1, Invariant, PTL

(* A name the server chose differs from each one the project's open terminals
   had when it was chosen, numbers users gave included, whatever creates,
   renames, closes and deletes come between its choice and its insert and after,
   as long as neither terminal is given another name. *)
THEOREM ChosenNamesDiffer == Spec => []NamesDiffer
<1>1. IInv => NamesDiffer
  BY DEF IInv
<1>. QED BY <1>1, Invariant, PTL

(* Once the terminals of a stopped workspace have been ended, only rows the
   stop missed are open, however often worker and instance stop. *)
THEOREM StopEnds == Spec => []StopEndsTerminals
<1>1. IInv => StopEndsTerminals
  BY DEF IInv, MissedByTheStop, StopEndsTerminals
<1>. QED BY <1>1, Invariant, PTL

-----------------------------------------------------------------------------
(* The pipe of one socket (TerminalPipe), between the browser and the agent,
   on which the agent's last word travels. *)

Browsers == [state : {"open", "closing", "closed"}, by : {"none", "peer", "api", "agent"},
             paused : BOOLEAN]

(* Once the last word has come, a browser that is still open has been told it
   or its explanation is being looked up, and the agent's close waits for
   that. *)
PipeInv ==
    /\ browser \in Browsers
    /\ browser.state = "open" => browser.by = "none"
    /\ browser.state = "open" /\ ending => told \/ explain = "looking"
    /\ browser.by = "agent" /\ ending => told

(* The browser of the next state is as it was, or was closed by who. *)
GoesBy(who) ==
    /\ browser' \in Browsers
    /\ \/ browser'.state = browser.state /\ browser'.by = browser.by
       \/ browser.state = "open" /\ browser'.state # "open" /\ browser'.by = who
       \/ browser.state # "open" /\ browser'.state # "open" /\ browser'.by = browser.by

LEMMA BrowserGoes ==
    ASSUME NEW b \in Browsers, NEW who \in {"peer", "api", "agent"}
    PROVE  \A c \in {ClosedBy(b, who), Cancelled(ClosedBy(b, who))} :
              /\ c \in Browsers
              /\ c.state = IF b.state = "open" THEN "closing" ELSE b.state
              /\ c.by = IF b.state = "open" THEN who ELSE b.by
<1>1. ASSUME NEW c \in Browsers
      PROVE  /\ Cancelled(c) \in Browsers
             /\ Cancelled(c).state = c.state /\ Cancelled(c).by = c.by
  BY DEF Cancelled, Browsers
<1>2. PICK c : c = ClosedBy(b, who)
  OBVIOUS
<1>3. /\ c \in Browsers
      /\ c.state = IF b.state = "open" THEN "closing" ELSE b.state
      /\ c.by = IF b.state = "open" THEN who ELSE b.by
  <2>1. CASE b.state = "open"
    <3>1. c = [b EXCEPT !.state = "closing", !.by = who]
      BY <1>2, <2>1 DEF ClosedBy
    <3> QED
      BY <2>1, <3>1 DEF Browsers
  <2>2. CASE b.state # "open"
    BY <1>2, <2>2 DEF ClosedBy
  <2> QED
    BY <2>1, <2>2
<1> QED
  BY <1>1, <1>2, <1>3

(* Steps that leave the last word alone. *)
LEMMA QuietPipe ==
    ASSUME PipeInv, UNCHANGED <<ending, explain, told>>, GoesBy("peer") \/ GoesBy("api")
    PROVE  PipeInv'
BY DEF PipeInv, GoesBy

LEMMA PipeKeeps ==
    ASSUME PipeInv, [PipeNext]_pipeVars
    PROVE  PipeInv'
<1>b. browser \in Browsers
  BY DEF PipeInv
<1>1. CASE \/ takeSlot \/ openPresence \/ dropPresence \/ rowExpires
           \/ onUpstreamOpen \/ onOutput \/ agentCloses \/ upstreamGoes
           \/ revoke \/ beginCheck \/ checkFails \/ UNCHANGED pipeVars
  <2>1. UNCHANGED <<browser, ending, explain, told>>
    BY <1>1 DEF takeSlot, openPresence, dropPresence, rowExpires, onUpstreamOpen, onOutput,
       agentCloses, upstreamGoes, revoke, beginCheck, checkFails, pipeVars, pipeUnchanged
  <2> QED
    BY <2>1 DEF PipeInv
<1>2. CASE \/ slotRefused \/ presenceFails \/ onMessage \/ browserCloses
           \/ onBrowserClose \/ onUpstreamError \/ drained \/ endCheck
           \/ endFromElsewhere
  <2>1. UNCHANGED <<ending, explain, told>>
    BY <1>2 DEF slotRefused, presenceFails, onMessage, browserCloses, onBrowserClose,
       onUpstreamError, drained, endCheck, endFromElsewhere, pipeUnchanged
  <2>2. ASSUME NEW who \in {"peer", "api"},
               browser' \in {browser, ClosedBy(browser, who),
                             Cancelled(ClosedBy(browser, who))}
        PROVE  GoesBy(who)
    BY <1>b, <2>2, BrowserGoes DEF GoesBy, Browsers
  <2>3. CASE \/ slotRefused \/ presenceFails \/ browserCloses
             \/ onUpstreamError \/ endCheck \/ endFromElsewhere
    <3>1. \E who \in {"peer", "api"} :
            browser' \in {browser, ClosedBy(browser, who),
                          Cancelled(ClosedBy(browser, who))}
      BY <2>3 DEF slotRefused, presenceFails, browserCloses, onUpstreamError, endCheck,
         endFromElsewhere, finish, endBrowser
    <3> QED
      BY <2>1, <2>2, <3>1, QuietPipe
  <2>4. CASE onMessage
    <3>1. CASE \E full \in BOOLEAN : browser' = [browser EXCEPT !.paused = full]
      <4>1. GoesBy("api")
        BY <1>b, <3>1 DEF GoesBy, Browsers
      <4> QED
        BY <2>1, <4>1, QuietPipe
    <3>2. CASE browser' \in {browser, ClosedBy(browser, "api")}
      BY <2>1, <2>2, <3>2, QuietPipe
    <3> QED
      BY <2>4, <3>1, <3>2 DEF onMessage, QueueFull, endBrowser
  <2>5. CASE onBrowserClose \/ drained
    <3>1. PICK b : /\ b \in {browser, [browser EXCEPT !.state = "closed"]}
                   /\ browser' \in {b, Cancelled(b)}
                   /\ browser.state # "open" \/ b = browser
      BY <2>5 DEF onBrowserClose, drained, finish
    <3>2. /\ b \in Browsers /\ b.by = browser.by
          /\ b.state \in {browser.state, "closed"}
      BY <1>b, <3>1 DEF Browsers
    <3>3. /\ Cancelled(b) \in Browsers
          /\ Cancelled(b).state = b.state /\ Cancelled(b).by = b.by
      BY <3>2 DEF Cancelled, Browsers
    <3>4. GoesBy("api")
      BY <3>1, <3>2, <3>3 DEF GoesBy
    <3> QED
      BY <2>1, <3>4, QuietPipe
  <2> QED
    BY <1>2, <2>3, <2>4, <2>5
<1>3. CASE onExit \/ onGone
  BY <1>3 DEF onExit, onGone, PipeInv
<1>4. CASE explained
  BY <1>4 DEF explained, PipeInv
<1>5. CASE onUpstreamClose
  <2>1. /\ UNCHANGED <<ending, explain, told>> /\ explain # "looking"
        /\ browser' = Cancelled(ClosedBy(browser, "agent"))
    BY <1>5 DEF onUpstreamClose, MayClose, pipeUnchanged, finish
  <2>2. GoesBy("agent") /\ browser'.state # "open"
    BY <1>b, <2>1, BrowserGoes DEF GoesBy, Browsers
  <2> QED
    BY <2>1, <2>2 DEF PipeInv, GoesBy
<1> QED
  BY <1>1, <1>2, <1>3, <1>4, <1>5 DEF PipeNext

(* A browser whose socket closes because the agent's did has been told the
   terminal's last word, whichever of its frames, the agent's close, the
   lookup and the ends by others come first. *)
THEOREM LastWordIsTold == PipeSpec => []ToldBeforeClose
<1>1. PipeInit => PipeInv
  BY DEF PipeInit, PipeInv, Browsers
<1>2. PipeInv /\ [PipeNext]_pipeVars => PipeInv'
  BY PipeKeeps
<1>3. PipeInv => ToldBeforeClose
  BY DEF PipeInv, ToldBeforeClose
<1> QED
  BY <1>1, <1>2, <1>3, PTL DEF PipeSpec
=============================================================================
