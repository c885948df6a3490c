------------------------ MODULE TerminalAttach_proofs ------------------------
(***************************************************************************)
(* Proofs about TerminalAttach: for any number of browsers, any cap and    *)
(* any amount of input, a closed socket leaves nothing behind and the PTY  *)
(* gets the input in the order it was typed.                               *)
(*                                                                         *)
(* The first needs that a socket which attach has not taken up is open and *)
(* has neither a slot nor a client (NewSocketsOpen), the second that the   *)
(* frames held back were typed after all that are written                  *)
(* (HeldFollowsWritten), whether the timer or the first output ends the    *)
(* hold and whatever a full queue dropped.                                 *)
(***************************************************************************)
EXTENDS TerminalAttach, SequenceTheorems, TLAPS

Frames == Seq(1..MaxInput)

TableTypes ==
    /\ room \in Rooms
    /\ attached \subseteq Attachments /\ sizing \subseteq Attachments
    /\ holder \in MaybeAttachment /\ latest \in MaybeAttachment
    /\ at \in [Attachments -> {"new", "checking", "history", "attached", "failed"}]
    /\ socket \in [Attachments -> {"open", "closing", "closed"}]
    /\ pty \in [Attachments -> {"none", "live", "killed", "asking", "answered", "told", "gone"}]
    /\ flushing \in [Attachments -> BOOLEAN] /\ draining \in [Attachments -> BOOLEAN]
    /\ sized \in [Attachments -> BOOLEAN]
    /\ claim \in [Attachments -> {"none", "listing", "claimed", "missed"}]
    /\ session \in BOOLEAN

InputTypes ==
    /\ pending \in [Attachments -> {None} \cup Frames]
    /\ \A a \in Attachments : pending[a] = None \/ Len(pending[a]) <= MaxPending
    /\ typed \in [Attachments -> 0..MaxInput]
    /\ written \in [Attachments -> Frames]

(* A socket that no attach has taken up is open and has nothing. *)
NewSocketsOpen ==
    \A a \in Attachments : at[a] = "new" => socket[a] = "open" /\ pty[a] = "none" /\ a \notin attached

Increasing(s) == \A i, j \in 1..Len(s) : i < j => s[i] < s[j]
UpTo(s, n) == \A i \in 1..Len(s) : s[i] <= n
Before(s, t) == \A i \in 1..Len(s) : \A j \in 1..Len(t) : s[i] < t[j]

(* What is written and what is held are increasing, the held after the
   written, and the next frame comes after both. *)
HeldFollowsWritten ==
    \A a \in Attachments :
        /\ Increasing(written[a]) /\ UpTo(written[a], typed[a])
        /\ pending[a] # None =>
              /\ Increasing(pending[a]) /\ UpTo(pending[a], typed[a])
              /\ Before(written[a], pending[a])

IInv == TypeOK /\ ClosedHoldsNothing /\ NewSocketsOpen /\ HeldFollowsWritten

Tables == TableTypes /\ ClosedHoldsNothing /\ NewSocketsOpen
Input == InputTypes /\ HeldFollowsWritten

LEMMA InvariantByPart == IInv <=> Tables /\ Input
BY DEF IInv, TypeOK, Tables, TableTypes, ClosedHoldsNothing, NewSocketsOpen, Input, InputTypes,
       HeldFollowsWritten, Frames

----------------------------------------------------------------------------
(* Sequences of frames. *)
LEMMA AppendLater ==
  ASSUME NEW s \in Frames, NEW n \in 0..MaxInput, n < MaxInput, Increasing(s), UpTo(s, n)
  PROVE  /\ Append(s, n + 1) \in Frames /\ Len(Append(s, n + 1)) = Len(s) + 1
         /\ Increasing(Append(s, n + 1)) /\ UpTo(Append(s, n + 1), n + 1)
         /\ \A r \in Frames : UpTo(r, n) /\ Before(r, s) => Before(r, Append(s, n + 1))
<1>1. n + 1 \in 1..MaxInput /\ MaxInput \in Nat
  BY AttachAssumption
<1>2. PICK t : t = Append(s, n + 1)
  OBVIOUS
<1>3. /\ t \in Frames /\ Len(t) = Len(s) + 1 /\ Len(s) \in Nat
      /\ \A i \in 1..Len(s) : t[i] = s[i]
      /\ t[Len(s) + 1] = n + 1
  BY <1>1, <1>2, AppendProperties, LenProperties DEF Frames
<1>4. \A i \in 1..Len(s) : s[i] \in 1..MaxInput
  BY ElementOfSeq DEF Frames
<1>5. Increasing(t) /\ UpTo(t, n + 1)
  <2>1. \A i \in 1..Len(t) : i \in 1..Len(s) \/ i = Len(s) + 1
    BY <1>3
  <2>2. \A i \in 1..Len(s) : t[i] <= n /\ t[i] \in 1..MaxInput
    BY <1>3, <1>4 DEF UpTo
  <2>3. UpTo(t, n + 1)
    BY <1>1, <1>3, <2>1, <2>2 DEF UpTo
  <2>4. SUFFICES ASSUME NEW i \in 1..Len(t), NEW j \in 1..Len(t), i < j PROVE t[i] < t[j]
    BY <2>3 DEF Increasing
  <2>5. i \in 1..Len(s)
    BY <1>3, <2>1, <2>4
  <2>6. CASE j \in 1..Len(s)
    BY <1>3, <2>4, <2>5, <2>6 DEF Increasing
  <2>7. CASE j = Len(s) + 1
    BY <1>1, <1>3, <2>2, <2>5, <2>7
  <2>. QED BY <2>1, <2>6, <2>7
<1>6. ASSUME NEW r \in Frames, UpTo(r, n), Before(r, s) PROVE Before(r, t)
  <2>1. \A i \in 1..Len(r) : r[i] \in 1..MaxInput
    BY ElementOfSeq DEF Frames
  <2>2. SUFFICES ASSUME NEW i \in 1..Len(r), NEW j \in 1..Len(t) PROVE r[i] < t[j]
    BY DEF Before
  <2>3. CASE j \in 1..Len(s)
    BY <1>3, <1>6, <2>3 DEF Before
  <2>4. CASE j = Len(s) + 1
    <3>1. r[i] <= n /\ r[i] \in 1..MaxInput
      BY <1>6, <2>1 DEF UpTo
    <3>. QED BY <1>1, <1>3, <2>4, <3>1
  <2>. QED BY <1>3, <2>2, <2>3, <2>4
<1>. QED BY <1>2, <1>3, <1>5, <1>6

LEMMA ConcatLater ==
  ASSUME NEW s \in Frames, NEW t \in Frames, NEW n \in 0..MaxInput,
         Increasing(s), Increasing(t), UpTo(s, n), UpTo(t, n), Before(s, t)
  PROVE  s \o t \in Frames /\ Increasing(s \o t) /\ UpTo(s \o t, n)
<1>1. PICK u : u = s \o t
  OBVIOUS
<1>2. /\ u \in Frames /\ Len(u) = Len(s) + Len(t) /\ Len(s) \in Nat /\ Len(t) \in Nat
      /\ \A i \in 1..Len(s) + Len(t) : u[i] = IF i <= Len(s) THEN s[i] ELSE t[i - Len(s)]
  BY <1>1, ConcatProperties, LenProperties DEF Frames
<1>3. \A i \in 1..Len(u) : \/ i \in 1..Len(s) /\ u[i] = s[i]
                           \/ i - Len(s) \in 1..Len(t) /\ i > Len(s) /\ u[i] = t[i - Len(s)]
  BY <1>2
<1>4. UpTo(u, n)
  BY <1>3 DEF UpTo
<1>5. Increasing(u)
  <2>1. SUFFICES ASSUME NEW i \in 1..Len(u), NEW j \in 1..Len(u), i < j PROVE u[i] < u[j]
    BY DEF Increasing
  <2>2. CASE j \in 1..Len(s) /\ u[j] = s[j]
    <3>1. i \in 1..Len(s) /\ u[i] = s[i]
      BY <1>2, <1>3, <2>1, <2>2
    <3>. QED BY <2>1, <2>2, <3>1 DEF Increasing
  <2>3. CASE j - Len(s) \in 1..Len(t) /\ j > Len(s) /\ u[j] = t[j - Len(s)]
    <3>1. CASE i \in 1..Len(s) /\ u[i] = s[i]
      BY <2>3, <3>1 DEF Before
    <3>2. CASE i - Len(s) \in 1..Len(t) /\ i > Len(s) /\ u[i] = t[i - Len(s)]
      <4>1. PICK k \in 1..Len(t), l \in 1..Len(t) : k = i - Len(s) /\ l = j - Len(s)
        BY <2>3, <3>2
      <4>2. k < l
        BY <1>2, <2>1, <4>1
      <4>3. t[k] < t[l]
        BY <4>2 DEF Increasing
      <4>. QED BY <2>3, <3>2, <4>1, <4>3
    <3>. QED BY <1>3, <3>1, <3>2
  <2>. QED BY <1>3, <2>2, <2>3
<1>. QED BY <1>1, <1>2, <1>4, <1>5

LEMMA LaterBound ==
  ASSUME NEW s \in Frames, NEW n \in 0..MaxInput, UpTo(s, n) PROVE UpTo(s, n + 1)
<1>1. \A i \in 1..Len(s) : s[i] \in 1..MaxInput
  BY ElementOfSeq DEF Frames
<1>. QED BY <1>1 DEF UpTo

----------------------------------------------------------------------------
(* Input. *)
LEMMA InputKept ==
  ASSUME IInv, inputUnchanged PROVE Input'
BY InvariantByPart DEF Input, InputTypes, HeldFollowsWritten, inputUnchanged

(* What one attachment's handler leaves in order is in order. *)
LEMMA InputMoves ==
  ASSUME IInv, NEW a \in Attachments, NEW p \in {None} \cup Frames, NEW n \in 0..MaxInput,
         NEW w \in Frames,
         pending' = [pending EXCEPT ![a] = p], typed' = [typed EXCEPT ![a] = n],
         written' = [written EXCEPT ![a] = w],
         Increasing(w), UpTo(w, n),
         p # None => /\ Increasing(p) /\ UpTo(p, n) /\ Before(w, p) /\ Len(p) <= MaxPending
  PROVE  Input'
<1>1. Input
  BY InvariantByPart
<1>2. /\ pending'[a] = p /\ typed'[a] = n /\ written'[a] = w
      /\ \A b \in Attachments \ {a} : /\ pending'[b] = pending[b] /\ typed'[b] = typed[b]
                                      /\ written'[b] = written[b]
  BY <1>1 DEF Input, InputTypes
<1>3. InputTypes'
  <2>1. /\ pending' \in [Attachments -> {None} \cup Frames] /\ typed' \in [Attachments -> 0..MaxInput]
        /\ written' \in [Attachments -> Frames]
    BY <1>1 DEF Input, InputTypes
  <2>2. \A b \in Attachments : pending'[b] = None \/ Len(pending'[b]) <= MaxPending
    BY <1>1, <1>2 DEF Input, InputTypes
  <2>. QED BY <2>1, <2>2 DEF InputTypes
<1>4. HeldFollowsWritten'
  BY <1>1, <1>2 DEF Input, HeldFollowsWritten
<1>. QED BY <1>3, <1>4 DEF Input

LEMMA FlushInput ==
  ASSUME IInv, NEW a \in Attachments, flushPendingInput(a), UNCHANGED typed
  PROVE  Input'
<1>1. Input
  BY InvariantByPart
<1>2. /\ pending[a] \in {None} \cup Frames /\ typed[a] \in 0..MaxInput /\ written[a] \in Frames
      /\ Increasing(written[a]) /\ UpTo(written[a], typed[a])
      /\ pending[a] # None => /\ Increasing(pending[a]) /\ UpTo(pending[a], typed[a])
                              /\ Before(written[a], pending[a])
  BY <1>1 DEF Input, InputTypes, HeldFollowsWritten
<1>3. PICK w : /\ written' = [written EXCEPT ![a] = w] /\ w \in Frames
               /\ Increasing(w) /\ UpTo(w, typed[a])
  <2>1. CASE pending[a] = None
    <3>1. written' = [written EXCEPT ![a] = written[a]]
      BY <1>1, <2>1 DEF flushPendingInput, Input, InputTypes
    <3>. QED BY <1>2, <3>1
  <2>2. CASE pending[a] # None
    <3>1. written' = [written EXCEPT ![a] = written[a] \o pending[a]]
      BY <2>2 DEF flushPendingInput
    <3>2. /\ written[a] \o pending[a] \in Frames /\ Increasing(written[a] \o pending[a])
          /\ UpTo(written[a] \o pending[a], typed[a])
      BY <1>2, <2>2, ConcatLater
    <3>. QED BY <3>1, <3>2
  <2>. QED BY <2>1, <2>2
<1>4. pending' = [pending EXCEPT ![a] = None] /\ typed' = [typed EXCEPT ![a] = typed[a]]
  BY <1>1 DEF flushPendingInput, Input, InputTypes
<1>. QED BY <1>2, <1>3, <1>4, InputMoves

LEMMA TypedInput ==
  ASSUME IInv, NEW a \in Attachments, onInput(a) PROVE Input'
<1>1. Input
  BY InvariantByPart
<1>2. PICK n, p, w : n = typed[a] /\ p = pending[a] /\ w = written[a]
  OBVIOUS
<1>3. /\ p \in {None} \cup Frames /\ n \in 0..MaxInput /\ w \in Frames
      /\ Increasing(w) /\ UpTo(w, n) /\ n < MaxInput /\ MaxInput \in Nat /\ MaxPending \in Nat
      /\ p # None => /\ Increasing(p) /\ UpTo(p, n) /\ Before(w, p) /\ Len(p) <= MaxPending
  BY <1>1, <1>2, AttachAssumption DEF Input, InputTypes, HeldFollowsWritten, onInput
<1>4. typed' = [typed EXCEPT ![a] = n + 1] /\ n + 1 \in 0..MaxInput
  BY <1>2, <1>3 DEF onInput
<1>5. UpTo(w, n + 1)
  BY <1>3, LaterBound
<1>6. CASE pending[a] = None /\ pty[a] = "live"
  <2>1. written' = [written EXCEPT ![a] = Append(w, n + 1)] /\ pending' = [pending EXCEPT ![a] = None]
    BY <1>1, <1>2, <1>6 DEF onInput, Input, InputTypes
  <2>2. /\ Append(w, n + 1) \in Frames /\ Increasing(Append(w, n + 1))
        /\ UpTo(Append(w, n + 1), n + 1)
    BY <1>3, AppendLater
  <2>. QED BY <1>4, <2>1, <2>2, InputMoves
<1>7. CASE pending[a] # None /\ QueueHasRoom(a)
  <2>1. /\ pending' = [pending EXCEPT ![a] = Append(p, n + 1)]
        /\ written' = [written EXCEPT ![a] = w]
    BY <1>1, <1>2, <1>7 DEF onInput, Input, InputTypes
  <2>2. /\ Append(p, n + 1) \in Frames /\ Increasing(Append(p, n + 1))
        /\ UpTo(Append(p, n + 1), n + 1) /\ Before(w, Append(p, n + 1))
        /\ Len(Append(p, n + 1)) = Len(p) + 1
    BY <1>2, <1>3, <1>7, AppendLater
  <2>3. Len(Append(p, n + 1)) <= MaxPending
    <3>1. Len(p) \in Nat /\ Len(p) < MaxPending
      BY <1>2, <1>3, <1>7, LenProperties DEF QueueHasRoom, Frames
    <3>. QED BY <1>3, <2>2, <3>1
  <2>. QED BY <1>3, <1>4, <1>5, <2>1, <2>2, <2>3, InputMoves
<1>8. CASE ~(pending[a] = None /\ pty[a] = "live") /\ ~(pending[a] # None /\ QueueHasRoom(a))
  <2>1. DropsFrame(a)
    BY <1>8 DEF onInput
  <2>2. pending' = [pending EXCEPT ![a] = p] /\ written' = [written EXCEPT ![a] = w]
    BY <1>1, <1>2, <2>1 DEF DropsFrame, Input, InputTypes
  <2>3. p # None => UpTo(p, n + 1)
    BY <1>3, LaterBound
  <2>. QED BY <1>3, <1>4, <1>5, <2>2, <2>3, InputMoves
<1>. QED BY <1>6, <1>7, <1>8

----------------------------------------------------------------------------
(* The tables. *)
LEMMA SpawnTables ==
  ASSUME Tables, NEW a \in Attachments, at[a] # "new", spawnPty(a),
         UNCHANGED <<attached, holder, draining, socket, session, claim, sizing, latest, room>>
  PROVE  Tables'
<1>1. at' = [at EXCEPT ![a] = "attached"]
  BY DEF spawnPty
<1>2. CASE socket[a] = "closed"
  <2>1. UNCHANGED <<pty, flushing, sized>>
    BY <1>2 DEF spawnPty, StillWanted
  <2>. QED BY <1>1, <2>1 DEF Tables, TableTypes, ClosedHoldsNothing, NewSocketsOpen
<1>3. CASE socket[a] # "closed"
  <2>1. /\ pty' = [pty EXCEPT ![a] = "live"] /\ flushing' = [flushing EXCEPT ![a] = TRUE]
        /\ sized' = [sized EXCEPT ![a] = ~Student(a)]
    BY <1>3 DEF spawnPty, StillWanted
  <2>2. sized' \in [Attachments -> BOOLEAN]
    BY <2>1 DEF Tables, TableTypes, Student
  <2>3. TableTypes'
    BY <1>1, <2>1, <2>2 DEF Tables, TableTypes
  <2>4. ClosedHoldsNothing' /\ NewSocketsOpen'
    BY <1>1, <1>3, <2>1 DEF Tables, TableTypes, ClosedHoldsNothing, NewSocketsOpen
  <2>. QED BY <2>3, <2>4 DEF Tables
<1>. QED BY <1>2, <1>3

LEMMA AttachSteps ==
  ASSUME IInv, NEW a \in Attachments,
         \/ attach(a) \/ attachRefused(a) \/ sessionFound(a) \/ sessionMissing(a)
         \/ historySent(a) \/ attachFails(a)
  PROVE  Tables' /\ inputUnchanged
<1>1. Tables
  BY InvariantByPart
<1> USE DEF Tables, TableTypes, ClosedHoldsNothing, NewSocketsOpen, MaybeAttachment
<1>2. CASE attach(a)
  BY <1>1, <1>2, AttachAssumption DEF attach, sizeUnchanged
<1>3. CASE attachRefused(a)
  BY <1>1, <1>3 DEF attachRefused, Close, tablesUnchanged, sizeUnchanged
<1>4. CASE sessionFound(a)
  <2>1. CASE at' = [at EXCEPT ![a] = "history"] /\ UNCHANGED <<pty, flushing, sized>>
    BY <1>1, <1>4, <2>1 DEF sessionFound
  <2>2. CASE spawnPty(a)
    BY <1>1, <1>4, <2>2, SpawnTables DEF sessionFound
  <2>. QED BY <1>4, <2>1, <2>2 DEF sessionFound
<1>5. CASE sessionMissing(a)
  BY <1>1, <1>5, AttachAssumption DEF sessionMissing, forget, Close, sizeUnchanged
<1>6. CASE historySent(a)
  BY <1>1, <1>6, SpawnTables DEF historySent
<1>7. CASE attachFails(a)
  BY <1>1, <1>7 DEF attachFails, Close, tablesUnchanged, sizeUnchanged
<1>. QED BY <1>2, <1>3, <1>4, <1>5, <1>6, <1>7

LEMMA FlushSteps ==
  ASSUME IInv, NEW a \in Attachments, flushTimer(a) \/ onData(a)
  PROVE  Tables' /\ Input'
<1>1. Tables
  BY InvariantByPart
<1>2. flushPendingInput(a) /\ UNCHANGED typed
  BY DEF flushTimer, onData
<1>3. latest' \in MaybeAttachment
  BY <1>1, <1>2 DEF flushPendingInput, Tables, TableTypes, MaybeAttachment
<1>4. flushing' = [flushing EXCEPT ![a] = FALSE]
  BY <1>2 DEF flushPendingInput
<1>5. CASE flushTimer(a)
  BY <1>1, <1>2, <1>3, <1>4, <1>5, FlushInput
     DEF flushTimer, Tables, TableTypes, ClosedHoldsNothing, NewSocketsOpen
<1>6. CASE onData(a)
  BY <1>1, <1>2, <1>3, <1>4, <1>6, FlushInput
     DEF onData, Tables, TableTypes, ClosedHoldsNothing, NewSocketsOpen
<1>. QED BY <1>5, <1>6

LEMMA GoneTyped ==
  ASSUME Tables, NEW a \in Attachments, ClientGone(a)
  PROVE  sizing' \subseteq Attachments /\ latest' \in MaybeAttachment
BY DEF Tables, TableTypes, ClientGone, MaybeAttachment

LEMMA PtySteps ==
  ASSUME IInv, NEW a \in Attachments,
         \/ drained(a) \/ onExit(a) \/ tmuxAnswers(a) \/ questionFails(a)
         \/ tellExit(a) \/ onClose(a)
  PROVE  Tables' /\ inputUnchanged
<1>1. Tables
  BY InvariantByPart
<1> USE DEF Tables, TableTypes, ClosedHoldsNothing, NewSocketsOpen
<1>2. CASE drained(a)
  BY <1>1, <1>2 DEF drained, sizeUnchanged
<1>3. CASE onExit(a)
  <2>1. sizing' \subseteq Attachments /\ latest' \in MaybeAttachment
    BY <1>1, <1>3, GoneTyped DEF onExit
  <2>. QED BY <1>1, <1>3, <2>1, AttachAssumption DEF onExit, forget, MaybeAttachment
<1>4. CASE tellExit(a)
  BY <1>1, <1>4 DEF tellExit, exitUnchanged, Close, tablesUnchanged, sizeUnchanged
<1>5. CASE onClose(a)
  <2>1. sizing' \subseteq Attachments /\ latest' \in MaybeAttachment
    BY <1>1, <1>5, GoneTyped DEF onClose
  <2>. QED BY <1>1, <1>5, <2>1, AttachAssumption DEF onClose, forget, MaybeAttachment
<1>6. CASE tmuxAnswers(a) \/ questionFails(a)
  BY <1>1, <1>6 DEF tmuxAnswers, questionFails, CaughtQuestion, exitUnchanged, tablesUnchanged,
     sizeUnchanged
<1>. QED BY <1>2, <1>3, <1>4, <1>5, <1>6

LEMMA FrameSteps ==
  ASSUME IInv, NEW a \in Attachments,
         onInput(a) \/ rejectFrame(a) \/ onResizeChanged(a) \/ onResizeClaims(a)
  PROVE  Tables'
<1>1. Tables
  BY InvariantByPart
<1> USE DEF Tables, TableTypes, ClosedHoldsNothing, NewSocketsOpen, Listens, MaybeAttachment
<1>2. CASE onInput(a)
  <2>1. latest' \in MaybeAttachment
    <3>1. latest' \in {a, latest}
      BY <1>2 DEF onInput, DropsFrame
    <3>. QED BY <1>1, <3>1
  <2>2. /\ holder' \in {holder, a} /\ socket[a] # "closed"
        /\ UNCHANGED <<attached, at, socket, pty, flushing, draining, sized, claim, session, sizing, room>>
    BY <1>2 DEF onInput
  <2>. QED BY <1>1, <2>1, <2>2
<1>3. CASE rejectFrame(a)
  BY <1>1, <1>3 DEF rejectFrame, Close, tablesUnchanged, sizeUnchanged
<1>4. CASE onResizeChanged(a)
  BY <1>1, <1>4 DEF onResizeChanged
<1>5. CASE onResizeClaims(a)
  BY <1>1, <1>5 DEF onResizeClaims, tablesUnchanged
<1>. QED BY <1>2, <1>3, <1>4, <1>5

LEMMA ClaimSteps ==
  ASSUME IInv, NEW a \in Attachments, claimWindowSize(a) \/ claimMisses(a) \/ claimSettles(a)
  PROVE  Tables' /\ inputUnchanged
<1>1. Tables
  BY InvariantByPart
<1> USE DEF Tables, TableTypes, ClosedHoldsNothing, NewSocketsOpen, MaybeAttachment
<1>2. CASE claimWindowSize(a)
  BY <1>1, <1>2 DEF claimWindowSize, tablesUnchanged
<1>3. CASE claimMisses(a)
  BY <1>1, <1>3 DEF claimMisses, tablesUnchanged
<1>4. CASE claimSettles(a)
  BY <1>1, <1>4 DEF claimSettles, Takes
<1>. QED BY <1>2, <1>3, <1>4

LEMMA EndSteps ==
  ASSUME IInv, closeAll \/ sessionEnds
  PROVE  Tables' /\ inputUnchanged
<1>1. Tables
  BY InvariantByPart
<1> USE DEF Tables, TableTypes, ClosedHoldsNothing, NewSocketsOpen, MaybeAttachment
<1>2. CASE closeAll
  <2>1. \A b \in Attachments : socket'[b] = IF b \in attached /\ socket[b] = "open" THEN "closing"
                                            ELSE socket[b]
    BY <1>2 DEF closeAll
  <2>. QED BY <1>1, <1>2, <2>1, AttachAssumption DEF closeAll, sizeUnchanged
<1>3. CASE sessionEnds
  BY <1>1, <1>3 DEF sessionEnds, tablesUnchanged, sizeUnchanged
<1>. QED BY <1>2, <1>3

----------------------------------------------------------------------------
LEMMA InitInvariant == Init => IInv
<1>1. SUFFICES ASSUME Init PROVE Tables /\ Input
  BY InvariantByPart
<1>2. Tables
  BY <1>1, AttachAssumption
     DEF Init, Tables, TableTypes, ClosedHoldsNothing, NewSocketsOpen, MaybeAttachment
<1>3. Input
  <2>1. << >> \in Frames /\ Len(<< >>) = 0
    BY EmptySeq DEF Frames
  <2>2. \A a \in Attachments : pending[a] = << >> /\ written[a] = << >> /\ typed[a] = 0
    BY <1>1 DEF Init
  <2>3. InputTypes
    BY <1>1, <2>1, <2>2, AttachAssumption DEF Init, InputTypes
  <2>4. HeldFollowsWritten
    BY <2>1, <2>2 DEF HeldFollowsWritten, Increasing, UpTo, Before
  <2>. QED BY <2>3, <2>4 DEF Input
<1>. QED BY <1>2, <1>3

LEMMA StutterStep ==
  ASSUME IInv, UNCHANGED vars PROVE IInv'
<1>1. Tables /\ inputUnchanged
  BY InvariantByPart DEF vars, inputUnchanged
<1>2. Tables'
  BY <1>1 DEF vars, Tables, TableTypes, ClosedHoldsNothing, NewSocketsOpen
<1>. QED BY <1>1, <1>2, InvariantByPart, InputKept, PTL

LEMMA Invariant == Spec => []IInv
<1>1. Init => IInv
  BY InitInvariant
<1>2. ASSUME IInv, [Next]_vars PROVE IInv'
  <2>1. IInv' <=> Tables' /\ Input'
    BY InvariantByPart, PTL
  <2>2. CASE closeAll \/ sessionEnds
    BY <1>2, <2>1, <2>2, EndSteps, InputKept
  <2>3. ASSUME NEW a \in Attachments,
               \/ attach(a) \/ attachRefused(a) \/ sessionFound(a) \/ sessionMissing(a)
               \/ historySent(a) \/ attachFails(a)
        PROVE  IInv'
    BY <1>2, <2>1, <2>3, AttachSteps, InputKept
  <2>4. ASSUME NEW a \in Attachments, flushTimer(a) \/ onData(a) PROVE IInv'
    BY <1>2, <2>1, <2>4, FlushSteps
  <2>5. ASSUME NEW a \in Attachments,
               \/ drained(a) \/ onExit(a) \/ tmuxAnswers(a) \/ questionFails(a)
               \/ tellExit(a) \/ onClose(a)
        PROVE  IInv'
    BY <1>2, <2>1, <2>5, PtySteps, InputKept
  <2>6. ASSUME NEW a \in Attachments, onInput(a) PROVE IInv'
    BY <1>2, <2>1, <2>6, FrameSteps, TypedInput
  <2>7. ASSUME NEW a \in Attachments, rejectFrame(a) \/ onResizeChanged(a) \/ onResizeClaims(a)
        PROVE  IInv'
    <3>1. inputUnchanged
      BY <2>7 DEF rejectFrame, onResizeChanged, onResizeClaims
    <3>. QED BY <1>2, <2>1, <2>7, <3>1, FrameSteps, InputKept
  <2>8. ASSUME NEW a \in Attachments, claimWindowSize(a) \/ claimMisses(a) \/ claimSettles(a)
        PROVE  IInv'
    BY <1>2, <2>1, <2>8, ClaimSteps, InputKept
  <2>9. CASE UNCHANGED vars
    BY <1>2, <2>9, StutterStep
  <2>. QED BY <1>2, <2>2, <2>3, <2>4, <2>5, <2>6, <2>7, <2>8, <2>9 DEF Next
<1>. QED BY <1>1, <1>2, PTL DEF Spec

(* Every variable keeps its type, and no queue of early input passes its cap. *)
THEOREM AttachTyped == Spec => []TypeOK
<1>1. IInv => TypeOK
  BY DEF IInv
<1>. QED BY <1>1, Invariant, PTL

(* A closed socket has no slot, no claim on the window, no timer and no running
   client, whatever attach, a claim or the PTY did when it closed; but for a
   pause of output that ends when the killed client exits. *)
THEOREM ClosedLeavesNothing == Spec => []ClosedHoldsNothing
<1>1. IInv => ClosedHoldsNothing
  BY DEF IInv
<1>. QED BY <1>1, Invariant, PTL

(* The PTY gets the frames in the order they were typed, none of them twice. *)
THEOREM InputKeepsOrder == Spec => []InputInOrder
<1>1. IInv => InputInOrder
  BY DEF IInv, HeldFollowsWritten, Increasing, InputInOrder
<1>. QED BY <1>1, Invariant, PTL

=============================================================================
