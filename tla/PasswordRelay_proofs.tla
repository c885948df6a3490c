------------------------ MODULE PasswordRelay_proofs ------------------------
(***************************************************************************)
(* The limits of the sign-in counters, for any number of posts, addresses, *)
(* accounts, lost statements and restarts (WithinLimit), and, as long as   *)
(* nothing is lost and nothing restarts, what the counters hold when no    *)
(* post is under way (CountsAreExact).                                     *)
(*                                                                         *)
(* IInv bounds the receipts that are out by the limit and by the count; it *)
(* holds over lost statements and restarts.  XInv, which does not, says    *)
(* which posts the count of a window is made of.                           *)
(***************************************************************************)
EXTENDS PasswordRelay, FiniteSetTheorems, TLAPS

(* Post p has a receipt of counter k, from the window that began at s, and  *)
(* has not given it back.                                                  *)
Receipt(hit, s) == hit.receipt /\ hit.start = s /\ ~hit.spent

Has(p, k, s) ==
  \/ k \in Addresses /\ post[p].address = k /\ Receipt(post[p].byAddress, s)
  \/ k \in Accounts /\ post[p].account = k /\ Receipt(post[p].byAccount, s)

Out(k, s) == {p \in Posts : Has(p, k, s)}

LimitOf(k) == IF k \in Addresses THEN AddressLimit ELSE AccountLimit

(* A window has its length; the receipts that are out are of the counter's  *)
(* window or of one that has ended; no window has more out than the limit,  *)
(* nor the counter's more than it has counted.                             *)
Length(k) == row[k].ends = IF row[k].start > 0 THEN row[k].start + Window ELSE 0
Placed(k) == \A p \in Posts, s \in Nat :
               Has(p, k, s) => s > 0 /\ (s = row[k].start \/ s + Window <= now)
Limited(k) == \A s \in Nat : Cardinality(Out(k, s)) <= LimitOf(k)
Counted(k) == Cardinality(Out(k, row[k].start)) <= row[k].count

Good(k) == Length(k) /\ Placed(k) /\ Limited(k) /\ Counted(k)

(* A post that may be a wrong one has given nothing back.                  *)
Kept(p) ==
  /\ post[p].pc \notin {"giveBack", "ended"} \/ post[p].outcome = "wrong" =>
       ~post[p].byAddress.spent /\ ~post[p].byAccount.spent
  /\ post[p].pc = "giveBack" => post[p].outcome # "wrong"
  /\ post[p].pc = "unsent" => ~post[p].byAddress.receipt /\ ~post[p].byAccount.receipt

IInv ==
  /\ TypeOK
  /\ \A k \in Keys : Good(k)
  /\ \A p \in Posts : Kept(p)

-----------------------------------------------------------------------------
(* What a step may do to one counter and its receipts.                     *)

(* No post takes a receipt of k. *)
Shrinks(k) == \A p \in Posts, s \in Nat : Has(p, k, s)' => Has(p, k, s)

(* Receipts are posts. *)
LEMMA OutFinite ==
  ASSUME NEW k, NEW s
  PROVE  /\ IsFiniteSet(Out(k, s)) /\ Cardinality(Out(k, s)) \in Nat
         /\ IsFiniteSet(Out(k, s)') /\ Cardinality(Out(k, s)') \in Nat
<1>1. IsFiniteSet(Posts) /\ Out(k, s) \in SUBSET Posts /\ Out(k, s)' \in SUBSET Posts
  BY RelayAssumption DEF Out
<1>2. IsFiniteSet(Out(k, s)) /\ IsFiniteSet(Out(k, s)')
  BY <1>1, FS_Subset
<1> QED
  BY <1>2, FS_CardinalityType

(* One more element. *)
LEMMA AddOne ==
  ASSUME NEW S, IsFiniteSet(S), NEW x
  PROVE  IsFiniteSet(S \cup {x}) /\ Cardinality(S \cup {x}) <= Cardinality(S) + 1
<1>1. Cardinality(S) \in Nat BY FS_CardinalityType
<1>2. CASE x \in S
  <2>1. S \cup {x} = S BY <1>2
  <2>2. IsFiniteSet(S \cup {x}) /\ Cardinality(S \cup {x}) = Cardinality(S)
    BY <2>1, Zenon
  <2> QED BY <2>2, <1>1
<1>3. CASE x \notin S
  <2>1. IsFiniteSet(S \cup {x}) /\ Cardinality(S \cup {x}) = Cardinality(S) + 1
    BY <1>3, FS_AddElement
  <2> QED BY <2>1, <1>1
<1> QED BY <1>2, <1>3

(* Fewer receipts are not more. *)
LEMMA OutShrinks ==
  ASSUME NEW k, NEW s \in Nat, Shrinks(k)
  PROVE  Cardinality(Out(k, s)') <= Cardinality(Out(k, s))
<1>1. Out(k, s)' \in SUBSET Out(k, s)
  BY DEF Shrinks, Out
<1> QED
  BY <1>1, OutFinite, FS_Subset

(* A counter that keeps its window and its count. *)
LEMMA KeyKept ==
  ASSUME NEW k \in Keys, TypeOK, TypeOK', Good(k), Shrinks(k), now' >= now,
         row'[k].start = row[k].start, row'[k].ends = row[k].ends,
         row'[k].count = row[k].count
  PROVE  Good(k)'
<1> USE RelayAssumption
<1>1. row[k].start \in Nat /\ row[k].count \in Nat /\ now \in Nat /\ now' \in Nat
  BY DEF TypeOK, Rows
<1>2. Length(k)'
  BY DEF Good, Length
<1>3. Placed(k)'
  BY <1>1 DEF Good, Placed, Shrinks
<1>4. Limited(k)'
  <2>1. ASSUME NEW s \in Nat PROVE Cardinality(Out(k, s)') <= LimitOf(k)
    <3>1. Cardinality(Out(k, s)) <= LimitOf(k) BY DEF Good, Limited
    <3>2. LimitOf(k) \in Nat BY DEF LimitOf
    <3> QED BY <3>1, <3>2, OutShrinks, OutFinite
  <2> QED BY <2>1 DEF Limited, LimitOf
<1>5. Counted(k)'
  <2>1. PICK s \in Nat : s = row[k].start BY <1>1
  <2>2. Cardinality(Out(k, s)') <= row[k].count
    BY <1>1, <2>1, OutShrinks, OutFinite DEF Good, Counted
  <2>3. Out(k, row[k].start)' = Out(k, s)' BY <2>1 DEF Out, Has
  <2> QED BY <1>1, <2>2, <2>3 DEF Counted
<1> QED BY <1>2, <1>3, <1>4, <1>5 DEF Good

(* The hit of a post: it may take a receipt of the window it fell in, if    *)
(* the count allows.                                                       *)
LEMMA KeyHit ==
  ASSUME NEW k \in Keys, TypeOK, TypeOK', Good(k), now' = now,
         NEW p \in Posts, NEW at \in Clocks, row'[k] = Hit(row[k], at, Window),
         \A q \in Posts, s \in Nat : Has(q, k, s)' =>
            \/ Has(q, k, s)
            \/ q = p /\ s = row'[k].start /\ row'[k].count <= LimitOf(k)
  PROVE  Good(k)'
<1> USE RelayAssumption
<1> DEFINE r == row[k]
<1> DEFINE n == row'[k]
<1>1. /\ r.start \in Nat /\ r.ends \in Nat /\ r.count \in Nat /\ now \in Nat
      /\ at \in Nat /\ at > 0 /\ at <= now /\ now < at + Window
      /\ LimitOf(k) \in Nat \ {0}
  BY DEF TypeOK, Rows, Clocks, LimitOf
<1>2. CASE r.ends <= at
  <2>1. n.start = at /\ n.ends = at + Window /\ n.count = 1
    BY <1>2 DEF Hit
  <2>2. \A q \in Posts : ~Has(q, k, at)
    BY <1>1, <1>2 DEF Good, Placed, Length
  <2>3. Length(k)'
    BY <2>1, <1>1 DEF Length
  <2>4. Placed(k)'
    <3>1. SUFFICES ASSUME NEW q \in Posts, NEW s \in Nat, Has(q, k, s)'
                   PROVE  s > 0 /\ (s = n.start \/ s + Window <= now)
      BY DEF Placed
    <3>2. CASE Has(q, k, s)
      BY <3>2, <1>1, <1>2 DEF Good, Placed, Length
    <3> QED BY <3>1, <3>2, <2>1, <1>1
  <2>5. Cardinality(Out(k, at)') <= 1
    <3>1. Out(k, at)' \in SUBSET {p} BY <1>1, <2>2 DEF Out
    <3>2. IsFiniteSet({p}) /\ Cardinality({p}) = 1 BY FS_Singleton
    <3> QED BY <3>1, <3>2, FS_Subset
  <2>6. Limited(k)'
    <3>1. ASSUME NEW s \in Nat PROVE Cardinality(Out(k, s)') <= LimitOf(k)
      <4>1. CASE s = at BY <4>1, <2>5, <1>1, OutFinite
      <4>2. CASE s # at
        <5>1. Out(k, s)' \in SUBSET Out(k, s) BY <4>2, <2>1 DEF Out
        <5>2. Cardinality(Out(k, s)') <= Cardinality(Out(k, s)) BY <5>1, OutFinite, FS_Subset
        <5> QED BY <5>2, <1>1, OutFinite DEF Good, Limited
      <4> QED BY <4>1, <4>2
    <3> QED BY <3>1 DEF Limited, LimitOf
  <2>7. Counted(k)'
    <3>1. Out(k, row[k].start)' = Out(k, at)' BY <2>1 DEF Out, Has
    <3> QED BY <3>1, <2>1, <2>5 DEF Counted
  <2> QED BY <2>3, <2>4, <2>6, <2>7 DEF Good
<1>3. CASE ~(r.ends <= at)
  <2>1. n.start = r.start /\ n.ends = r.ends /\ n.count = r.count + 1
    BY <1>3, <1>1 DEF Hit, TypeOK, Rows
  <2>2. PICK s0 \in Nat : s0 = r.start BY <1>1
  <2>3. Length(k)'
    BY <2>1 DEF Good, Length
  <2>4. Placed(k)'
    BY <2>1, <1>1, <1>3 DEF Good, Placed, Length
  <2>5. Cardinality(Out(k, s0)') <= n.count /\ Cardinality(Out(k, s0)') <= LimitOf(k)
    <3>1. Cardinality(Out(k, s0)) <= r.count /\ Cardinality(Out(k, s0)) <= LimitOf(k)
      BY <2>2 DEF Good, Counted, Limited
    <3>2. CASE n.count <= LimitOf(k)
      <4>1. Out(k, s0)' \in SUBSET (Out(k, s0) \cup {p}) BY DEF Out
      <4>2. /\ IsFiniteSet(Out(k, s0) \cup {p})
            /\ Cardinality(Out(k, s0) \cup {p}) <= Cardinality(Out(k, s0)) + 1
        BY OutFinite, AddOne
      <4>3. Cardinality(Out(k, s0)') <= Cardinality(Out(k, s0) \cup {p})
        BY <4>1, <4>2, FS_Subset
      <4>4. Cardinality(Out(k, s0) \cup {p}) \in Nat BY <4>2, FS_CardinalityType
      <4> QED BY <4>2, <4>3, <4>4, <3>1, <3>2, <2>1, <1>1, OutFinite
    <3>3. CASE ~(n.count <= LimitOf(k))
      <4>1. Out(k, s0)' \in SUBSET Out(k, s0) BY <3>3 DEF Out
      <4>2. Cardinality(Out(k, s0)') <= Cardinality(Out(k, s0)) BY <4>1, OutFinite, FS_Subset
      <4> QED BY <4>2, <3>1, <2>1, <1>1, OutFinite
    <3> QED BY <3>2, <3>3
  <2>6. Limited(k)'
    <3>1. ASSUME NEW s \in Nat PROVE Cardinality(Out(k, s)') <= LimitOf(k)
      <4>1. CASE s = s0 BY <4>1, <2>5
      <4>2. CASE s # s0
        <5>1. Out(k, s)' \in SUBSET Out(k, s) BY <4>2, <2>1, <2>2 DEF Out
        <5>2. Cardinality(Out(k, s)') <= Cardinality(Out(k, s)) BY <5>1, OutFinite, FS_Subset
        <5> QED BY <5>2, <1>1, OutFinite DEF Good, Limited
      <4> QED BY <4>1, <4>2
    <3> QED BY <3>1 DEF Limited, LimitOf
  <2>7. Counted(k)'
    <3>1. Out(k, row[k].start)' = Out(k, s0)' BY <2>1, <2>2 DEF Out, Has
    <3> QED BY <3>1, <2>5 DEF Counted
  <2> QED BY <2>3, <2>4, <2>6, <2>7 DEF Good
<1> QED BY <1>2, <1>3

(* A receipt goes back: the count may go down, the receipt is gone.         *)
LEMMA KeyReturned ==
  ASSUME NEW k \in Keys, TypeOK, TypeOK', Good(k), Shrinks(k), now' = now,
         NEW p \in Posts, NEW s0 \in Nat, Has(p, k, s0), ~Has(p, k, s0)',
         row'[k] = Less(row[k], s0)
  PROVE  Good(k)'
<1> USE RelayAssumption
<1> DEFINE r == row[k]
<1> DEFINE n == row'[k]
<1>1. r.start \in Nat /\ r.count \in Nat /\ now \in Nat /\ LimitOf(k) \in Nat
  BY DEF TypeOK, Rows, LimitOf
<1>2. /\ n.start = r.start /\ n.ends = r.ends
      /\ n.count = IF r.start = s0 /\ r.count > 0 THEN r.count - 1 ELSE r.count
  BY DEF Less, TypeOK, Rows
<1>3. Length(k)'
  BY <1>2 DEF Good, Length
<1>4. Placed(k)'
  BY <1>2, <1>1 DEF Good, Placed, Shrinks
<1>5. Limited(k)'
  <2>1. ASSUME NEW s \in Nat PROVE Cardinality(Out(k, s)') <= LimitOf(k)
    <3>1. Cardinality(Out(k, s)) <= LimitOf(k) BY DEF Good, Limited
    <3> QED BY <3>1, <1>1, OutShrinks, OutFinite
  <2> QED BY <2>1 DEF Limited, LimitOf
<1>6. Counted(k)'
  <2>1. PICK s \in Nat : s = r.start BY <1>1
  <2>2. Cardinality(Out(k, s)) <= r.count BY <2>1 DEF Good, Counted
  <2>3. CASE s = s0
    <3>1. Out(k, s)' \in SUBSET (Out(k, s) \ {p}) BY <2>3 DEF Out, Shrinks
    <3>2. /\ IsFiniteSet(Out(k, s) \ {p})
          /\ Cardinality(Out(k, s) \ {p}) = Cardinality(Out(k, s)) - 1
      <4>1. p \in Out(k, s) /\ IsFiniteSet(Out(k, s)) BY <2>3, OutFinite DEF Out
      <4> QED BY <4>1, FS_RemoveElement
    <3>3. Cardinality(Out(k, s)') <= Cardinality(Out(k, s) \ {p}) BY <3>1, <3>2, FS_Subset
    <3>4. Cardinality(Out(k, s)') <= n.count
      BY <3>2, <3>3, <2>1, <2>2, <2>3, <1>1, <1>2, OutFinite
    <3>5. Out(k, row[k].start)' = Out(k, s)' BY <1>2, <2>1 DEF Out, Has
    <3> QED BY <3>4, <3>5 DEF Counted
  <2>4. CASE s # s0
    <3>1. Cardinality(Out(k, s)') <= n.count
      BY <2>1, <2>2, <2>4, <1>1, <1>2, OutShrinks, OutFinite
    <3>2. Out(k, row[k].start)' = Out(k, s)' BY <1>2, <2>1 DEF Out, Has
    <3> QED BY <3>1, <3>2 DEF Counted
  <2> QED BY <2>3, <2>4
<1> QED BY <1>3, <1>4, <1>5, <1>6 DEF Good

(* A pruned counter has no receipt of its own.                             *)
LEMMA KeyPruned ==
  ASSUME NEW k \in Keys, TypeOK, TypeOK', Good(k), Shrinks(k), now' = now,
         row'[k] = Pruned(row[k], now)
  PROVE  Good(k)'
<1> USE RelayAssumption
<1>1. row[k].start \in Nat /\ row[k].count \in Nat /\ now \in Nat /\ LimitOf(k) \in Nat
  BY DEF TypeOK, Rows, LimitOf
<1>2. CASE row[k].ends <= now
  <2>1. row'[k] = NoRow BY <1>2 DEF Pruned
  <2>2. Length(k)' BY <2>1 DEF Length, NoRow
  <2>3. Placed(k)' BY <2>1, <1>1, <1>2 DEF Good, Placed, Shrinks, Length, NoRow
  <2>4. Limited(k)'
    <3>1. ASSUME NEW s \in Nat PROVE Cardinality(Out(k, s)') <= LimitOf(k)
      <4>1. Cardinality(Out(k, s)) <= LimitOf(k) BY DEF Good, Limited
      <4> QED BY <4>1, <1>1, OutShrinks, OutFinite
    <3> QED BY <3>1 DEF Limited, LimitOf
  <2>5. Counted(k)'
    <3>1. Out(k, 0)' = {} BY DEF Out, Good, Placed, Shrinks
    <3>2. Out(k, row[k].start)' = Out(k, 0)' BY <2>1 DEF Out, Has, NoRow
    <3>3. Cardinality(Out(k, row[k].start)') = 0 BY <3>1, <3>2, FS_EmptySet
    <3>4. row'[k].count = 0 BY <2>1 DEF NoRow
    <3> QED BY <3>1, <3>2, <3>4, FS_EmptySet DEF Counted
  <2> QED BY <2>2, <2>3, <2>4, <2>5 DEF Good
<1>3. CASE ~(row[k].ends <= now)
  BY <1>1, <1>3, KeyKept DEF Pruned
<1> QED BY <1>2, <1>3

-----------------------------------------------------------------------------
(* One lemma per step.                                                     *)

(* A hit is a row.                                                         *)
LEMMA HitType ==
  ASSUME TypeOK, NEW k \in Keys, NEW at \in Clocks
  PROVE  Hit(row[k], at, Window) \in Rows
BY RelayAssumption DEF TypeOK, Rows, Hit, Clocks

(* A step that leaves the counters and takes no receipt.                   *)
LEMMA CountersKept ==
  ASSUME IInv, TypeOK', row' = row, now' \in Nat, now' >= now,
         \A k \in Keys : Shrinks(k)
  PROVE  \A k \in Keys : Good(k)'
BY KeyKept DEF IInv

(* Send: the address and the account of a post that has no receipt.         *)
LEMMA SendInv ==
  ASSUME IInv, NEW p \in Posts, Send(p)
  PROVE  IInv'
<1>1. TypeOK'
  <2>1. PICK a \in Addresses, c \in Accounts, k \in BOOLEAN :
          Goes(p, "address", [post[p] EXCEPT !.address = a, !.account = c, !.known = k])
    BY DEF Send
  <2>2. [post[p] EXCEPT !.address = a, !.account = c, !.known = k, !.pc = "address"] \in Post
    BY DEF IInv, TypeOK, Post, Steps
  <2>3. post' \in [Posts -> Post]
    BY <2>1, <2>2 DEF IInv, Goes, TypeOK
  <2> QED BY <2>3 DEF IInv, Send, TypeOK
<1>2. \A k \in Keys : Shrinks(k)
  BY DEF IInv, Send, Goes, TypeOK, Post, Shrinks, Has, Receipt, Kept
<1>3. \A k \in Keys : Good(k)'
  BY <1>1, <1>2, CountersKept DEF Send, IInv, TypeOK
<1>4. \A q \in Posts : Kept(q)'
  BY DEF IInv, Send, Goes, TypeOK, Post, Kept
<1> QED BY <1>1, <1>3, <1>4 DEF IInv

(* AddressAttempt: a hit of the address; no other counter is touched.       *)
LEMMA AddressAttemptInv ==
  ASSUME IInv, NEW p \in Posts, AddressAttempt(p)
  PROVE  IInv'
<1> DEFINE a == post[p].address
<1>1. a \in Addresses /\ a \in Keys /\ post[p] \in Post
  BY DEF IInv, TypeOK, Post, Keys
<1>2. PICK at \in Clocks :
        /\ row' = [row EXCEPT ![a] = Hit(row[a], at, Window)]
        /\ \E pc \in {"reportAddress", "dex", "account"} :
             Goes(p, pc, [post[p] EXCEPT
               !.byAddress = HitOf(Hit(row[a], at, Window), AddressLimit)])
  BY DEF AddressAttempt
<1>3. Hit(row[a], at, Window) \in Rows
  BY <1>1, HitType DEF IInv
<1>4. HitOf(Hit(row[a], at, Window), AddressLimit) \in Hits
  BY <1>3 DEF HitOf, Hits, Rows
<1>5. TypeOK'
  <2>1. row' \in [Keys -> Rows]
    BY <1>1, <1>2, <1>3 DEF IInv, TypeOK
  <2>2. PICK pc \in Steps :
          Goes(p, pc, [post[p] EXCEPT
            !.byAddress = HitOf(Hit(row[a], at, Window), AddressLimit)])
    BY <1>2 DEF Steps
  <2>3. [post[p] EXCEPT !.byAddress = HitOf(Hit(row[a], at, Window), AddressLimit), !.pc = pc] \in Post
    BY <1>1, <1>4 DEF Post
  <2>4. post' \in [Posts -> Post]
    BY <2>2, <2>3 DEF IInv, Goes, TypeOK
  <2> QED BY <2>1, <2>4 DEF IInv, AddressAttempt, TypeOK
<1>6. ASSUME NEW k \in Keys PROVE Good(k)'
  <2>1. CASE k = a
    <3>1. row'[k] = Hit(row[k], at, Window)
      BY <1>2, <2>1 DEF IInv, TypeOK
    <3>2. ASSUME NEW q \in Posts, NEW s \in Nat, Has(q, k, s)'
          PROVE  Has(q, k, s) \/ (q = p /\ s = row'[k].start /\ row'[k].count <= LimitOf(k))
      <4>1. k \in Addresses /\ LimitOf(k) = AddressLimit
        BY <1>1, <2>1, RelayAssumption DEF LimitOf
      <4>2. CASE q # p
        BY <1>2, <3>2, <4>2 DEF IInv, Goes, TypeOK, Has
      <4>3. CASE q = p
        <5>1. /\ post'[p].byAddress = HitOf(row'[k], AddressLimit)
              /\ k \notin Accounts
          BY <1>1, <1>2, <2>1, <3>1, <4>1, RelayAssumption DEF IInv, Goes, TypeOK, Post
        <5>2. Receipt(post'[p].byAddress, s)
          BY <3>2, <4>3, <5>1 DEF Has
        <5>3. s = row'[k].start /\ row'[k].count <= AddressLimit
          <6>1. HitOf(row'[k], AddressLimit).start = row'[k].start
            BY DEF HitOf
          <6>2. HitOf(row'[k], AddressLimit).receipt = (row'[k].count <= AddressLimit)
            BY Zenon DEF HitOf
          <6>3. HitOf(row'[k], AddressLimit).receipt /\ HitOf(row'[k], AddressLimit).start = s
            BY <5>1, <5>2 DEF Receipt
          <6> QED BY <6>1, <6>2, <6>3, Zenon
        <5> QED BY <4>1, <4>3, <5>3
      <4> QED BY <4>2, <4>3
    <3> QED BY <1>5, <3>1, <3>2, KeyHit DEF IInv, AddressAttempt
  <2>2. CASE k # a
    <3>1. row'[k] = row[k]
      BY <1>2, <2>2 DEF IInv, TypeOK
    <3>2. Shrinks(k)
      BY <1>1, <1>2, <2>2 DEF IInv, Goes, TypeOK, Post, Shrinks, Has, Receipt
    <3> QED BY <1>5, <3>1, <3>2, KeyKept DEF IInv, AddressAttempt, TypeOK
  <2> QED BY <2>1, <2>2
<1>7. \A q \in Posts : Kept(q)'
  BY <1>1, <1>2 DEF IInv, AddressAttempt, Goes, TypeOK, Post, Kept, HitOf
<1> QED BY <1>5, <1>6, <1>7 DEF IInv

(* AccountAttempt: a hit of the account.                                   *)
LEMMA AccountAttemptInv ==
  ASSUME IInv, NEW p \in Posts, AccountAttempt(p)
  PROVE  IInv'
<1> DEFINE c == post[p].account
<1>1. c \in Accounts /\ c \in Keys /\ post[p] \in Post
  BY DEF IInv, TypeOK, Post, Keys
<1>2. PICK at \in Clocks :
        /\ row' = [row EXCEPT ![c] = Hit(row[c], at, Window)]
        /\ \E pc \in {"reportAccount", "dex"} :
             Goes(p, pc, [post[p] EXCEPT
               !.byAccount = HitOf(Hit(row[c], at, Window), AccountLimit)])
  BY DEF AccountAttempt
<1>3. Hit(row[c], at, Window) \in Rows
  BY <1>1, HitType DEF IInv
<1>4. HitOf(Hit(row[c], at, Window), AccountLimit) \in Hits
  BY <1>3 DEF HitOf, Hits, Rows
<1>5. TypeOK'
  <2>1. row' \in [Keys -> Rows]
    BY <1>1, <1>2, <1>3 DEF IInv, TypeOK
  <2>2. PICK pc \in Steps :
          Goes(p, pc, [post[p] EXCEPT
            !.byAccount = HitOf(Hit(row[c], at, Window), AccountLimit)])
    BY <1>2 DEF Steps
  <2>3. [post[p] EXCEPT !.byAccount = HitOf(Hit(row[c], at, Window), AccountLimit), !.pc = pc] \in Post
    BY <1>1, <1>4 DEF Post
  <2>4. post' \in [Posts -> Post]
    BY <2>2, <2>3 DEF IInv, Goes, TypeOK
  <2> QED BY <2>1, <2>4 DEF IInv, AccountAttempt, TypeOK
<1>6. ASSUME NEW k \in Keys PROVE Good(k)'
  <2>1. CASE k = c
    <3>1. row'[k] = Hit(row[k], at, Window)
      BY <1>2, <2>1 DEF IInv, TypeOK
    <3>2. ASSUME NEW q \in Posts, NEW s \in Nat, Has(q, k, s)'
          PROVE  Has(q, k, s) \/ (q = p /\ s = row'[k].start /\ row'[k].count <= LimitOf(k))
      <4>1. k \in Accounts /\ LimitOf(k) = AccountLimit
        BY <1>1, <2>1, RelayAssumption DEF LimitOf
      <4>2. CASE q # p
        BY <1>2, <3>2, <4>2 DEF IInv, Goes, TypeOK, Has
      <4>3. CASE q = p
        <5>1. /\ post'[p].byAccount = HitOf(row'[k], AccountLimit)
              /\ k \notin Addresses
          BY <1>1, <1>2, <2>1, <3>1, <4>1, RelayAssumption DEF IInv, Goes, TypeOK, Post
        <5>2. Receipt(post'[p].byAccount, s)
          BY <3>2, <4>3, <5>1 DEF Has
        <5>3. s = row'[k].start /\ row'[k].count <= AccountLimit
          <6>1. HitOf(row'[k], AccountLimit).start = row'[k].start
            BY DEF HitOf
          <6>2. HitOf(row'[k], AccountLimit).receipt = (row'[k].count <= AccountLimit)
            BY Zenon DEF HitOf
          <6>3. HitOf(row'[k], AccountLimit).receipt /\ HitOf(row'[k], AccountLimit).start = s
            BY <5>1, <5>2 DEF Receipt
          <6> QED BY <6>1, <6>2, <6>3, Zenon
        <5> QED BY <4>1, <4>3, <5>3
      <4> QED BY <4>2, <4>3
    <3> QED BY <1>5, <3>1, <3>2, KeyHit DEF IInv, AccountAttempt
  <2>2. CASE k # c
    <3>1. row'[k] = row[k]
      BY <1>2, <2>2 DEF IInv, TypeOK
    <3>2. Shrinks(k)
      BY <1>1, <1>2, <2>2 DEF IInv, Goes, TypeOK, Post, Shrinks, Has, Receipt
    <3> QED BY <1>5, <3>1, <3>2, KeyKept DEF IInv, AccountAttempt, TypeOK
  <2> QED BY <2>1, <2>2
<1>7. \A q \in Posts : Kept(q)'
  BY <1>1, <1>2 DEF IInv, AccountAttempt, Goes, TypeOK, Post, Kept, HitOf
<1> QED BY <1>5, <1>6, <1>7 DEF IInv

(* A refusal is reported: neither window nor count changes, and no receipt. *)
LEMMA Reported ==
  ASSUME IInv, TypeOK', now' = now, NEW k \in Keys, NEW s \in Nat,
         row' = [row EXCEPT ![k] = Report(@, s)], \A j \in Keys : Shrinks(j)
  PROVE  \A j \in Keys : Good(j)'
<1>1. \A j \in Keys : /\ row'[j].start = row[j].start
                      /\ row'[j].ends = row[j].ends
                      /\ row'[j].count = row[j].count
  BY DEF IInv, TypeOK, Rows, Report
<1>2. now \in Nat /\ now' >= now
  BY RelayAssumption DEF IInv, TypeOK
<1> QED BY <1>1, <1>2, KeyKept DEF IInv

(* The row that a report leaves. *)
LEMMA ReportType ==
  ASSUME TypeOK, NEW k \in Keys, NEW s
  PROVE  Report(row[k], s) \in Rows
BY DEF TypeOK, Rows, Report

(* ReportAddress. *)
LEMMA ReportAddressInv ==
  ASSUME IInv, NEW p \in Posts, ReportAddress(p)
  PROVE  IInv'
<1>1. /\ post[p] \in Post /\ post[p].address \in Keys
      /\ post[p].byAddress.start \in Nat /\ now \in Nat
  BY DEF IInv, TypeOK, Post, Keys, Hits
<1>2. Report(row[post[p].address], post[p].byAddress.start) \in Rows
  BY <1>1, ReportType DEF IInv
<1>3. TypeOK'
  BY <1>1, <1>2 DEF IInv, ReportAddress, Ends, Goes, TypeOK, Post, Steps, Outcomes
<1>4. \A j \in Keys : Shrinks(j)
  BY DEF IInv, ReportAddress, Ends, Goes, TypeOK, Post, Shrinks, Has
<1>5. \A j \in Keys : Good(j)'
  BY <1>1, <1>3, <1>4, Reported DEF ReportAddress
<1>6. \A q \in Posts : Kept(q)'
  BY DEF IInv, ReportAddress, Ends, Goes, TypeOK, Post, Kept
<1> QED BY <1>3, <1>5, <1>6 DEF IInv

(* ReportAccount. *)
LEMMA ReportAccountInv ==
  ASSUME IInv, NEW p \in Posts, ReportAccount(p)
  PROVE  IInv'
<1>1. /\ post[p] \in Post /\ post[p].account \in Keys
      /\ post[p].byAccount.start \in Nat /\ now \in Nat
  BY DEF IInv, TypeOK, Post, Keys, Hits
<1>2. Report(row[post[p].account], post[p].byAccount.start) \in Rows
  BY <1>1, ReportType DEF IInv
<1>3. TypeOK'
  BY <1>1, <1>2 DEF IInv, ReportAccount, Goes, TypeOK, Post, Steps
<1>4. \A j \in Keys : Shrinks(j)
  BY DEF IInv, ReportAccount, Goes, TypeOK, Post, Shrinks, Has
<1>5. \A j \in Keys : Good(j)'
  BY <1>1, <1>3, <1>4, Reported DEF ReportAccount
<1>6. \A q \in Posts : Kept(q)'
  BY DEF IInv, ReportAccount, Goes, TypeOK, Post, Kept
<1> QED BY <1>3, <1>5, <1>6 DEF IInv

(* Dex's answer moves no count. *)
LEMMA AnswerInv ==
  ASSUME IInv, NEW p \in Posts, Wrong(p) \/ NotWrong(p)
  PROVE  IInv'
<1>0. PICK pc \in {"accountFailed", "ended", "giveBack"}, o \in {"wrong", "right", "other"} :
        /\ Goes(p, pc, [post[p] EXCEPT !.outcome = o])
        /\ post[p].pc = "dex" /\ (pc = "giveBack" <=> o # "wrong")
        /\ UNCHANGED <<now, row, lost, crashes>>
  BY DEF Wrong, NotWrong, Ends
<1>1. TypeOK'
  <2>1. post' \in [Posts -> Post]
    <3>1. [post[p] EXCEPT !.outcome = o, !.pc = pc] \in Post
      <4>1. post[p] \in Post /\ pc \in Steps /\ o \in Outcomes
        BY DEF IInv, TypeOK, Steps, Outcomes
      <4> QED BY <4>1 DEF Post
    <3> QED BY <1>0, <3>1 DEF IInv, Goes, TypeOK
  <2> QED BY <1>0, <2>1 DEF IInv, TypeOK
<1>2. \A j \in Keys : Shrinks(j)
  BY <1>0 DEF IInv, Goes, TypeOK, Post, Shrinks, Has
<1>3. \A j \in Keys : Good(j)'
  BY <1>1, <1>2, <1>0, RelayAssumption, CountersKept DEF IInv, TypeOK
<1>4. \A q \in Posts : Kept(q)'
  BY <1>0 DEF IInv, Goes, TypeOK, Post, Kept
<1> QED BY <1>1, <1>3, <1>4 DEF IInv

(* A hit that gives no receipt. *)
LEMMA HitOnly ==
  ASSUME IInv, TypeOK', now' = now, NEW k \in Keys, NEW at \in Clocks, NEW p \in Posts,
         row' = [row EXCEPT ![k] = Hit(@, at, Window)], \A j \in Keys : Shrinks(j)
  PROVE  \A j \in Keys : Good(j)'
<1>1. ASSUME NEW j \in Keys PROVE Good(j)'
  <2>1. CASE j = k
    <3>1. row'[j] = Hit(row[j], at, Window)
      BY <2>1 DEF IInv, TypeOK
    <3>2. \A q \in Posts, s \in Nat : Has(q, j, s)' => Has(q, j, s)
      BY DEF Shrinks
    <3> QED BY <3>1, <3>2, KeyHit DEF IInv
  <2>2. CASE j # k
    <3>1. row'[j] = row[j]
      BY <2>2 DEF IInv, TypeOK
    <3>2. now \in Nat /\ now' >= now
      BY RelayAssumption DEF IInv, TypeOK
    <3> QED BY <3>1, <3>2, KeyKept DEF IInv
  <2> QED BY <2>1, <2>2
<1> QED BY <1>1

(* AccountFailed. *)
LEMMA AccountFailedInv ==
  ASSUME IInv, NEW p \in Posts, AccountFailed(p)
  PROVE  IInv'
<1> DEFINE c == post[p].account
<1>1. c \in Keys /\ post[p] \in Post
  BY DEF IInv, TypeOK, Post, Keys
<1>2. PICK at \in Clocks :
        /\ row' = [row EXCEPT ![c] = Hit(row[c], at, Window)]
        /\ Goes(p, "ended", [post[p] EXCEPT !.byAccount =
             [start |-> Hit(row[c], at, Window).start, receipt |-> FALSE, spent |-> FALSE]])
  BY DEF AccountFailed
<1>3. Hit(row[c], at, Window) \in Rows
  BY <1>1, HitType DEF IInv
<1>4. [start |-> Hit(row[c], at, Window).start, receipt |-> FALSE, spent |-> FALSE] \in Hits
  BY <1>3 DEF Hits, Rows
<1>5. TypeOK'
  BY <1>1, <1>2, <1>3, <1>4 DEF IInv, AccountFailed, Goes, TypeOK, Post, Steps
<1>6. \A j \in Keys : Shrinks(j)
  BY <1>1, <1>2 DEF IInv, Goes, TypeOK, Post, Shrinks, Has, Receipt
<1>7. \A j \in Keys : Good(j)'
  BY <1>1, <1>2, <1>5, <1>6, HitOnly DEF AccountFailed
<1>8. \A q \in Posts : Kept(q)'
  BY <1>1, <1>2 DEF IInv, AccountFailed, Goes, TypeOK, Post, Kept
<1> QED BY <1>5, <1>7, <1>8 DEF IInv

(* Moves of post p that take no receipt: everything but its counts stays.   *)
Same(p) ==
  /\ post' = [post EXCEPT ![p] = post'[p]] /\ post'[p] \in Post
  /\ post'[p].address = post[p].address /\ post'[p].account = post[p].account

(* giveBack of the receipt of the address.                                 *)
LEMMA AddressReturned ==
  ASSUME IInv, TypeOK', now' = now, NEW p \in Posts, Same(p),
         row' = [row EXCEPT ![post[p].address] = Returned(@, post[p].byAddress)],
         post'[p].byAddress = Given(post[p].byAddress),
         post'[p].byAccount = post[p].byAccount
  PROVE  \A j \in Keys : Good(j)'
<1> DEFINE a == post[p].address
<1> DEFINE h == post[p].byAddress
<1>1. /\ a \in Addresses /\ a \in Keys /\ a \notin Accounts /\ h \in Hits
      /\ now \in Nat /\ now' >= now
  BY RelayAssumption DEF IInv, TypeOK, Post, Keys
<1>2. \A j \in Keys : Shrinks(j)
  <2>1. Given(h).start = h.start /\ Given(h).receipt = h.receipt
        /\ (h.spent => Given(h).spent)
    BY <1>1 DEF Given, Hits
  <2>2. \A q \in Posts : q # p => post'[q] = post[q]
    BY DEF IInv, TypeOK, Same
  <2>3. ASSUME NEW j \in Keys, NEW q \in Posts, NEW s \in Nat, Has(q, j, s)'
        PROVE  Has(q, j, s)
    <3>1. CASE q # p
      BY <2>2, <2>3, <3>1 DEF Has
    <3>2. CASE q = p
      <4>1. Receipt(post'[p].byAddress, s) => Receipt(h, s)
        BY <2>1 DEF Receipt
      <4> QED BY <2>3, <3>2, <4>1 DEF Has, Same
    <3> QED BY <3>1, <3>2
  <2> QED BY <2>3 DEF Shrinks
<1>3. ASSUME NEW j \in Keys PROVE Good(j)'
  <2>1. CASE row'[j] = row[j]
    BY <1>1, <1>2, <2>1, KeyKept DEF IInv
  <2>2. CASE row'[j] # row[j]
    <3>0. PICK s0 \in Nat : s0 = h.start
      BY <1>1 DEF Hits
    <3>1. j = a /\ h.receipt /\ ~h.spent /\ row'[j] = Less(row[j], h.start)
      BY <2>2, <1>1 DEF IInv, TypeOK, Returned
    <3>2. Has(p, j, s0)
      BY <3>1, <3>0, <1>1 DEF Has, Receipt
    <3>3. ~Has(p, j, s0)'
      <4>1. post'[p].byAddress.spent
        BY <3>1, <1>1 DEF Given, Hits
      <4> QED BY <4>1, <3>1, <1>1 DEF Has, Receipt
    <3> QED BY <1>2, <3>0, <3>1, <3>2, <3>3, KeyReturned DEF IInv
  <2> QED BY <2>1, <2>2
<1> QED BY <1>3

(* giveBack of the receipt of the account.                                 *)
LEMMA AccountReturned ==
  ASSUME IInv, TypeOK', now' = now, NEW p \in Posts, Same(p),
         row' = [row EXCEPT ![post[p].account] = Returned(@, post[p].byAccount)],
         post'[p].byAccount = Given(post[p].byAccount),
         post'[p].byAddress = post[p].byAddress
  PROVE  \A j \in Keys : Good(j)'
<1> DEFINE a == post[p].account
<1> DEFINE h == post[p].byAccount
<1>1. /\ a \in Accounts /\ a \in Keys /\ a \notin Addresses /\ h \in Hits
      /\ now \in Nat /\ now' >= now
  BY RelayAssumption DEF IInv, TypeOK, Post, Keys
<1>2. \A j \in Keys : Shrinks(j)
  <2>1. Given(h).start = h.start /\ Given(h).receipt = h.receipt
        /\ (h.spent => Given(h).spent)
    BY <1>1 DEF Given, Hits
  <2>2. \A q \in Posts : q # p => post'[q] = post[q]
    BY DEF IInv, TypeOK, Same
  <2>3. ASSUME NEW j \in Keys, NEW q \in Posts, NEW s \in Nat, Has(q, j, s)'
        PROVE  Has(q, j, s)
    <3>1. CASE q # p
      BY <2>2, <2>3, <3>1 DEF Has
    <3>2. CASE q = p
      <4>1. Receipt(post'[p].byAccount, s) => Receipt(h, s)
        BY <2>1 DEF Receipt
      <4> QED BY <2>3, <3>2, <4>1 DEF Has, Same
    <3> QED BY <3>1, <3>2
  <2> QED BY <2>3 DEF Shrinks
<1>3. ASSUME NEW j \in Keys PROVE Good(j)'
  <2>1. CASE row'[j] = row[j]
    BY <1>1, <1>2, <2>1, KeyKept DEF IInv
  <2>2. CASE row'[j] # row[j]
    <3>0. PICK s0 \in Nat : s0 = h.start
      BY <1>1 DEF Hits
    <3>1. j = a /\ h.receipt /\ ~h.spent /\ row'[j] = Less(row[j], h.start)
      BY <2>2, <1>1 DEF IInv, TypeOK, Returned
    <3>2. Has(p, j, s0)
      BY <3>1, <3>0, <1>1 DEF Has, Receipt
    <3>3. ~Has(p, j, s0)'
      <4>1. post'[p].byAccount.spent
        BY <3>1, <1>1 DEF Given, Hits
      <4> QED BY <4>1, <3>1, <1>1 DEF Has, Receipt
    <3> QED BY <1>2, <3>0, <3>1, <3>2, <3>3, KeyReturned DEF IInv
  <2> QED BY <2>1, <2>2
<1> QED BY <1>3

(* What one counter gives back keeps its type. *)
LEMMA GivenType ==
  ASSUME TypeOK, NEW k \in Keys, NEW h \in Hits
  PROVE  Given(h) \in Hits /\ Returned(row[k], h) \in Rows
<1>1. row[k] \in Rows /\ h.start \in Nat
  BY DEF TypeOK, Hits
<1>2. Less(row[k], h.start) \in Rows
  BY <1>1 DEF Rows, Less
<1>3. Given(h) \in Hits
  BY DEF Given, Hits
<1> QED BY <1>1, <1>2, <1>3 DEF Returned

(* ReturnAddress. *)
LEMMA ReturnAddressInv ==
  ASSUME IInv, NEW p \in Posts, ReturnAddress(p)
  PROVE  IInv'
<1>1. /\ post[p] \in Post /\ post[p].address \in Keys /\ post[p].byAddress \in Hits
  BY DEF IInv, TypeOK, Post, Keys
<1>2. /\ Given(post[p].byAddress) \in Hits
      /\ Returned(row[post[p].address], post[p].byAddress) \in Rows
  BY <1>1, GivenType DEF IInv
<1>3. /\ post' = [post EXCEPT ![p] = post'[p]] /\ post'[p] \in Post
      /\ post'[p] = [post[p] EXCEPT !.byAddress = Given(@), !.outcome = "refused", !.pc = "ended"]
  BY <1>1, <1>2 DEF IInv, ReturnAddress, Ends, Goes, TypeOK, Post, Steps, Outcomes
<1>4. TypeOK'
  BY <1>1, <1>2, <1>3 DEF IInv, ReturnAddress, TypeOK
<1>5. Same(p) /\ post'[p].byAddress = Given(post[p].byAddress)
      /\ post'[p].byAccount = post[p].byAccount
  BY <1>1, <1>3 DEF Same, Post
<1>6. \A j \in Keys : Good(j)'
  BY <1>4, <1>5, AddressReturned DEF ReturnAddress
<1>7. \A q \in Posts : Kept(q)'
  <2>1. post'[p].pc = "ended" /\ post'[p].outcome = "refused"
    BY <1>1, <1>3 DEF Post
  <2>2. Kept(p)' BY <2>1 DEF Kept
  <2>3. ASSUME NEW q \in Posts, q # p PROVE Kept(q)'
    <3>1. post'[q] = post[q] BY <1>3, <2>3 DEF IInv, TypeOK
    <3> QED BY <3>1 DEF IInv, Kept
  <2> QED BY <2>2, <2>3
<1> QED BY <1>4, <1>6, <1>7 DEF IInv

(* GiveBack: the address's receipt, then the account's. *)
LEMMA GiveBackInv ==
  ASSUME IInv, NEW p \in Posts, GiveBack(p)
  PROVE  IInv'
<1>1. /\ post[p] \in Post /\ post[p].address \in Keys /\ post[p].byAddress \in Hits
      /\ post[p].account \in Keys /\ post[p].byAccount \in Hits
  BY DEF IInv, TypeOK, Post, Keys
<1>2. /\ Given(post[p].byAddress) \in Hits
      /\ Returned(row[post[p].address], post[p].byAddress) \in Rows
      /\ Given(post[p].byAccount) \in Hits
      /\ Returned(row[post[p].account], post[p].byAccount) \in Rows
  BY <1>1, GivenType DEF IInv
<1>3. CASE ~post[p].byAddress.spent
  <2>1. PICK pc \in {"ended", "giveBack"} :
          Goes(p, pc, [post[p] EXCEPT !.byAddress = Given(@)])
    BY <1>3 DEF GiveBack
  <2>2. /\ post' = [post EXCEPT ![p] = post'[p]] /\ post'[p] \in Post
        /\ post'[p] = [post[p] EXCEPT !.byAddress = Given(@), !.pc = pc]
    BY <1>1, <1>2, <2>1 DEF IInv, Goes, TypeOK, Post, Steps
  <2>3. TypeOK'
    BY <1>1, <1>2, <1>3, <2>2 DEF IInv, GiveBack, TypeOK
  <2>4. Same(p) /\ post'[p].byAddress = Given(post[p].byAddress)
        /\ post'[p].byAccount = post[p].byAccount
    BY <1>1, <2>2 DEF Same, Post
  <2>5. \A j \in Keys : Good(j)'
    BY <1>3, <2>3, <2>4, AddressReturned DEF GiveBack
  <2>6. \A q \in Posts : Kept(q)'
    <3>1. /\ post'[p].pc \in {"ended", "giveBack"} /\ post'[p].outcome = post[p].outcome
          /\ post[p].outcome # "wrong"
      BY <1>1, <2>2 DEF IInv, GiveBack, Post, Kept
    <3>2. Kept(p)' BY <3>1 DEF Kept
    <3>3. ASSUME NEW q \in Posts, q # p PROVE Kept(q)'
      <4>1. post'[q] = post[q] BY <2>2, <3>3 DEF IInv, TypeOK
      <4> QED BY <4>1 DEF IInv, Kept
    <3> QED BY <3>2, <3>3
  <2> QED BY <2>3, <2>5, <2>6 DEF IInv
<1>4. CASE post[p].byAddress.spent
  <2>1. Goes(p, "ended", [post[p] EXCEPT !.byAccount = Given(@)])
    BY <1>4 DEF GiveBack
  <2>2. /\ post' = [post EXCEPT ![p] = post'[p]] /\ post'[p] \in Post
        /\ post'[p] = [post[p] EXCEPT !.byAccount = Given(@), !.pc = "ended"]
    BY <1>1, <1>2, <2>1 DEF IInv, Goes, TypeOK, Post, Steps
  <2>3. TypeOK'
    BY <1>1, <1>2, <1>4, <2>2 DEF IInv, GiveBack, TypeOK
  <2>4. Same(p) /\ post'[p].byAccount = Given(post[p].byAccount)
        /\ post'[p].byAddress = post[p].byAddress
    BY <1>1, <2>2 DEF Same, Post
  <2>5. \A j \in Keys : Good(j)'
    BY <1>4, <2>3, <2>4, AccountReturned DEF GiveBack
  <2>6. \A q \in Posts : Kept(q)'
    <3>1. /\ post'[p].pc \in {"ended", "giveBack"} /\ post'[p].outcome = post[p].outcome
          /\ post[p].outcome # "wrong"
      BY <1>1, <2>2 DEF IInv, GiveBack, Post, Kept
    <3>2. Kept(p)' BY <3>1 DEF Kept
    <3>3. ASSUME NEW q \in Posts, q # p PROVE Kept(q)'
      <4>1. post'[q] = post[q] BY <2>2, <3>3 DEF IInv, TypeOK
      <4> QED BY <4>1 DEF IInv, Kept
    <3> QED BY <3>2, <3>3
  <2> QED BY <2>3, <2>5, <2>6 DEF IInv
<1> QED BY <1>3, <1>4

(* GiveBackFails: the receipt is spent and the count stays. *)
LEMMA GiveBackFailsInv ==
  ASSUME IInv, NEW p \in Posts, GiveBackFails(p)
  PROVE  IInv'
<1>1. post[p] \in Post /\ post[p].byAddress \in Hits /\ post[p].byAccount \in Hits
  BY DEF IInv, TypeOK, Post
<1>2. /\ Given(post[p].byAddress) \in Hits /\ Given(post[p].byAccount) \in Hits
      /\ Given(post[p].byAddress).start = post[p].byAddress.start
      /\ Given(post[p].byAccount).start = post[p].byAccount.start
      /\ Given(post[p].byAddress).receipt = post[p].byAddress.receipt
      /\ Given(post[p].byAccount).receipt = post[p].byAccount.receipt
      /\ post[p].byAddress.spent => Given(post[p].byAddress).spent
      /\ post[p].byAccount.spent => Given(post[p].byAccount).spent
  BY <1>1 DEF Given, Hits
<1>3. /\ post[p].pc \in {"returnAddress", "giveBack"}
      /\ post[p].pc = "giveBack" => post[p].outcome # "wrong"
  BY DEF GiveBackFails, IInv, Kept
<1>4. PICK pc \in {"ended", "giveBack"}, o \in {"refused", post[p].outcome},
           a \in {post[p].byAddress, Given(post[p].byAddress)},
           c \in {post[p].byAccount, Given(post[p].byAccount)} :
        /\ post' = [post EXCEPT ![p] = [post[p] EXCEPT !.byAddress = a, !.byAccount = c,
                                                      !.outcome = o, !.pc = pc]]
        /\ post[p].pc = "returnAddress" => o = "refused"
  <2>1. CASE post[p].pc = "returnAddress"
    <3>1. post' = [post EXCEPT ![p] = [post[p] EXCEPT !.byAddress = Given(@),
                                         !.outcome = "refused", !.pc = "ended"]]
      BY <1>1, <2>1 DEF GiveBackFails, Ends, Goes, Post
    <3>2. [post[p] EXCEPT !.byAddress = Given(@), !.outcome = "refused", !.pc = "ended"]
            = [post[p] EXCEPT !.byAddress = Given(post[p].byAddress),
                 !.byAccount = post[p].byAccount, !.outcome = "refused", !.pc = "ended"]
      BY <1>1 DEF Post
    <3> QED BY <3>1, <3>2
  <2>2. CASE post[p].pc = "giveBack"
    <3>1. CASE ~post[p].byAddress.spent
      <4>1. PICK pc \in {"ended", "giveBack"} :
              post' = [post EXCEPT ![p] = [post[p] EXCEPT !.byAddress = Given(@), !.pc = pc]]
        BY <2>2, <3>1 DEF GiveBackFails, Goes
      <4>2. [post[p] EXCEPT !.byAddress = Given(@), !.pc = pc]
              = [post[p] EXCEPT !.byAddress = Given(post[p].byAddress),
                   !.byAccount = post[p].byAccount, !.outcome = post[p].outcome, !.pc = pc]
        BY <1>1 DEF Post
      <4> QED BY <4>1, <4>2, <2>2
    <3>2. CASE post[p].byAddress.spent
      <4>1. post' = [post EXCEPT ![p] = [post[p] EXCEPT !.byAccount = Given(@), !.pc = "ended"]]
        BY <2>2, <3>2 DEF GiveBackFails, Goes
      <4>2. [post[p] EXCEPT !.byAccount = Given(@), !.pc = "ended"]
              = [post[p] EXCEPT !.byAddress = post[p].byAddress,
                   !.byAccount = Given(post[p].byAccount), !.outcome = post[p].outcome,
                   !.pc = "ended"]
        BY <1>1 DEF Post
      <4> QED BY <4>1, <4>2, <2>2
    <3> QED BY <3>1, <3>2
  <2> QED BY <1>3, <2>1, <2>2
<1>5. TypeOK'
  <2>1. [post[p] EXCEPT !.byAddress = a, !.byAccount = c, !.outcome = o, !.pc = pc] \in Post
    BY <1>1, <1>2 DEF Post, Steps, Outcomes
  <2>2. post' \in [Posts -> Post]
    BY <1>4, <2>1 DEF IInv, TypeOK
  <2> QED BY <2>2, RelayAssumption DEF IInv, TypeOK, GiveBackFails
<1>6. \A j \in Keys : Shrinks(j)
  BY <1>1, <1>2, <1>4 DEF IInv, TypeOK, Post, Shrinks, Has, Receipt
<1>7. \A j \in Keys : Good(j)'
  BY <1>5, <1>6, CountersKept, RelayAssumption DEF GiveBackFails, IInv, TypeOK
<1>8. \A q \in Posts : Kept(q)'
  BY <1>1, <1>3, <1>4 DEF IInv, TypeOK, Post, Kept
<1> QED BY <1>5, <1>7, <1>8 DEF IInv

(* CounterUnavailable: a hit or a report takes effect or does not, and the  *)
(* post ends without a receipt.                                            *)
LEMMA CounterUnavailableInv ==
  ASSUME IInv, NEW p \in Posts, CounterUnavailable(p)
  PROVE  IInv'
<1>1. /\ post[p] \in Post /\ post[p].address \in Keys /\ post[p].account \in Keys
      /\ now \in Nat /\ now' = now
      /\ post[p].byAddress.start \in Nat /\ post[p].byAccount.start \in Nat
  BY RelayAssumption DEF IInv, TypeOK, Post, Keys, Hits, CounterUnavailable
<1>2. PICK k \in Keys, s \in Nat :
        \/ row' = row
        \/ row' = [row EXCEPT ![k] = Report(@, s)]
        \/ \E at \in Clocks : row' = [row EXCEPT ![k] = Hit(@, at, Window)]
  BY <1>1 DEF CounterUnavailable
<1>3. PICK o \in {"wrong", "busy"} :
        /\ post' = [post EXCEPT ![p] = [post[p] EXCEPT !.outcome = o, !.pc = "ended"]]
        /\ o = "wrong" => post[p].pc = "accountFailed"
  BY DEF CounterUnavailable, Ends, Goes
<1>4. post' \in [Posts -> Post]
  BY <1>1, <1>3 DEF IInv, TypeOK, Post, Steps, Outcomes
<1>5. row' \in [Keys -> Rows]
  <2>1. CASE row' = row BY <2>1 DEF IInv, TypeOK
  <2>2. CASE row' = [row EXCEPT ![k] = Report(@, s)]
    BY <2>2, ReportType DEF IInv, TypeOK
  <2>3. CASE \E at \in Clocks : row' = [row EXCEPT ![k] = Hit(@, at, Window)]
    BY <2>3, HitType DEF IInv, TypeOK
  <2> QED BY <1>2, <2>1, <2>2, <2>3
<1>6. TypeOK'
  BY <1>4, <1>5, RelayAssumption DEF IInv, TypeOK, CounterUnavailable
<1>7. \A j \in Keys : Shrinks(j)
  BY <1>1, <1>3 DEF IInv, TypeOK, Post, Shrinks, Has
<1>8. \A j \in Keys : Good(j)'
  <2>1. CASE row' = row BY <1>1, <1>6, <1>7, <2>1, CountersKept
  <2>2. CASE row' = [row EXCEPT ![k] = Report(@, s)]
    BY <1>1, <1>6, <1>7, <2>2, Reported
  <2>3. CASE \E at \in Clocks : row' = [row EXCEPT ![k] = Hit(@, at, Window)]
    BY <1>1, <1>6, <1>7, <2>3, HitOnly
  <2> QED BY <1>2, <2>1, <2>2, <2>3
<1>9. ASSUME NEW q \in Posts PROVE Kept(q)'
  <2>1. CASE q = p
    BY <1>1, <1>3, <2>1 DEF IInv, TypeOK, Post, Kept
  <2>2. CASE q # p
    <3>1. post'[q] = post[q] BY <1>3, <2>2 DEF IInv, TypeOK
    <3> QED BY <3>1 DEF IInv, Kept
  <2> QED BY <2>1, <2>2
<1> QED BY <1>6, <1>8, <1>9 DEF IInv

(* Restart: receipts and counts stay, the posts under way end. *)
LEMMA RestartInv ==
  ASSUME IInv, Restart
  PROVE  IInv'
<1>1. ASSUME NEW q \in Posts
      PROVE  /\ post[q] \in Post /\ post'[q] \in Post
             /\ post'[q].address = post[q].address /\ post'[q].account = post[q].account
             /\ post'[q].byAddress = post[q].byAddress
             /\ post'[q].byAccount = post[q].byAccount
             /\ \/ post'[q].pc = post[q].pc /\ post'[q].outcome = post[q].outcome
                \/ /\ post'[q].pc = "ended"
                   /\ post'[q].outcome = "wrong" =>
                        post[q].pc = "dex" \/ post[q].outcome = "wrong"
  <2>1. post[q] \in Post
    BY DEF IInv, TypeOK
  <2>2. CASE post[q].pc \in {"unsent", "ended"}
    BY <2>1, <2>2 DEF Restart
  <2>3. CASE post[q].pc \notin {"unsent", "ended"}
    <3>1. PICK o \in {"wrong", "died"} :
            /\ post'[q] = [post[q] EXCEPT !.pc = "ended", !.outcome = o]
            /\ o = "wrong" => post[q].pc = "dex" \/ post[q].outcome = "wrong"
      BY <2>1, <2>3 DEF Restart, Post
    <3> QED BY <2>1, <3>1 DEF Post, Steps, Outcomes
  <2> QED BY <2>2, <2>3
<1>2. TypeOK'
  <2>1. post' \in [Posts -> Post]
    BY <1>1 DEF Restart
  <2>2. crashes < MaxCrash /\ crashes' = crashes + 1 /\ UNCHANGED <<now, row, lost>>
    BY Zenon DEF Restart
  <2>3. crashes' \in 0..MaxCrash
    BY <2>2, RelayAssumption DEF IInv, TypeOK
  <2> QED BY <2>1, <2>2, <2>3 DEF IInv, TypeOK
<1>3. \A j \in Keys : Shrinks(j)
  BY <1>1 DEF Shrinks, Has
<1>4. \A j \in Keys : Good(j)'
  <2>1. row' = row /\ now' = now
    BY Zenon DEF Restart
  <2>2. now \in Nat
    BY RelayAssumption DEF IInv, TypeOK
  <2> QED BY <1>2, <1>3, <2>1, <2>2, CountersKept
<1>5. \A q \in Posts : Kept(q)'
  BY <1>1 DEF IInv, Kept
<1> QED BY <1>2, <1>4, <1>5 DEF IInv

(* Prune: an ended window has no receipt of the row that goes. *)
LEMMA PruneInv ==
  ASSUME IInv, Prune
  PROVE  IInv'
<1>1. \A k \in Keys : row'[k] = Pruned(row[k], now) /\ row'[k] \in Rows
  BY DEF IInv, TypeOK, Prune, Pruned, NoRow, Rows
<1>2. TypeOK'
  BY <1>1 DEF IInv, TypeOK, Prune
<1>3. \A j \in Keys : Shrinks(j)
  BY DEF Prune, Shrinks, Has
<1>4. ASSUME NEW k \in Keys PROVE Good(k)'
  BY <1>1, <1>2, <1>3, KeyPruned DEF IInv, Prune
<1>5. \A q \in Posts : Kept(q)'
  BY DEF IInv, Prune, Kept
<1> QED BY <1>2, <1>4, <1>5 DEF IInv

(* Tick. *)
LEMMA TickInv ==
  ASSUME IInv, Tick
  PROVE  IInv'
<1>1. TypeOK' /\ now \in Nat /\ now' \in Nat /\ now' >= now
  BY RelayAssumption DEF IInv, TypeOK, Tick
<1>2. \A j \in Keys : Shrinks(j)
  BY DEF Tick, Shrinks, Has
<1>3. \A j \in Keys : Good(j)'
  BY <1>1, <1>2, CountersKept DEF Tick
<1>4. \A q \in Posts : Kept(q)'
  BY DEF IInv, Tick, Kept
<1> QED BY <1>1, <1>3, <1>4 DEF IInv

(* A stutter. *)
LEMMA StutterInv ==
  ASSUME IInv, UNCHANGED vars
  PROVE  IInv'
<1>1. TypeOK'
  BY DEF IInv, TypeOK, vars
<1>2. \A j \in Keys : Good(j)'
  <2>1. \A j \in Keys : Shrinks(j) BY DEF vars, Shrinks, Has
  <2> QED BY <1>1, <2>1, CountersKept, RelayAssumption DEF vars, IInv, TypeOK
<1>3. \A q \in Posts : Kept(q)'
  BY DEF IInv, vars, Kept
<1> QED BY <1>1, <1>2, <1>3 DEF IInv

-----------------------------------------------------------------------------
(* Nothing is counted at first. *)
LEMMA InitInv == Init => IInv
<1> SUFFICES ASSUME Init PROVE IInv
  OBVIOUS
<1>1. /\ (CHOOSE a \in Addresses : TRUE) \in Addresses
      /\ (CHOOSE a \in Accounts : TRUE) \in Accounts
  BY RelayAssumption
<1>2. \A q \in Posts : NewPost(q) \in Post /\ ~NewPost(q).byAddress.receipt
                         /\ ~NewPost(q).byAccount.receipt
                         /\ ~NewPost(q).byAddress.spent /\ ~NewPost(q).byAccount.spent
                         /\ NewPost(q).pc = "unsent"
  BY <1>1 DEF NewPost, Post, Hits, Steps, Outcomes, NoHit
<1>3. TypeOK
  BY <1>2, RelayAssumption DEF Init, TypeOK, NoRow, Rows
<1>4. ASSUME NEW k \in Keys PROVE Good(k)
  <2>1. \A s : \A q \in Posts : ~Has(q, k, s)
    BY <1>2 DEF Init, Has, Receipt
  <2>2. \A s : Out(k, s) = {}
    BY <2>1 DEF Out
  <2>3. \A s : Cardinality(Out(k, s)) = 0
    BY <2>2, FS_EmptySet
  <2>4. LimitOf(k) >= 0
    BY RelayAssumption DEF LimitOf
  <2> QED BY <2>1, <2>3, <2>4 DEF Init, Good, Length, Placed, Limited, Counted, NoRow
<1>5. ASSUME NEW q \in Posts PROVE Kept(q)
  BY <1>2 DEF Init, Kept
<1> QED BY <1>3, <1>4, <1>5 DEF IInv

(* Every step keeps the invariant. *)
LEMMA NextInv == IInv /\ [Next]_vars => IInv'
<1> SUFFICES ASSUME IInv, [Next]_vars PROVE IInv'
  OBVIOUS
<1>1. ASSUME NEW p \in Posts, Step(p) PROVE IInv'
  BY <1>1, SendInv, AddressAttemptInv, AccountAttemptInv, ReportAddressInv,
     ReportAccountInv, ReturnAddressInv, AnswerInv, AccountFailedInv, GiveBackInv,
     CounterUnavailableInv, GiveBackFailsInv
     DEF Step
<1>2. CASE Restart \/ Prune \/ Tick
  BY <1>2, RestartInv, PruneInv, TickInv
<1>3. CASE UNCHANGED vars
  BY <1>3, StutterInv
<1> QED BY <1>1, <1>2, <1>3 DEF Next

(* The guesses of a window are posts whose receipts are out. *)
LEMMA Guesses == IInv => GuessesWithinLimit
<1> SUFFICES ASSUME IInv, NEW s \in 1..MaxNow
             PROVE  /\ \A k \in Addresses : Cardinality(AddressGuesses(k, s)) <= AddressLimit
                    /\ \A k \in Accounts : Cardinality(AccountGuesses(k, s)) <= AccountLimit
  BY DEF GuessesWithinLimit
<1>1. s \in Nat
  BY RelayAssumption
<1>2. ASSUME NEW q \in Posts, AtDexOrWrong(q)
      PROVE  ~post[q].byAddress.spent /\ ~post[q].byAccount.spent
  BY <1>2 DEF IInv, Kept, AtDexOrWrong
<1>3. ASSUME NEW k \in Addresses PROVE Cardinality(AddressGuesses(k, s)) <= AddressLimit
  <2>1. AddressGuesses(k, s) \in SUBSET Out(k, s)
    BY <1>2 DEF AddressGuesses, Out, Has, Receipt
  <2>2. Cardinality(Out(k, s)) <= AddressLimit
    BY <1>1 DEF IInv, Good, Limited, LimitOf, Keys
  <2>3. /\ IsFiniteSet(AddressGuesses(k, s))
        /\ Cardinality(AddressGuesses(k, s)) <= Cardinality(Out(k, s))
    BY <2>1, OutFinite, FS_Subset
  <2> QED BY <2>2, <2>3, OutFinite, FS_CardinalityType, RelayAssumption
<1>4. ASSUME NEW k \in Accounts PROVE Cardinality(AccountGuesses(k, s)) <= AccountLimit
  <2>1. AccountGuesses(k, s) \in SUBSET Out(k, s)
    BY <1>2 DEF AccountGuesses, Out, Has, Receipt
  <2>2. k \in Keys /\ k \notin Addresses
    BY RelayAssumption DEF Keys
  <2>3. Cardinality(Out(k, s)) <= AccountLimit
    BY <1>1, <2>2 DEF IInv, Good, Limited, LimitOf
  <2>4. /\ IsFiniteSet(AccountGuesses(k, s))
        /\ Cardinality(AccountGuesses(k, s)) <= Cardinality(Out(k, s))
    BY <2>1, OutFinite, FS_Subset
  <2> QED BY <2>3, <2>4, OutFinite, FS_CardinalityType, RelayAssumption
<1> QED BY <1>3, <1>4

(* signin-throttle: in every window no more posts are at Dex or were wrong  *)
(* than the limit of their address, nor of their account, whatever is       *)
(* given back, pruned, lost or restarted.                                  *)
THEOREM WithinLimit == Spec => []GuessesWithinLimit
<1>1. Init => IInv
  BY InitInv
<1>2. IInv /\ [Next]_vars => IInv'
  BY NextInv
<1>3. IInv => GuessesWithinLimit
  BY Guesses
<1> QED BY <1>1, <1>2, <1>3, PTL DEF Spec


-----------------------------------------------------------------------------
(* The counts are exact.

   As long as no statement was lost and the API did not stop, what a counter
   holds is the number of the posts that were counted in its window and did
   not give the count back (Exact), whatever step they are at.  A count that
   is not of the counter's window is of one that has ended (Past), so that no
   window of a counter takes up the counts of an earlier one.  What is left
   is what each step of a post knows of its two counts (Shape). *)

(* What counter k gave post q. *)
Mine(q, k) ==
  IF k \in Addresses /\ q.address = k THEN q.byAddress
  ELSE IF k \in Accounts /\ q.account = k THEN q.byAccount ELSE NoHit

(* Post p is counted by counter k in the window that began at s. *)
Counts(p, k, s) == s > 0 /\ Mine(post[p], k).start = s /\ ~Mine(post[p], k).spent

CountedBy(k, s) == {p \in Posts : Counts(p, k, s)}

Past(k) == \A p \in Posts, s \in Nat :
             Counts(p, k, s) => s = row[k].start \/ s + Window <= now

Exact(k) == row[k].start > 0 => row[k].count = Cardinality(CountedBy(k, row[k].start))

(* The hits of a post: not made, refused, with a receipt, given back. *)
Unmade(hit) == hit.start = 0 /\ ~hit.receipt /\ ~hit.spent
Refused(hit) == ~hit.receipt /\ ~hit.spent
Held(hit) == hit.receipt /\ ~hit.spent
GivenBack(hit) == hit.receipt /\ hit.spent

(* The account's hit of a post that Dex was, or is to be, asked about. *)
Asked(q, hit) == IF q.known THEN Unmade(hit) ELSE Held(hit)

Fits(q) ==
  /\ q.pc \in {"unsent", "address"} => Unmade(q.byAddress) /\ Unmade(q.byAccount)
  /\ q.pc = "reportAddress" => Refused(q.byAddress) /\ Unmade(q.byAccount)
  /\ q.pc = "account" => Held(q.byAddress) /\ Unmade(q.byAccount) /\ ~q.known
  /\ q.pc \in {"reportAccount", "returnAddress"} => Held(q.byAddress) /\ Refused(q.byAccount)
  /\ q.pc = "dex" => Held(q.byAddress) /\ Asked(q, q.byAccount)
  /\ q.pc = "accountFailed" => Held(q.byAddress) /\ Unmade(q.byAccount) /\ q.outcome = "wrong"
  /\ q.pc = "giveBack" =>
       /\ q.outcome \in {"right", "other"} /\ q.byAddress.receipt
       /\ q.byAddress.spent => ~q.known
       /\ Asked(q, q.byAccount)
  /\ q.pc = "ended" =>
       \/ q.outcome = "wrong" /\ ~q.byAddress.spent /\ ~q.byAccount.spent
       \/ q.outcome = "refused" /\ Refused(q.byAddress) /\ Unmade(q.byAccount)
       \/ q.outcome = "refused" /\ GivenBack(q.byAddress) /\ Refused(q.byAccount)
       \/ /\ q.outcome \in {"right", "other"} /\ GivenBack(q.byAddress)
          /\ Unmade(q.byAccount) \/ GivenBack(q.byAccount)

-----------------------------------------------------------------------------
(* What a step may do to the count of one counter. *)

LEMMA CountedFinite ==
  ASSUME NEW k, NEW s
  PROVE  /\ IsFiniteSet(CountedBy(k, s)) /\ Cardinality(CountedBy(k, s)) \in Nat
         /\ IsFiniteSet(CountedBy(k, s)') /\ Cardinality(CountedBy(k, s)') \in Nat
<1>1. IsFiniteSet(Posts) /\ CountedBy(k, s) \in SUBSET Posts /\ CountedBy(k, s)' \in SUBSET Posts
  BY RelayAssumption DEF CountedBy
<1>2. IsFiniteSet(CountedBy(k, s)) /\ IsFiniteSet(CountedBy(k, s)')
  BY <1>1, FS_Subset
<1> QED
  BY <1>2, FS_CardinalityType

(* A counter that keeps its window, its count and its posts. *)
LEMMA ExactStays ==
  ASSUME NEW k \in Keys, TypeOK, TypeOK', Past(k), Exact(k), now' >= now,
         row'[k].start = row[k].start, row'[k].count = row[k].count,
         \A q \in Posts, s \in Nat : Counts(q, k, s)' <=> Counts(q, k, s)
  PROVE  Past(k)' /\ Exact(k)'
<1>1. row[k].start \in Nat /\ now \in Nat /\ now' \in Nat /\ Window \in Nat
  BY RelayAssumption DEF TypeOK, Rows
<1>2. PICK s \in Nat : s = row[k].start
  BY <1>1
<1>3. CountedBy(k, s)' = CountedBy(k, s)
  BY DEF CountedBy
<1>4. CountedBy(k, row[k].start)' = CountedBy(k, s)'
  BY <1>2 DEF CountedBy, Counts
<1>5. Exact(k)'
  BY <1>2, <1>3, <1>4 DEF Exact
<1>6. Past(k)'
  BY <1>1 DEF Past
<1> QED
  BY <1>5, <1>6

(* One more post is counted. *)
LEMMA ExactHit ==
  ASSUME NEW k \in Keys, TypeOK, TypeOK', Length(k), Past(k), Exact(k), now' = now,
         NEW p \in Posts, NEW at \in Clocks, row'[k] = Hit(row[k], at, Window),
         \A s \in Nat : ~Counts(p, k, s),
         \A q \in Posts, s \in Nat :
            Counts(q, k, s)' <=> Counts(q, k, s) \/ (q = p /\ s = row'[k].start)
  PROVE  Past(k)' /\ Exact(k)'
<1> USE RelayAssumption
<1> DEFINE r == row[k]
<1> DEFINE n == row'[k]
<1>1. /\ r.start \in Nat /\ r.ends \in Nat /\ r.count \in Nat /\ now \in Nat
      /\ at \in Nat /\ at > 0 /\ at <= now /\ now < at + Window /\ n.start \in Nat
  BY DEF TypeOK, Rows, Clocks
<1>2. CASE r.ends <= at
  <2>1. n.start = at /\ n.count = 1
    BY <1>2 DEF Hit
  <2>2. \A q \in Posts : ~Counts(q, k, at)
    BY <1>1, <1>2 DEF Past, Length, Counts
  <2>3. Past(k)'
    <3>1. SUFFICES ASSUME NEW q \in Posts, NEW s \in Nat, Counts(q, k, s)'
                   PROVE  s = n.start \/ s + Window <= now
      BY DEF Past
    <3>2. CASE Counts(q, k, s)
      BY <3>2, <1>1, <1>2 DEF Past, Length, Counts
    <3> QED
      BY <3>1, <3>2
  <2>4. CountedBy(k, at)' = {p}
    BY <1>1, <2>1, <2>2 DEF CountedBy
  <2>5. Cardinality({p}) = 1
    BY FS_Singleton
  <2>6. CountedBy(k, row[k].start)' = CountedBy(k, at)'
    BY <2>1 DEF CountedBy, Counts
  <2> QED
    BY <2>1, <2>3, <2>4, <2>5, <2>6 DEF Exact
<1>3. CASE ~(r.ends <= at)
  <2>1. n.start = r.start /\ n.count = r.count + 1 /\ r.start > 0
    BY <1>3, <1>1 DEF Hit, TypeOK, Rows, Length
  <2>2. PICK s0 \in Nat : s0 = r.start
    BY <1>1
  <2>3. Past(k)'
    BY <1>1, <2>1 DEF Past
  <2>4. CountedBy(k, s0)' = CountedBy(k, s0) \cup {p} /\ p \notin CountedBy(k, s0)
    BY <2>1, <2>2 DEF CountedBy
  <2>5. Cardinality(CountedBy(k, s0) \cup {p}) = Cardinality(CountedBy(k, s0)) + 1
    BY <2>4, CountedFinite, FS_AddElement
  <2>6. CountedBy(k, row[k].start)' = CountedBy(k, s0)'
    BY <2>1, <2>2 DEF CountedBy, Counts
  <2>7. r.count = Cardinality(CountedBy(k, s0))
    BY <2>1, <2>2 DEF Exact
  <2> QED
    BY <2>1, <2>3, <2>4, <2>5, <2>6, <2>7 DEF Exact
<1> QED
  BY <1>2, <1>3

(* A post gives its count back. *)
LEMMA ExactReturned ==
  ASSUME NEW k \in Keys, TypeOK, TypeOK', Past(k), Exact(k), now' = now,
         NEW p \in Posts, NEW s0 \in Nat, Counts(p, k, s0), row'[k] = Less(row[k], s0),
         \A q \in Posts, s \in Nat : Counts(q, k, s)' <=> Counts(q, k, s) /\ q # p
  PROVE  Past(k)' /\ Exact(k)'
<1> USE RelayAssumption
<1> DEFINE r == row[k]
<1> DEFINE n == row'[k]
<1>1. r.start \in Nat /\ r.count \in Nat /\ now \in Nat
  BY DEF TypeOK, Rows
<1>2. /\ n.start = r.start
      /\ n.count = IF r.start = s0 /\ r.count > 0 THEN r.count - 1 ELSE r.count
  BY DEF Less, TypeOK, Rows
<1>3. Past(k)'
  BY <1>1, <1>2 DEF Past
<1>4. PICK s \in Nat : s = r.start
  BY <1>1
<1>5. CountedBy(k, row[k].start)' = CountedBy(k, s)'
  BY <1>2, <1>4 DEF CountedBy, Counts
<1>6. s > 0 => r.count = Cardinality(CountedBy(k, s))
  BY <1>4 DEF Exact
<1>7. CASE s = s0
  <2>1. p \in CountedBy(k, s) /\ CountedBy(k, s)' = CountedBy(k, s) \ {p} /\ s > 0
    BY <1>7 DEF CountedBy, Counts
  <2>2. /\ IsFiniteSet(CountedBy(k, s) \ {p})
        /\ Cardinality(CountedBy(k, s) \ {p}) = Cardinality(CountedBy(k, s)) - 1
    BY <2>1, CountedFinite, FS_RemoveElement
  <2>3. Cardinality(CountedBy(k, s) \ {p}) \in Nat
    BY <2>2, FS_CardinalityType
  <2>4. n.count = Cardinality(CountedBy(k, s)')
    BY <1>1, <1>2, <1>4, <1>6, <1>7, <2>1, <2>2, <2>3
  <2> QED
    BY <1>2, <1>3, <1>5, <2>4 DEF Exact
<1>8. CASE s # s0
  <2>1. CountedBy(k, s)' = CountedBy(k, s)
    BY <1>8 DEF CountedBy, Counts
  <2>2. n.count = r.count
    BY <1>2, <1>4, <1>8
  <2> QED
    BY <1>2, <1>3, <1>4, <1>5, <1>6, <2>1, <2>2 DEF Exact
<1> QED
  BY <1>7, <1>8

(* A counter is pruned when its window has ended. *)
LEMMA ExactPruned ==
  ASSUME NEW k \in Keys, TypeOK, TypeOK', Length(k), Past(k), Exact(k), now' = now,
         row'[k] = Pruned(row[k], now),
         \A q \in Posts, s \in Nat : Counts(q, k, s)' <=> Counts(q, k, s)
  PROVE  Past(k)' /\ Exact(k)'
<1> USE RelayAssumption
<1>1. row[k].start \in Nat /\ now \in Nat
  BY DEF TypeOK, Rows
<1>2. CASE row[k].ends <= now
  <2>1. row'[k].start = 0
    BY <1>2 DEF Pruned, NoRow
  <2>2. Past(k)'
    BY <1>1, <1>2, <2>1 DEF Past, Length, Counts
  <2> QED
    BY <2>1, <2>2 DEF Exact
<1>3. CASE ~(row[k].ends <= now)
  BY <1>1, <1>3, ExactStays DEF Pruned
<1> QED
  BY <1>2, <1>3

-----------------------------------------------------------------------------
(* What a step of one post may do to all the counters. *)

(* The posts other than p stay as they are. *)
Only(p) == post' = [post EXCEPT ![p] = post'[p]]

LEMMA OthersStay ==
  ASSUME TypeOK, NEW p \in Posts, Only(p), NEW q \in Posts, q # p
  PROVE  post'[q] = post[q]
BY DEF TypeOK, Only

(* A step that makes no hit and gives nothing back. *)
LEMMA CountsStay ==
  ASSUME IInv, IInv', \A k \in Keys : Past(k) /\ Exact(k), now' = now,
         \A k \in Keys : row'[k].start = row[k].start /\ row'[k].count = row[k].count,
         \A q \in Posts, k \in Keys :
            /\ Mine(post'[q], k).start = Mine(post[q], k).start
            /\ Mine(post'[q], k).spent <=> Mine(post[q], k).spent
  PROVE  \A k \in Keys : Past(k)' /\ Exact(k)'
<1>1. TypeOK /\ TypeOK' /\ now' >= now
  BY RelayAssumption DEF IInv, TypeOK
<1>2. ASSUME NEW k \in Keys
      PROVE  \A q \in Posts, s \in Nat : Counts(q, k, s)' <=> Counts(q, k, s)
  BY DEF Counts
<1> QED
  BY <1>1, <1>2, ExactStays

(* A step that makes one hit. *)
LEMMA HitCounts ==
  ASSUME IInv, IInv', \A k \in Keys : Past(k) /\ Exact(k), now' = now,
         NEW p \in Posts, Only(p), NEW a \in Keys, NEW at \in Clocks,
         row' = [row EXCEPT ![a] = Hit(row[a], at, Window)],
         Mine(post[p], a).start = 0,
         Mine(post'[p], a).start = row'[a].start, ~Mine(post'[p], a).spent,
         \A k \in Keys \ {a} : Mine(post'[p], k) = Mine(post[p], k)
  PROVE  \A k \in Keys : Past(k)' /\ Exact(k)'
<1>1. TypeOK /\ TypeOK' /\ now' >= now /\ Good(a)
  BY RelayAssumption DEF IInv, TypeOK
<1>2. ASSUME NEW k \in Keys \ {a}
      PROVE  Past(k)' /\ Exact(k)'
  <2>1. row'[k] = row[k]
    BY <1>1 DEF TypeOK
  <2>2. ASSUME NEW q \in Posts PROVE Mine(post'[q], k) = Mine(post[q], k)
    BY <1>1, <1>2, OthersStay
  <2>3. \A q \in Posts, s \in Nat : Counts(q, k, s)' <=> Counts(q, k, s)
    BY <2>2 DEF Counts
  <2> QED
    BY <1>1, <2>1, <2>3, ExactStays
<1>3. row'[a] = Hit(row[a], at, Window)
  BY <1>1 DEF TypeOK
<1>4. row'[a].start > 0
  BY <1>1, <1>3, RelayAssumption DEF Hit, TypeOK, Rows, Good, Length, Clocks
<1>5. \A s \in Nat : ~Counts(p, a, s)
  BY DEF Counts
<1>6. ASSUME NEW q \in Posts, NEW s \in Nat
      PROVE  Counts(q, a, s)' <=> Counts(q, a, s) \/ (q = p /\ s = row'[a].start)
  <2>1. CASE q = p
    BY <1>4, <1>5, <2>1 DEF Counts
  <2>2. CASE q # p
    <3>1. post'[q] = post[q]
      BY <1>1, <2>2, OthersStay
    <3> QED
      BY <2>2, <3>1 DEF Counts
  <2> QED
    BY <2>1, <2>2
<1>7. Past(a)' /\ Exact(a)'
  BY <1>1, <1>3, <1>5, <1>6, ExactHit DEF Good
<1> QED
  BY <1>2, <1>7

(* A step that gives one count back. *)
LEMMA ReturnCounts ==
  ASSUME IInv, IInv', \A k \in Keys : Past(k) /\ Exact(k), now' = now,
         NEW p \in Posts, Only(p), NEW a \in Keys, NEW s0 \in Nat, Counts(p, a, s0),
         row' = [row EXCEPT ![a] = Less(row[a], s0)],
         Mine(post'[p], a).spent,
         \A k \in Keys \ {a} : Mine(post'[p], k) = Mine(post[p], k)
  PROVE  \A k \in Keys : Past(k)' /\ Exact(k)'
<1>1. TypeOK /\ TypeOK' /\ now' >= now
  BY RelayAssumption DEF IInv, TypeOK
<1>2. ASSUME NEW k \in Keys \ {a}
      PROVE  Past(k)' /\ Exact(k)'
  <2>1. row'[k] = row[k]
    BY <1>1 DEF TypeOK
  <2>2. ASSUME NEW q \in Posts PROVE Mine(post'[q], k) = Mine(post[q], k)
    BY <1>1, <1>2, OthersStay
  <2>3. \A q \in Posts, s \in Nat : Counts(q, k, s)' <=> Counts(q, k, s)
    BY <2>2 DEF Counts
  <2> QED
    BY <1>1, <2>1, <2>3, ExactStays
<1>3. row'[a] = Less(row[a], s0)
  BY <1>1 DEF TypeOK
<1>4. ASSUME NEW q \in Posts, NEW s \in Nat
      PROVE  Counts(q, a, s)' <=> Counts(q, a, s) /\ q # p
  <2>1. CASE q = p
    BY <2>1 DEF Counts
  <2>2. CASE q # p
    <3>1. post'[q] = post[q]
      BY <1>1, <2>2, OthersStay
    <3> QED
      BY <2>2, <3>1 DEF Counts
  <2> QED
    BY <2>1, <2>2
<1>5. Past(a)' /\ Exact(a)'
  BY <1>1, <1>3, <1>4, ExactReturned
<1> QED
  BY <1>2, <1>5

(* A receipt that is held is counted. *)
LEMMA HeldCounts ==
  ASSUME IInv, NEW p \in Posts
  PROVE  /\ Held(post[p].byAddress) =>
              Counts(p, post[p].address, post[p].byAddress.start)
         /\ Held(post[p].byAccount) =>
              Counts(p, post[p].account, post[p].byAccount.start)
<1>1. /\ post[p].address \in Addresses /\ post[p].account \in Accounts
      /\ post[p].byAddress.start \in Nat /\ post[p].byAccount.start \in Nat
  BY DEF IInv, TypeOK, Post, Hits
<1>2. /\ post[p].address \in Keys /\ post[p].account \in Keys
      /\ post[p].account \notin Addresses
  BY <1>1, RelayAssumption DEF Keys
<1>3. ASSUME Held(post[p].byAddress)
      PROVE  Counts(p, post[p].address, post[p].byAddress.start)
  <2>1. Has(p, post[p].address, post[p].byAddress.start)
    BY <1>1, <1>3 DEF Held, Has, Receipt
  <2>2. post[p].byAddress.start > 0
    BY <1>1, <1>2, <2>1 DEF IInv, Good, Placed
  <2> QED
    BY <1>1, <1>2, <1>3, <2>2 DEF Counts, Mine, Held
<1>4. ASSUME Held(post[p].byAccount)
      PROVE  Counts(p, post[p].account, post[p].byAccount.start)
  <2>1. Has(p, post[p].account, post[p].byAccount.start)
    BY <1>1, <1>4 DEF Held, Has, Receipt
  <2>2. post[p].byAccount.start > 0
    BY <1>1, <1>2, <2>1 DEF IInv, Good, Placed
  <2> QED
    BY <1>1, <1>2, <1>4, <2>2 DEF Counts, Mine, Held
<1> QED
  BY <1>3, <1>4

-----------------------------------------------------------------------------
(* One lemma per step, for as long as nothing was lost. *)

AllExact == /\ \A k \in Keys : Past(k) /\ Exact(k)
            /\ \A q \in Posts : Fits(post[q])

LEMMA FitsStay ==
  ASSUME TypeOK, AllExact, NEW p \in Posts, Only(p), Fits(post'[p]),
         \A k \in Keys : Past(k)' /\ Exact(k)'
  PROVE  AllExact'
BY OthersStay DEF AllExact

(* Send writes address and account of a post that has no hit. *)
LEMMA SendExact ==
  ASSUME IInv, IInv', AllExact, NEW p \in Posts, Send(p)
  PROVE  AllExact'
<1>1. TypeOK /\ post[p] \in Post
  BY DEF IInv, TypeOK
<1>2. PICK n : /\ n.pc = "address" /\ n.byAddress = post[p].byAddress
               /\ n.byAccount = post[p].byAccount
               /\ post' = [post EXCEPT ![p] = n]
  <2>1. PICK a \in Addresses, c \in Accounts, k \in BOOLEAN :
          post' = [post EXCEPT ![p] = [post[p] EXCEPT !.address = a, !.account = c,
                                                      !.known = k, !.pc = "address"]]
    BY DEF Send, Goes
  <2> QED
    BY <1>1, <2>1 DEF Post
<1>3. post'[p] = n /\ Only(p)
  BY <1>1, <1>2 DEF TypeOK, Only
<1>4. Unmade(n.byAddress) /\ Unmade(n.byAccount)
  BY <1>2 DEF AllExact, Fits, Send
<1>5. Fits(post'[p])
  BY <1>2, <1>3, <1>4 DEF Fits
<1>6. ASSUME NEW q \in Posts, NEW k \in Keys
      PROVE  /\ Mine(post'[q], k).start = Mine(post[q], k).start
             /\ Mine(post'[q], k).spent <=> Mine(post[q], k).spent
  <2>1. CASE q = p
    <3>1. Mine(n, k).start = 0 /\ ~Mine(n, k).spent
      BY <1>4 DEF Mine, Unmade, NoHit
    <3>2. Mine(post[p], k).start = 0 /\ ~Mine(post[p], k).spent
      BY <1>2, <1>4 DEF Mine, Unmade, NoHit
    <3> QED
      BY <1>3, <2>1, <3>1, <3>2
  <2>2. CASE q # p
    BY <1>1, <1>3, <2>2, OthersStay
  <2> QED
    BY <2>1, <2>2
<1>7. \A k \in Keys : Past(k)' /\ Exact(k)'
  BY <1>6, CountsStay DEF AllExact, Send
<1> QED
  BY <1>1, <1>3, <1>5, <1>7, FitsStay

(* AddressAttempt counts the post at its address. *)
LEMMA AddressAttemptExact ==
  ASSUME IInv, IInv', AllExact, NEW p \in Posts, AddressAttempt(p)
  PROVE  AllExact'
<1>1. /\ TypeOK /\ post[p] \in Post /\ post[p].address \in Addresses
      /\ post[p].address \in Keys
  BY DEF IInv, TypeOK, Post, Keys
<1>2. PICK a \in Keys : a = post[p].address
  BY <1>1
<1>3. PICK at, pc, hit :
        /\ at \in Clocks
        /\ row' = [row EXCEPT ![a] = Hit(row[a], at, Window)]
        /\ hit = HitOf(Hit(row[a], at, Window), AddressLimit)
        /\ post' = [post EXCEPT ![p] = [post[p] EXCEPT !.byAddress = hit, !.pc = pc]]
        /\ pc = IF ~hit.receipt THEN "reportAddress"
                ELSE IF post[p].known THEN "dex" ELSE "account"
  BY <1>2 DEF AddressAttempt, Goes, Steps
<1>n. PICK n : n = [post[p] EXCEPT !.byAddress = hit, !.pc = pc]
  OBVIOUS
<1>4. /\ post'[p] = n /\ n.pc = pc /\ n.byAddress = hit
      /\ n.byAccount = post[p].byAccount /\ n.known = post[p].known
      /\ n.address = post[p].address /\ n.account = post[p].account
  <2>1. post'[p] = n
    BY <1>1, <1>3, <1>n DEF TypeOK
  <2> QED
    BY <1>1, <1>n, <2>1 DEF Post
<1>5. Only(p)
  BY <1>1, <1>3 DEF TypeOK, Only
<1>6. Unmade(post[p].byAddress) /\ Unmade(n.byAccount)
  BY <1>4 DEF AllExact, Fits, AddressAttempt
<1>7. hit.start = row'[a].start /\ ~hit.spent
  BY <1>1, <1>3 DEF TypeOK, HitOf
<1>8. Fits(n)
  <2>1. /\ n.pc = IF ~n.byAddress.receipt THEN "reportAddress"
                  ELSE IF n.known THEN "dex" ELSE "account"
        /\ ~n.byAddress.spent
    BY <1>3, <1>4, <1>7
  <2> QED
    BY <1>6, <2>1 DEF Fits, Refused, Held, Asked
<1>9. Mine(post[p], a).start = 0 /\ Mine(n, a) = hit
  BY <1>1, <1>2, <1>4, <1>6 DEF Mine, Unmade
<1>10. \A k \in Keys \ {a} : Mine(n, k) = Mine(post[p], k)
  BY <1>2, <1>4 DEF Mine
<1>11. \A k \in Keys : Past(k)' /\ Exact(k)'
  <2>1. /\ row' = [row EXCEPT ![a] = Hit(row[a], at, Window)] /\ now' = now
        /\ at \in Clocks
    BY <1>3 DEF AddressAttempt
  <2>2. /\ Mine(post'[p], a).start = row'[a].start /\ ~Mine(post'[p], a).spent
        /\ \A k \in Keys \ {a} : Mine(post'[p], k) = Mine(post[p], k)
    BY <1>4, <1>7, <1>9, <1>10
  <2>3. \A k \in Keys : Past(k) /\ Exact(k)
    BY DEF AllExact
  <2> QED
    BY ONLY IInv, IInv', <1>5, <1>9, <2>1, <2>2, <2>3, HitCounts
<1> QED
  BY <1>1, <1>4, <1>5, <1>8, <1>11, FitsStay

(* A hit of the account: of AccountAttempt and of accountFailed. *)
LEMMA AccountHitExact ==
  ASSUME IInv, IInv', AllExact, NEW p \in Posts, Only(p), now' = now,
         NEW at \in Clocks,
         row' = [row EXCEPT ![post[p].account] = Hit(row[post[p].account], at, Window)],
         Unmade(post[p].byAccount), NEW n, post'[p] = n, Fits(n),
         n.address = post[p].address, n.account = post[p].account,
         n.byAddress = post[p].byAddress,
         n.byAccount.start = row'[post[p].account].start, ~n.byAccount.spent
  PROVE  AllExact'
<1>1. /\ TypeOK /\ post[p].account \in Accounts /\ post[p].account \in Keys
      /\ post[p].account \notin Addresses /\ post[p].address \in Addresses
  BY RelayAssumption DEF IInv, TypeOK, Post, Keys
<1>2. PICK c \in Keys : c = post[p].account
  BY <1>1
<1>3. Mine(post[p], c).start = 0 /\ Mine(n, c) = n.byAccount
  BY <1>1, <1>2 DEF Mine, Unmade
<1>4. \A k \in Keys \ {c} : Mine(n, k) = Mine(post[p], k)
  BY <1>2 DEF Mine
<1>5. \A k \in Keys : Past(k)' /\ Exact(k)'
  <2>1. row' = [row EXCEPT ![c] = Hit(row[c], at, Window)]
    BY <1>2
  <2>2. /\ Mine(post'[p], c).start = row'[c].start /\ ~Mine(post'[p], c).spent
        /\ \A k \in Keys \ {c} : Mine(post'[p], k) = Mine(post[p], k)
    BY <1>2, <1>3, <1>4
  <2>3. \A k \in Keys : Past(k) /\ Exact(k)
    BY DEF AllExact
  <2>4. now' = now
    OBVIOUS
  <2> QED
    BY ONLY IInv, IInv', Only(p), <1>3, <2>1, <2>2, <2>3, <2>4, HitCounts
<1> QED
  BY <1>1, <1>5, FitsStay

(* AccountAttempt counts the post at its account. *)
LEMMA AccountAttemptExact ==
  ASSUME IInv, IInv', AllExact, NEW p \in Posts, AccountAttempt(p)
  PROVE  AllExact'
<1>1. /\ TypeOK /\ post[p] \in Post /\ post[p].account \in Keys
  BY DEF IInv, TypeOK, Post, Keys
<1>2. PICK at, pc, hit :
        /\ at \in Clocks
        /\ row' = [row EXCEPT ![post[p].account] = Hit(row[post[p].account], at, Window)]
        /\ hit = HitOf(Hit(row[post[p].account], at, Window), AccountLimit)
        /\ post' = [post EXCEPT ![p] = [post[p] EXCEPT !.byAccount = hit, !.pc = pc]]
        /\ pc = IF hit.receipt THEN "dex" ELSE "reportAccount"
  BY DEF AccountAttempt, Goes, Steps
<1>n. PICK n : n = [post[p] EXCEPT !.byAccount = hit, !.pc = pc]
  OBVIOUS
<1>3. /\ post'[p] = n /\ n.pc = pc /\ n.byAccount = hit
      /\ n.byAddress = post[p].byAddress /\ n.known = post[p].known
      /\ n.address = post[p].address /\ n.account = post[p].account
  <2>1. post'[p] = n
    BY <1>1, <1>2, <1>n DEF TypeOK
  <2> QED
    BY <1>1, <1>n, <2>1 DEF Post
<1>4. Only(p)
  BY <1>1, <1>2 DEF TypeOK, Only
<1>5. Held(post[p].byAddress) /\ Unmade(post[p].byAccount) /\ ~post[p].known
  BY DEF AllExact, Fits, AccountAttempt
<1>6. hit.start = row'[post[p].account].start /\ ~hit.spent
  BY <1>1, <1>2 DEF TypeOK, HitOf
<1>7. Fits(n)
  <2>1. /\ n.pc = IF n.byAccount.receipt THEN "dex" ELSE "reportAccount"
        /\ ~n.byAccount.spent /\ ~n.known /\ Held(n.byAddress)
    BY <1>2, <1>3, <1>5, <1>6
  <2> QED
    BY <2>1 DEF Fits, Refused, Held, Asked
<1>8. now' = now
  BY DEF AccountAttempt
<1> QED
  BY <1>2, <1>3, <1>4, <1>5, <1>6, <1>7, <1>8, AccountHitExact

(* accountFailed counts a wrong password of a known browser. *)
LEMMA AccountFailedExact ==
  ASSUME IInv, IInv', AllExact, NEW p \in Posts, AccountFailed(p)
  PROVE  AllExact'
<1>1. /\ TypeOK /\ post[p] \in Post /\ post[p].account \in Keys
  BY DEF IInv, TypeOK, Post, Keys
<1>2. PICK at, hit :
        /\ at \in Clocks
        /\ row' = [row EXCEPT ![post[p].account] = Hit(row[post[p].account], at, Window)]
        /\ hit = [start |-> Hit(row[post[p].account], at, Window).start,
                  receipt |-> FALSE, spent |-> FALSE]
        /\ post' = [post EXCEPT ![p] = [post[p] EXCEPT !.byAccount = hit, !.pc = "ended"]]
  BY DEF AccountFailed, Goes
<1>n. PICK n : n = [post[p] EXCEPT !.byAccount = hit, !.pc = "ended"]
  OBVIOUS
<1>3. /\ post'[p] = n /\ n.pc = "ended" /\ n.byAccount = hit
      /\ n.byAddress = post[p].byAddress /\ n.outcome = post[p].outcome
      /\ n.address = post[p].address /\ n.account = post[p].account
  <2>1. post'[p] = n
    BY <1>1, <1>2, <1>n DEF TypeOK
  <2> QED
    BY <1>1, <1>n, <2>1 DEF Post
<1>4. Only(p)
  BY <1>1, <1>2 DEF TypeOK, Only
<1>5. Held(post[p].byAddress) /\ Unmade(post[p].byAccount) /\ post[p].outcome = "wrong"
  BY DEF AllExact, Fits, AccountFailed
<1>6. hit.start = row'[post[p].account].start /\ ~hit.spent
  BY <1>1, <1>2 DEF TypeOK
<1>7. Fits(n)
  BY <1>3, <1>5, <1>6 DEF Fits, Held
<1>8. now' = now
  BY DEF AccountFailed
<1> QED
  BY <1>2, <1>3, <1>4, <1>5, <1>6, <1>7, <1>8, AccountHitExact

(* Steps that change no count: the reports and Dex's answer. *)
LEMMA UncountedExact ==
  ASSUME IInv, IInv', AllExact, NEW p \in Posts, Only(p), now' = now,
         \A k \in Keys : row'[k].start = row[k].start /\ row'[k].count = row[k].count,
         NEW n, post'[p] = n, Fits(n),
         n.address = post[p].address, n.account = post[p].account,
         n.byAddress = post[p].byAddress, n.byAccount = post[p].byAccount
  PROVE  AllExact'
<1>1. TypeOK
  BY DEF IInv
<1>2. \A k \in Keys : Mine(post'[p], k) = Mine(post[p], k)
  BY DEF Mine
<1>3. \A q \in Posts, k \in Keys : Mine(post'[q], k) = Mine(post[q], k)
  BY <1>1, <1>2, OthersStay
<1>4. \A k \in Keys : Past(k)' /\ Exact(k)'
  BY <1>3, CountsStay DEF AllExact
<1> QED
  BY <1>1, <1>4, FitsStay

LEMMA ReportExact ==
  ASSUME IInv, IInv', AllExact, NEW p \in Posts, ReportAddress(p) \/ ReportAccount(p)
  PROVE  AllExact'
<1>1. TypeOK /\ post[p] \in Post
  BY DEF IInv, TypeOK
<1>2. \A k \in Keys : row'[k].start = row[k].start /\ row'[k].count = row[k].count
  <2>1. PICK c, s : c \in Keys /\ row' = [row EXCEPT ![c] = Report(@, s)]
    BY <1>1 DEF ReportAddress, ReportAccount, Post, Keys
  <2> QED
    BY <1>1, <2>1 DEF TypeOK, Rows, Report
<1>3. PICK o \in {"refused", post[p].outcome}, pc \in {"ended", "returnAddress"} :
        /\ post' = [post EXCEPT ![p] = [post[p] EXCEPT !.outcome = o, !.pc = pc]]
        /\ \/ post[p].pc = "reportAddress" /\ pc = "ended" /\ o = "refused"
           \/ post[p].pc = "reportAccount" /\ pc = "returnAddress"
  <2>1. CASE ReportAddress(p)
    BY <2>1 DEF ReportAddress, Ends, Goes
  <2>2. CASE ReportAccount(p)
    <3>1. [post[p] EXCEPT !.pc = "returnAddress"]
            = [post[p] EXCEPT !.outcome = post[p].outcome, !.pc = "returnAddress"]
      BY <1>1 DEF Post
    <3> QED
      BY <2>2, <3>1 DEF ReportAccount, Goes
  <2> QED
    BY <2>1, <2>2
<1>n. PICK n : n = [post[p] EXCEPT !.outcome = o, !.pc = pc]
  OBVIOUS
<1>4. /\ post'[p] = n /\ n.pc = pc /\ n.outcome = o /\ n.known = post[p].known
      /\ n.byAddress = post[p].byAddress /\ n.byAccount = post[p].byAccount
      /\ n.address = post[p].address /\ n.account = post[p].account
  <2>1. post'[p] = n
    BY <1>1, <1>3, <1>n DEF TypeOK
  <2> QED
    BY <1>1, <1>n, <2>1 DEF Post
<1>5. Only(p)
  BY <1>1, <1>3 DEF TypeOK, Only
<1>6. Fits(n)
  BY <1>3, <1>4 DEF AllExact, Fits
<1>7. now' = now
  BY DEF ReportAddress, ReportAccount
<1> QED
  BY <1>2, <1>4, <1>5, <1>6, <1>7, UncountedExact

(* Dex's answer: a wrong password keeps its counts, any other gives back. *)
LEMMA AnswerExact ==
  ASSUME IInv, IInv', AllExact, NEW p \in Posts, Wrong(p) \/ NotWrong(p)
  PROVE  AllExact'
<1>1. TypeOK /\ post[p] \in Post
  BY DEF IInv, TypeOK
<1>2. PICK o \in {"wrong", "right", "other"}, pc \in {"ended", "accountFailed", "giveBack"} :
        /\ post' = [post EXCEPT ![p] = [post[p] EXCEPT !.outcome = o, !.pc = pc]]
        /\ o = "wrong" => pc = IF post[p].known THEN "accountFailed" ELSE "ended"
        /\ o # "wrong" => pc = "giveBack"
  <2>1. CASE Wrong(p)
    BY <2>1 DEF Wrong, Ends, Goes
  <2>2. CASE NotWrong(p)
    BY <2>2 DEF NotWrong, Goes
  <2> QED
    BY <2>1, <2>2
<1>n. PICK n : n = [post[p] EXCEPT !.outcome = o, !.pc = pc]
  OBVIOUS
<1>3. /\ post'[p] = n /\ n.pc = pc /\ n.outcome = o /\ n.known = post[p].known
      /\ n.byAddress = post[p].byAddress /\ n.byAccount = post[p].byAccount
      /\ n.address = post[p].address /\ n.account = post[p].account
  <2>1. post'[p] = n
    BY <1>1, <1>2, <1>n DEF TypeOK
  <2> QED
    BY <1>1, <1>n, <2>1 DEF Post
<1>4. Only(p)
  BY <1>1, <1>2 DEF TypeOK, Only
<1>5. Held(n.byAddress) /\ Asked(n, n.byAccount)
  BY <1>3 DEF AllExact, Fits, Asked, Wrong, NotWrong
<1>6. Fits(n)
  BY <1>2, <1>3, <1>5 DEF Fits, Asked, Held, Unmade
<1>7. now' = now /\ row' = row
  BY DEF Wrong, NotWrong
<1> QED
  BY <1>3, <1>4, <1>6, <1>7, UncountedExact

(* A held receipt of the address, or of the account, goes back. *)
LEMMA AddressBackExact ==
  ASSUME IInv, IInv', AllExact, NEW p \in Posts, Only(p), now' = now,
         row' = [row EXCEPT ![post[p].address] = Returned(@, post[p].byAddress)],
         Held(post[p].byAddress), NEW n, post'[p] = n, Fits(n),
         n.address = post[p].address, n.account = post[p].account,
         n.byAccount = post[p].byAccount, n.byAddress.spent
  PROVE  AllExact'
<1>1. /\ TypeOK /\ post[p].address \in Addresses /\ post[p].address \in Keys
      /\ post[p].byAddress.start \in Nat
  BY DEF IInv, TypeOK, Post, Keys, Hits
<1>2. PICK a \in Keys, s0 \in Nat : a = post[p].address /\ s0 = post[p].byAddress.start
  BY <1>1
<1>3. Counts(p, a, s0)
  BY <1>2, HeldCounts
<1>4. row' = [row EXCEPT ![a] = Less(row[a], s0)] /\ now' = now
  BY <1>2 DEF Returned, Held
<1>5. /\ Mine(post'[p], a).spent
      /\ \A k \in Keys \ {a} : Mine(post'[p], k) = Mine(post[p], k)
  BY <1>1, <1>2 DEF Mine
<1>6. \A k \in Keys : Past(k) /\ Exact(k)
  BY DEF AllExact
<1>7. \A k \in Keys : Past(k)' /\ Exact(k)'
  BY ONLY IInv, IInv', Only(p), <1>3, <1>4, <1>5, <1>6, ReturnCounts
<1> QED
  BY <1>1, <1>7, FitsStay

LEMMA AccountBackExact ==
  ASSUME IInv, IInv', AllExact, NEW p \in Posts, Only(p), now' = now,
         row' = [row EXCEPT ![post[p].account] = Returned(@, post[p].byAccount)],
         Held(post[p].byAccount), NEW n, post'[p] = n, Fits(n),
         n.address = post[p].address, n.account = post[p].account,
         n.byAddress = post[p].byAddress, n.byAccount.spent
  PROVE  AllExact'
<1>1. /\ TypeOK /\ post[p].account \in Accounts /\ post[p].account \in Keys
      /\ post[p].account \notin Addresses /\ post[p].byAccount.start \in Nat
  BY RelayAssumption DEF IInv, TypeOK, Post, Keys, Hits
<1>2. PICK c \in Keys, s0 \in Nat : c = post[p].account /\ s0 = post[p].byAccount.start
  BY <1>1
<1>3. Counts(p, c, s0)
  BY <1>2, HeldCounts
<1>4. row' = [row EXCEPT ![c] = Less(row[c], s0)] /\ now' = now
  BY <1>2 DEF Returned, Held
<1>5. /\ Mine(post'[p], c).spent
      /\ \A k \in Keys \ {c} : Mine(post'[p], k) = Mine(post[p], k)
  BY <1>1, <1>2 DEF Mine
<1>6. \A k \in Keys : Past(k) /\ Exact(k)
  BY DEF AllExact
<1>7. \A k \in Keys : Past(k)' /\ Exact(k)'
  BY ONLY IInv, IInv', Only(p), <1>3, <1>4, <1>5, <1>6, ReturnCounts
<1> QED
  BY <1>1, <1>7, FitsStay

(* counted gives the address back when the account refused. *)
LEMMA ReturnAddressExact ==
  ASSUME IInv, IInv', AllExact, NEW p \in Posts, ReturnAddress(p)
  PROVE  AllExact'
<1>1. TypeOK /\ post[p] \in Post /\ post[p].byAddress \in Hits
  BY DEF IInv, TypeOK, Post
<1>2. /\ post' = [post EXCEPT ![p] = [post[p] EXCEPT !.byAddress = Given(post[p].byAddress),
                                                    !.outcome = "refused", !.pc = "ended"]]
      /\ row' = [row EXCEPT ![post[p].address] = Returned(@, post[p].byAddress)]
      /\ now' = now
  BY <1>1 DEF ReturnAddress, Ends, Goes, Post
<1>n. PICK n : n = [post[p] EXCEPT !.byAddress = Given(post[p].byAddress),
                                   !.outcome = "refused", !.pc = "ended"]
  OBVIOUS
<1>3. /\ post'[p] = n /\ n.pc = "ended" /\ n.outcome = "refused"
      /\ n.byAddress = Given(post[p].byAddress) /\ n.byAccount = post[p].byAccount
      /\ n.address = post[p].address /\ n.account = post[p].account
  <2>1. post'[p] = n
    BY <1>1, <1>2, <1>n DEF TypeOK
  <2> QED
    BY <1>1, <1>n, <2>1 DEF Post
<1>4. Only(p)
  BY <1>1, <1>2 DEF TypeOK, Only
<1>5. Held(post[p].byAddress) /\ Refused(post[p].byAccount)
  BY DEF AllExact, Fits, ReturnAddress
<1>6. GivenBack(n.byAddress)
  BY <1>1, <1>3, <1>5 DEF Given, GivenBack, Held, Hits
<1>7. Fits(n)
  BY <1>3, <1>5, <1>6 DEF Fits
<1>8. n.byAddress.spent
  BY <1>6 DEF GivenBack
<1> QED
  BY <1>2, <1>3, <1>4, <1>5, <1>7, <1>8, AddressBackExact

(* forward gives back the address, then the account. *)
LEMMA GiveBackExact ==
  ASSUME IInv, IInv', AllExact, NEW p \in Posts, GiveBack(p)
  PROVE  AllExact'
<1>1. /\ TypeOK /\ post[p] \in Post
      /\ post[p].byAddress \in Hits /\ post[p].byAccount \in Hits
  BY DEF IInv, TypeOK, Post
<1>2. /\ post[p].pc = "giveBack" /\ post[p].outcome \in {"right", "other"}
      /\ post[p].byAddress.receipt /\ Asked(post[p], post[p].byAccount)
      /\ post[p].byAddress.spent => ~post[p].known
  BY DEF AllExact, Fits, GiveBack
<1>t. now' = now
  BY DEF GiveBack
<1>3. CASE ~post[p].byAddress.spent
  <2>1. PICK pc : /\ pc = IF post[p].known THEN "ended" ELSE "giveBack"
                  /\ post' = [post EXCEPT ![p] = [post[p] EXCEPT
                                !.byAddress = Given(post[p].byAddress), !.pc = pc]]
                  /\ row' = [row EXCEPT ![post[p].address] = Returned(@, post[p].byAddress)]
    BY <1>1, <1>3 DEF GiveBack, Goes, Post
  <2>n. PICK n : n = [post[p] EXCEPT !.byAddress = Given(post[p].byAddress), !.pc = pc]
    OBVIOUS
  <2>2. /\ post'[p] = n /\ n.pc = pc /\ n.outcome = post[p].outcome
        /\ n.known = post[p].known
        /\ n.byAddress = Given(post[p].byAddress) /\ n.byAccount = post[p].byAccount
        /\ n.address = post[p].address /\ n.account = post[p].account
    <3>1. post'[p] = n
      BY <1>1, <2>1, <2>n DEF TypeOK
    <3> QED
      BY <1>1, <2>n, <3>1 DEF Post
  <2>3. Only(p)
    BY <1>1, <2>1 DEF TypeOK, Only
  <2>4. Held(post[p].byAddress)
    BY <1>2, <1>3 DEF Held
  <2>5. GivenBack(n.byAddress)
    BY <1>1, <2>2, <2>4 DEF Given, GivenBack, Held, Hits
  <2>6. n.byAddress.spent
    BY <2>5 DEF GivenBack
  <2>7. Fits(n)
    <3>1. CASE post[p].known
      BY <1>2, <2>1, <2>2, <2>5, <3>1 DEF Fits, Asked
    <3>2. CASE ~post[p].known
      BY <1>2, <2>1, <2>2, <2>5, <3>2 DEF Fits, Asked, GivenBack
    <3> QED
      BY <3>1, <3>2
  <2> QED
    BY <1>t, <2>1, <2>2, <2>3, <2>4, <2>6, <2>7, AddressBackExact
<1>4. CASE post[p].byAddress.spent
  <2>1. /\ post' = [post EXCEPT ![p] = [post[p] EXCEPT
                      !.byAccount = Given(post[p].byAccount), !.pc = "ended"]]
        /\ row' = [row EXCEPT ![post[p].account] = Returned(@, post[p].byAccount)]
    BY <1>1, <1>4 DEF GiveBack, Goes, Post
  <2>n. PICK n : n = [post[p] EXCEPT !.byAccount = Given(post[p].byAccount), !.pc = "ended"]
    OBVIOUS
  <2>2. /\ post'[p] = n /\ n.pc = "ended" /\ n.outcome = post[p].outcome
        /\ n.byAccount = Given(post[p].byAccount) /\ n.byAddress = post[p].byAddress
        /\ n.address = post[p].address /\ n.account = post[p].account
    <3>1. post'[p] = n
      BY <1>1, <2>1, <2>n DEF TypeOK
    <3> QED
      BY <1>1, <2>n, <3>1 DEF Post
  <2>3. Only(p)
    BY <1>1, <2>1 DEF TypeOK, Only
  <2>4. Held(post[p].byAccount)
    BY <1>2, <1>4 DEF Asked
  <2>5. GivenBack(n.byAccount)
    BY <1>1, <2>2, <2>4 DEF Given, GivenBack, Held, Hits
  <2>6. n.byAccount.spent
    BY <2>5 DEF GivenBack
  <2>7. Fits(n)
    BY <1>2, <1>4, <2>2, <2>5 DEF Fits, GivenBack
  <2> QED
    BY <1>t, <2>1, <2>2, <2>3, <2>4, <2>6, <2>7, AccountBackExact
<1> QED
  BY <1>3, <1>4

(* The prune, the clock, and a stutter. *)
LEMMA ClockExact ==
  ASSUME IInv, IInv', AllExact, Prune \/ Tick \/ UNCHANGED vars
  PROVE  AllExact'
<1>1. post' = post /\ TypeOK /\ TypeOK'
  BY DEF Prune, Tick, vars, IInv
<1>2. \A k \in Keys, q \in Posts, s \in Nat : Counts(q, k, s)' <=> Counts(q, k, s)
  BY <1>1 DEF Counts
<1>3. ASSUME NEW k \in Keys
      PROVE  Past(k)' /\ Exact(k)'
  <2>1. CASE Prune
    <3>1. row'[k] = Pruned(row[k], now) /\ now' = now
      BY <2>1 DEF Prune
    <3> QED
      BY <1>1, <1>2, <3>1, ExactPruned DEF IInv, Good, AllExact
  <2>2. CASE Tick \/ UNCHANGED vars
    <3>1. row' = row /\ now' >= now
      BY <2>2, <1>1, RelayAssumption DEF Tick, vars, TypeOK
    <3> QED
      BY <1>1, <1>2, <3>1, ExactStays DEF AllExact
  <2> QED
    BY <2>1, <2>2
<1>4. \A q \in Posts : Fits(post'[q])
  BY <1>1 DEF AllExact
<1> QED
  BY <1>3, <1>4 DEF AllExact

-----------------------------------------------------------------------------
(* A lost statement and a restart end the claim; no other step does. *)
XInv == lost = 0 /\ crashes = 0 => AllExact

LEMMA InitExact == Init => XInv
<1> SUFFICES ASSUME Init PROVE AllExact
  BY DEF XInv
<1>1. \A q \in Posts : /\ post[q].pc = "unsent" /\ post[q].byAddress = NoHit
                       /\ post[q].byAccount = NoHit
  BY DEF Init, NewPost
<1>2. \A q \in Posts : Fits(post[q])
  BY <1>1 DEF Fits, Unmade, NoHit
<1>3. \A k \in Keys : Past(k) /\ Exact(k)
  BY <1>1 DEF Init, NoRow, NoHit, Past, Exact, Counts, Mine
<1> QED
  BY <1>2, <1>3 DEF AllExact

LEMMA NextExact == IInv /\ IInv' /\ XInv /\ [Next]_vars => XInv'
<1> SUFFICES ASSUME IInv, IInv', XInv, [Next]_vars, lost' = 0, crashes' = 0
             PROVE  AllExact'
  BY DEF XInv
<1>1. lost \in Nat /\ crashes \in Nat
  BY RelayAssumption DEF IInv, TypeOK
<1>2. ASSUME NEW p \in Posts, CounterUnavailable(p) \/ GiveBackFails(p) PROVE FALSE
  BY <1>1, <1>2 DEF CounterUnavailable, GiveBackFails
<1>3. ~Restart
  <2>1. Restart => crashes' = crashes + 1
    BY DEF Restart
  <2> QED
    BY <1>1, <2>1
<1>4. ASSUME NEW p \in Posts, Step(p) PROVE AllExact'
  <2>1. lost' = lost /\ crashes' = crashes
    BY <1>2, <1>4 DEF Step, Send, AddressAttempt, AccountAttempt, ReportAddress, ReportAccount,
       ReturnAddress, Wrong, NotWrong, AccountFailed, GiveBack
  <2>2. AllExact
    BY <2>1 DEF XInv
  <2> QED
    BY <1>2, <1>4, <2>2, SendExact, AddressAttemptExact, AccountAttemptExact, ReportExact,
       ReturnAddressExact, AnswerExact, AccountFailedExact, GiveBackExact DEF Step
<1>5. CASE Prune \/ Tick \/ UNCHANGED vars
  <2>1. lost' = lost /\ crashes' = crashes
    BY <1>5 DEF Prune, Tick, vars
  <2> QED
    BY <1>5, <2>1, ClockExact DEF XInv
<1> QED
  BY <1>3, <1>4, <1>5 DEF Next

(* When no post is under way, the posts that count are the wrong and the
   refused ones. *)
LEMMA CountsAtRest == IInv /\ XInv => CountsExactly
<1> SUFFICES ASSUME IInv, AllExact, AtRest, NEW k \in Keys, row[k].start > 0
             PROVE  row[k].count = Cardinality(WrongOrRefusedAt(k))
  BY DEF CountsExactly, XInv
<1>1. row[k].start \in Nat
  BY DEF IInv, TypeOK, Rows
<1>2. ASSUME NEW q \in Posts
      PROVE  Counts(q, k, row[k].start) <=> q \in WrongOrRefusedAt(k)
  <2>1. /\ post[q].address \in Addresses /\ post[q].account \in Accounts
        /\ Addresses \cap Accounts = {}
    BY RelayAssumption DEF IInv, TypeOK, Post
  <2>2. /\ Fits(post[q])
        /\ post[q].pc = "unsent" \/ post[q].pc = "ended"
    BY DEF AllExact, AtRest
  <2>3. CASE k = post[q].address
    <3>1. Counts(q, k, row[k].start)
            <=> post[q].byAddress.start = row[k].start /\ ~post[q].byAddress.spent
      BY <1>1, <2>1, <2>3 DEF Counts, Mine
    <3>2. q \in WrongOrRefusedAt(k)
            <=> /\ post[q].byAddress.start = row[k].start
                /\ \/ post[q].outcome = "wrong"
                   \/ post[q].outcome = "refused" /\ ~post[q].byAddress.receipt
      BY <2>1, <2>3 DEF WrongOrRefusedAt
    <3>3. post[q].byAddress.start = row[k].start => post[q].pc = "ended"
      BY <1>1, <2>2 DEF Fits, Unmade
    <3> QED
      BY <2>2, <3>1, <3>2, <3>3 DEF Fits, Refused, GivenBack
  <2>4. CASE k = post[q].account
    <3>1. Counts(q, k, row[k].start)
            <=> post[q].byAccount.start = row[k].start /\ ~post[q].byAccount.spent
      BY <1>1, <2>1, <2>4 DEF Counts, Mine
    <3>2. q \in WrongOrRefusedAt(k)
            <=> /\ post[q].byAccount.start = row[k].start
                /\ \/ post[q].outcome = "wrong"
                   \/ post[q].outcome = "refused" /\ ~post[q].byAccount.receipt
      BY <2>1, <2>4 DEF WrongOrRefusedAt
    <3>3. post[q].byAccount.start = row[k].start
            => post[q].pc = "ended" /\ ~Unmade(post[q].byAccount)
      BY <1>1, <2>2 DEF Fits, Unmade
    <3> QED
      BY <2>2, <3>1, <3>2, <3>3 DEF Fits, Refused, GivenBack
  <2>5. CASE k # post[q].address /\ k # post[q].account
    BY <1>1, <2>5 DEF Counts, Mine, NoHit, WrongOrRefusedAt
  <2> QED
    BY <2>3, <2>4, <2>5
<1>3. CountedBy(k, row[k].start) = WrongOrRefusedAt(k)
  BY <1>2 DEF CountedBy, WrongOrRefusedAt
<1> QED
  BY <1>3 DEF AllExact, Exact

(* giveBack: a counter at rest holds one for every wrong and every refused
   post of its window and none for any other, however many posts overlapped,
   windows ended and rows were pruned on the way. *)
THEOREM CountsAreExact == Spec => []CountsExactly
<1>1. Init => IInv /\ XInv
  BY InitInv, InitExact
<1>2. IInv /\ XInv /\ [Next]_vars => (IInv /\ XInv)'
  BY NextInv, NextExact
<1>3. IInv /\ XInv => CountsExactly
  BY CountsAtRest
<1> QED
  BY <1>1, <1>2, <1>3, PTL DEF Spec

=============================================================================
