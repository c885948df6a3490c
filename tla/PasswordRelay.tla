---------------------------- MODULE PasswordRelay ----------------------------
(***************************************************************************)
(* The relay of Dex's password posts (apps/api, dex-password-relay and      *)
(* signin-throttle) over the stored counters.  A post is counted against    *)
(* its address and, unless its browser is known for the account, against    *)
(* its account, before Dex sees it; Dex's answer decides whether the counts *)
(* stay or are given back.                                                 *)
(*                                                                         *)
(* A post is a process: one step for each statement it sends to PostgreSQL, *)
(* one for Dex's answer.  The clock a statement carries was read before the *)
(* statement ran, by at most Lag; counters are pruned at any time; a        *)
(* statement may fail with or without its effect (MaxLost times) and the    *)
(* API may die and restart (MaxCrash times), which ends every post under    *)
(* way and forgets its receipts.                                           *)
(***************************************************************************)
EXTENDS StoredCounter, FiniteSets

CONSTANTS
  Posts,         \* the password posts, each sent once
  Addresses,     \* address keys
  Accounts,      \* account keys
  AddressLimit,  \* PASSWORD_ATTEMPT_LIMIT_PER_10_MINUTES
  AccountLimit,  \* ACCOUNT_FAILURE_LIMIT
  Window,        \* TEN_MINUTES_MS, in ticks
  Lag,           \* how old the clock of a statement can be, in ticks
  MaxNow, MaxLost, MaxCrash

(* A statement waits less than a window for its connection and its lock.   *)
ASSUME RelayAssumption ==
  /\ AddressLimit \in Nat \ {0} /\ AccountLimit \in Nat \ {0}
  /\ Window \in Nat \ {0} /\ Lag \in Nat /\ Lag < Window
  /\ MaxNow \in Nat \ {0} /\ MaxLost \in Nat /\ MaxCrash \in Nat
  /\ Addresses \cap Accounts = {} /\ Addresses # {} /\ Accounts # {}
  /\ IsFiniteSet(Posts)

VARIABLES
  now,      \* the clock
  row,      \* signin_counters: scope "password" by address, "password-account" by account
  post,     \* the posts
  lost,     \* statements that failed
  crashes

vars == <<now, row, post, lost, crashes>>

Keys == Addresses \cup Accounts

(* What one counter gave a post: the window its hit fell in, whether there  *)
(* is a receipt, and whether the receipt was given back.                   *)
NoHit == [start |-> 0, receipt |-> FALSE, spent |-> FALSE]
Hits == [start : Nat, receipt : BOOLEAN, spent : BOOLEAN]

Steps == {"unsent", "address", "reportAddress", "account", "reportAccount",
          "returnAddress", "dex", "giveBack", "accountFailed", "ended"}
Outcomes == {"none", "refused", "busy", "wrong", "right", "other", "died"}
Post == [pc : Steps, address : Addresses, account : Accounts, known : BOOLEAN,
         byAddress : Hits, byAccount : Hits, outcome : Outcomes]

NewPost(p) == [pc |-> "unsent", address |-> CHOOSE a \in Addresses : TRUE,
               account |-> CHOOSE a \in Accounts : TRUE, known |-> FALSE,
               byAddress |-> NoHit, byAccount |-> NoHit,
               outcome |-> "none"]

TypeOK ==
  /\ now \in 1..MaxNow
  /\ row \in [Keys -> Rows]
  /\ lost \in 0..MaxLost /\ crashes \in 0..MaxCrash
  /\ post \in [Posts -> Post]

Init ==
  /\ now = 1
  /\ row = [k \in Keys |-> NoRow]
  /\ post = [p \in Posts |-> NewPost(p)]
  /\ lost = 0 /\ crashes = 0

-----------------------------------------------------------------------------
(* Helpers.                                                                *)

(* The clocks a statement that runs now may carry.                         *)
Clocks == {at \in 1..now : now - at <= Lag}

(* The post goes on to step pc, with the other fields of `with`.           *)
Goes(p, pc, with) == post' = [post EXCEPT ![p] = [with EXCEPT !.pc = pc]]

Ends(p, outcome, with) == Goes(p, "ended", [with EXCEPT !.outcome = outcome])

(* Faulty variant: the count from before the hit is held against the limit. *)
HitOfEarlier(r, limit) == [start |-> r.start, receipt |-> r.count - 1 <= limit, spent |-> FALSE]

(* The hit of an attempt: a receipt only within the limit.                 *)
HitOf(r, limit) == [start |-> r.start, receipt |-> r.count <= limit, spent |-> FALSE]

(* giveBack of one receipt: once, whatever becomes of the statement.       *)
Given(hit) == IF hit.receipt THEN [hit EXCEPT !.spent = TRUE] ELSE hit
Returned(r, hit) == IF hit.receipt /\ ~hit.spent THEN Less(r, hit.start) ELSE r

-----------------------------------------------------------------------------
(* The steps of a post.                                                    *)

(* relay and the start of forward: the account's stamp is read and the      *)
(* browser's cookie tells whether it is known.  A malformed login is        *)
(* refused before anything is counted and is not sent here.                *)
Send(p) ==
  /\ post[p].pc = "unsent"
  /\ \E a \in Addresses, c \in Accounts, k \in BOOLEAN :
       Goes(p, "address", [post[p] EXCEPT !.address = a, !.account = c, !.known = k])
  /\ UNCHANGED <<now, row, lost, crashes>>

(* counted: throttle.passwordAttempt.                                      *)
AddressAttempt(p) ==
  /\ post[p].pc = "address"
  /\ \E at \in Clocks :
       LET r == Hit(row[post[p].address], at, Window)
           hit == HitOf(r, AddressLimit)
           next == IF ~hit.receipt THEN "reportAddress"
                   ELSE IF post[p].known THEN "dex" ELSE "account"
       IN /\ row' = [row EXCEPT ![post[p].address] = r]
          /\ Goes(p, next, [post[p] EXCEPT !.byAddress = hit])
  /\ UNCHANGED <<now, lost, crashes>>

(* counted: throttle.accountAttempt.                                       *)
AccountAttempt(p) ==
  /\ post[p].pc = "account"
  /\ \E at \in Clocks :
       LET r == Hit(row[post[p].account], at, Window)
           hit == HitOf(r, AccountLimit)
       IN /\ row' = [row EXCEPT ![post[p].account] = r]
          /\ Goes(p, IF hit.receipt THEN "dex" ELSE "reportAccount",
                  [post[p] EXCEPT !.byAccount = hit])
  /\ UNCHANGED <<now, lost, crashes>>

(* firstRefusal after a refused address; the first one of the window writes  *)
(* the audit row, and the post is refused.                                 *)
ReportAddress(p) ==
  /\ post[p].pc = "reportAddress"
  /\ row' = [row EXCEPT ![post[p].address] = Report(@, post[p].byAddress.start)]
  /\ Ends(p, "refused", post[p])
  /\ UNCHANGED <<now, lost, crashes>>

(* firstRefusal after a refused account; the address's count goes back      *)
(* before the audit row is written.                                        *)
ReportAccount(p) ==
  /\ post[p].pc = "reportAccount"
  /\ row' = [row EXCEPT ![post[p].account] = Report(@, post[p].byAccount.start)]
  /\ Goes(p, "returnAddress", post[p])
  /\ UNCHANGED <<now, lost, crashes>>

(* Faulty variant: the address keeps the count of a post that the account   *)
(* refused.                                                                *)
KeepsAddress(p) ==
  /\ post[p].pc = "returnAddress"
  /\ Ends(p, "refused", post[p])
  /\ UNCHANGED <<now, row, lost, crashes>>

(* counted: the give-back of the address when the account refused.         *)
ReturnAddress(p) ==
  /\ post[p].pc = "returnAddress"
  /\ row' = [row EXCEPT ![post[p].address] = Returned(@, post[p].byAddress)]
  /\ Ends(p, "refused", [post[p] EXCEPT !.byAddress = Given(@)])
  /\ UNCHANGED <<now, lost, crashes>>

(* sendToDex answers.  A wrong password keeps its counts; a known browser,  *)
(* which skipped the account's count, now counts there.  Any other answer,  *)
(* and no answer, gives the counts back.                                   *)
Wrong(p) ==
  /\ post[p].pc = "dex"
  /\ IF post[p].known
     THEN Goes(p, "accountFailed", [post[p] EXCEPT !.outcome = "wrong"])
     ELSE Ends(p, "wrong", post[p])
  /\ UNCHANGED <<now, row, lost, crashes>>

NotWrong(p) ==
  /\ post[p].pc = "dex"
  /\ \E o \in {"right", "other"} : Goes(p, "giveBack", [post[p] EXCEPT !.outcome = o])
  /\ UNCHANGED <<now, row, lost, crashes>>

(* throttle.accountFailed: add, a hit whose count is not asked.            *)
AccountFailed(p) ==
  /\ post[p].pc = "accountFailed"
  /\ \E at \in Clocks :
       LET r == Hit(row[post[p].account], at, Window)
       IN /\ row' = [row EXCEPT ![post[p].account] = r]
          /\ Goes(p, "ended", [post[p] EXCEPT
               !.byAccount = [start |-> r.start, receipt |-> FALSE, spent |-> FALSE]])
  /\ UNCHANGED <<now, lost, crashes>>

(* giveBack of forward: the receipts in turn, the address's first.         *)
GiveBack(p) ==
  /\ post[p].pc = "giveBack"
  /\ IF ~post[p].byAddress.spent
     THEN /\ row' = [row EXCEPT ![post[p].address] = Returned(@, post[p].byAddress)]
          /\ Goes(p, IF post[p].known THEN "ended" ELSE "giveBack",
                  [post[p] EXCEPT !.byAddress = Given(@)])
     ELSE /\ row' = [row EXCEPT ![post[p].account] = Returned(@, post[p].byAccount)]
          /\ Goes(p, "ended", [post[p] EXCEPT !.byAccount = Given(@)])
  /\ UNCHANGED <<now, lost, crashes>>

-----------------------------------------------------------------------------
(* Faults.                                                                 *)

(* A statement of an attempt or of accountFailed fails, with its effect or  *)
(* without: CounterUnavailable, answered 503.  What was counted before      *)
(* stays counted.                                                          *)
CounterUnavailable(p) ==
  /\ lost < MaxLost /\ lost' = lost + 1
  /\ \/ /\ post[p].pc = "address"
        /\ \E at \in Clocks :
             row' \in {row, [row EXCEPT ![post[p].address] = Hit(@, at, Window)]}
     \/ /\ post[p].pc \in {"account", "accountFailed"}
        /\ \E at \in Clocks :
             row' \in {row, [row EXCEPT ![post[p].account] = Hit(@, at, Window)]}
     \/ /\ post[p].pc = "reportAddress"
        /\ row' \in {row, [row EXCEPT ![post[p].address] = Report(@, post[p].byAddress.start)]}
     \/ /\ post[p].pc = "reportAccount"
        /\ row' \in {row, [row EXCEPT ![post[p].account] = Report(@, post[p].byAccount.start)]}
  /\ Ends(p, IF post[p].pc = "accountFailed" THEN "wrong" ELSE "busy", post[p])
  /\ UNCHANGED <<now, crashes>>

(* A give-back fails: it is logged, the receipt is spent, and the count     *)
(* may stay.                                                               *)
GiveBackFails(p) ==
  /\ lost < MaxLost /\ lost' = lost + 1
  /\ \/ /\ post[p].pc = "returnAddress"
        /\ Ends(p, "refused", [post[p] EXCEPT !.byAddress = Given(@)])
     \/ /\ post[p].pc = "giveBack" /\ ~post[p].byAddress.spent
        /\ Goes(p, IF post[p].known THEN "ended" ELSE "giveBack",
                [post[p] EXCEPT !.byAddress = Given(@)])
     \/ /\ post[p].pc = "giveBack" /\ post[p].byAddress.spent
        /\ Goes(p, "ended", [post[p] EXCEPT !.byAccount = Given(@)])
  /\ UNCHANGED <<now, row, crashes>>

(* The API stops and starts: the counts stay, the receipts are gone.  A     *)
(* post that was at Dex may have been a wrong one.                         *)
Restart ==
  /\ crashes < MaxCrash /\ crashes' = crashes + 1
  /\ post' = [p \in Posts |->
       IF post[p].pc \in {"unsent", "ended"} THEN post[p]
       ELSE [post[p] EXCEPT !.pc = "ended",
                            !.outcome = IF @ = "wrong" \/ post[p].pc = "dex"
                                        THEN "wrong" ELSE "died"]]
  /\ UNCHANGED <<now, row, lost>>

(* registerCounterPrune's timer.                                           *)
Prune ==
  /\ row' = [k \in Keys |-> Pruned(row[k], now)]
  /\ row' # row
  /\ UNCHANGED <<now, post, lost, crashes>>

Tick ==
  /\ now < MaxNow /\ now' = now + 1
  /\ UNCHANGED <<row, post, lost, crashes>>

Step(p) ==
  \/ Send(p) \/ AddressAttempt(p) \/ AccountAttempt(p)
  \/ ReportAddress(p) \/ ReportAccount(p) \/ ReturnAddress(p)
  \/ Wrong(p) \/ NotWrong(p) \/ AccountFailed(p) \/ GiveBack(p)
  \/ CounterUnavailable(p) \/ GiveBackFails(p)

Next == (\E p \in Posts : Step(p)) \/ Restart \/ Prune \/ Tick

Spec == Init /\ [][Next]_vars

-----------------------------------------------------------------------------
(* Properties.                                                             *)

AtDexOrWrong(p) == post[p].pc = "dex" \/ post[p].outcome = "wrong"

(* The posts that a window of a counter let through to Dex and that may yet *)
(* be, or were, wrong passwords.                                           *)
AddressGuesses(k, start) ==
  {p \in Posts : post[p].address = k /\ post[p].byAddress.receipt
                   /\ post[p].byAddress.start = start /\ AtDexOrWrong(p)}

AccountGuesses(k, start) ==
  {p \in Posts : post[p].account = k /\ post[p].byAccount.receipt
                   /\ post[p].byAccount.start = start /\ AtDexOrWrong(p)}

(* "Count one password post ... before it reaches Dex, so parallel posts    *)
(* cannot slip past the limit" (signin-throttle): in every window, however  *)
(* the posts overlap, however late a statement runs, whatever is given      *)
(* back, pruned or lost, and over a restart, no more posts are at Dex or    *)
(* were wrong than the limit of their address, nor of their account.       *)
GuessesWithinLimit ==
  \A start \in 1..MaxNow :
    /\ \A k \in Addresses : Cardinality(AddressGuesses(k, start)) <= AddressLimit
    /\ \A k \in Accounts : Cardinality(AccountGuesses(k, start)) <= AccountLimit

(* The wrong and the refused posts of the window a counter is in.          *)
WrongOrRefusedAt(k) ==
  {p \in Posts :
     \/ /\ post[p].address = k /\ post[p].byAddress.start = row[k].start
        /\ post[p].outcome = "wrong" \/ (post[p].outcome = "refused" /\ ~post[p].byAddress.receipt)
     \/ /\ post[p].account = k /\ post[p].byAccount.start = row[k].start
        /\ post[p].outcome = "wrong" \/ (post[p].outcome = "refused" /\ ~post[p].byAccount.receipt)}

AtRest == \A p \in Posts : post[p].pc \in {"unsent", "ended"}

(* The counts are exact: when no post is under way and no statement was     *)
(* lost, a counter holds one for every wrong and every refused post of its  *)
(* window, and none for a post that was right, that Dex could not judge, or *)
(* that the other counter refused ("Return a counted try", giveBack).      *)
CountsExactly ==
  AtRest /\ lost = 0 /\ crashes = 0
    => \A k \in Keys :
         row[k].start > 0 => row[k].count = Cardinality(WrongOrRefusedAt(k))

(* "Give back a post that was not a wrong password, so a shared address or  *)
(* an account is not locked out by right ones" (signin-throttle, giveBack): *)
(* when no post is under way and none was ever wrong, no counter is at its  *)
(* limit.  The code counts a refused post and gives it no receipt, so right *)
(* posts that arrive together leave their refusals in the count.           *)
RightOnesDoNotLock ==
  AtRest /\ (\A p \in Posts : post[p].outcome # "wrong")
    => /\ \A k \in Addresses : row[k].count < AddressLimit
       /\ \A k \in Accounts : row[k].count < AccountLimit

=============================================================================
