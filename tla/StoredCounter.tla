---------------------------- MODULE StoredCounter ----------------------------
(***************************************************************************)
(* The statements of the API's stored counters (apps/api, stored-counter):  *)
(* fixed-window counts of sign-in guesses kept in the table                 *)
(* signin_counters, one row for each scope and key.  Every statement is one *)
(* atomic change of the row; what a caller does between two statements is   *)
(* in PasswordRelay.                                                        *)
(*                                                                         *)
(* Time is a natural number and the first moment is 1, so that a row that   *)
(* is not there can be told by its start, 0: no receipt carries it, and a   *)
(* hit treats it as a window that has ended, which is what the INSERT of    *)
(* the upsert does.                                                        *)
(***************************************************************************)
EXTENDS Naturals

Rows == [start : Nat, ends : Nat, count : Nat, reported : BOOLEAN]

NoRow == [start |-> 0, ends |-> 0, count |-> 0, reported |-> FALSE]

(* hit: the upsert.  `at` is the clock the process read before it sent the  *)
(* statement; an ended window restarts, all four columns together.         *)
Hit(row, at, window) ==
  IF row.ends <= at
  THEN [start |-> at, ends |-> at + window, count |-> 1, reported |-> FALSE]
  ELSE [row EXCEPT !.count = @ + 1]

(* firstRefusal: whether this caller is the one that reports the window.    *)
FirstRefusal(row, start) == row.start = start /\ ~row.reported

Report(row, start) ==
  IF FirstRefusal(row, start) THEN [row EXCEPT !.reported = TRUE] ELSE row

(* giveBack's update: only in the window of the receipt, and never below 0. *)
Less(row, start) ==
  IF row.start = start /\ row.count > 0 THEN [row EXCEPT !.count = @ - 1] ELSE row

(* pruneEndedCounters for one row.                                         *)
Pruned(row, now) == IF row.ends <= now THEN NoRow ELSE row

=============================================================================
