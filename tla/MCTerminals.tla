----------------------------- MODULE MCTerminals -----------------------------
(* Terminals for TLC: three creates at once on a workspace that stays up, with
   a number given; two over stops and starts; two with calls that fail; two
   with a worker or an instance that goes away and calls that time out; two in
   and out of the folder of a project that is deleted; one with two crashes;
   one whose project is deleted, with any of these. *)
EXTENDS Terminals, TLC

CONSTANTS p1, custom

Nowhere == [project |-> NoProject, cwd |-> NoProject]
Inside == [project |-> p1, cwd |-> p1]
Outside == [project |-> p1, cwd |-> NoProject]

MCWorlds ==
    {[asks |-> 3, boots |-> 1, faults |-> 0, crashes |-> 0, lost |-> FALSE,
      places |-> {Nowhere}, names |-> {1}, deletes |-> {}],
     [asks |-> 2, boots |-> 2, faults |-> 0, crashes |-> 0, lost |-> FALSE,
      places |-> {Inside}, names |-> {custom}, deletes |-> {}],
     [asks |-> 2, boots |-> 1, faults |-> 1, crashes |-> 0, lost |-> FALSE,
      places |-> {Inside}, names |-> {custom}, deletes |-> {}],
     [asks |-> 2, boots |-> 2, faults |-> 0, crashes |-> 1, lost |-> TRUE,
      places |-> {Nowhere}, names |-> {}, deletes |-> {}],
     [asks |-> 2, boots |-> 1, faults |-> 0, crashes |-> 0, lost |-> FALSE,
      places |-> {Inside, Outside, Nowhere}, names |-> {}, deletes |-> {p1}],
     [asks |-> 1, boots |-> 2, faults |-> 0, crashes |-> 2, lost |-> FALSE,
      places |-> {Nowhere}, names |-> {}, deletes |-> {}],
     [asks |-> 1, boots |-> 2, faults |-> 1, crashes |-> 1, lost |-> TRUE,
      places |-> {Inside}, names |-> {}, deletes |-> {p1}]}

Symmetry == Permutations(Terminals)
=============================================================================
