---------------------------- MODULE MCStatistics ----------------------------
(***************************************************************************)
(* A small instance of Statistics: pages of two answers, and up to four.   *)
(***************************************************************************)
EXTENDS Statistics, TLC

Come(guests, name, created) ==
  [status |-> Attending, guests |-> guests, name |-> name, created |-> created]
Stay(guests, name, created) ==
  [status |-> Declined, guests |-> guests, name |-> name, created |-> created]

(* A new answer may be older than one stored before it; the admin site     *)
(* keeps the guests of an answer that it changes to a refusal.             *)
MCAnswers == {Come(1, 2, 1), Stay(0, 1, 3)}
MCEdits == {Come(1, 2, 1), Stay(1, 1, 1)}
MCTables == {<<Come(0, 1, 2), Come(1, 1, 2), Stay(0, 2, 3), None>>, <<None, None, None, None>>}

Symmetry == Permutations(Visitors)
=============================================================================
