---------------------------- MODULE MCPageViews -----------------------------
(***************************************************************************)
(* A small instance of PageViews.                                          *)
(***************************************************************************)
EXTENDS PageViews, TLC

Symmetry == Permutations(Workers) \cup Permutations(Browsers) \cup Permutations(Ids)
=============================================================================
