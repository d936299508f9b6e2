---------------------------- MODULE MCRateLimit -----------------------------
(***************************************************************************)
(* A small instance of RateLimit: windows of 2 and 4 seconds.              *)
(***************************************************************************)
EXTENDS RateLimit, TLC

MCLength == ("short" :> 2) @@ ("daily" :> 4)
MCLimit == ("short" :> 2) @@ ("daily" :> 2)

Symmetry == Permutations(Workers)
=============================================================================
