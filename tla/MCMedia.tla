------------------------------- MODULE MCMedia -------------------------------
(***************************************************************************)
(* A small instance of Media: two banners and one theme image per event.   *)
(***************************************************************************)
EXTENDS Media, TLC

CONSTANTS ru, n1, n2, n3, m1, m2

MCDirectory == [c \in Columns |-> IF c \in Banners THEN {n1, n2, n3} ELSE {m1, m2}]

Submit(banner, theme, saved) ==
  [answer |-> [c \in Columns |-> IF c \in Banners THEN banner ELSE theme], saved |-> saved]

(* Upload a banner, the other language being off; upload it and the theme; *)
(* save everything as it is; clear the banners and save the theme; clear   *)
(* the theme only.                                                         *)
MCForms == {Submit("upload", "keep", {ru}), Submit("upload", "upload", {ru} \cup ThemeImages),
            Submit("keep", "keep", Columns), Submit("clear", "keep", Columns),
            Submit("keep", "clear", ThemeImages)}

Symmetry == Permutations(Workers) \cup Permutations(Events)
              \cup Permutations({n1, n2, n3}) \cup Permutations({m1, m2})
=============================================================================
