------------------------------ MODULE MCEvents ------------------------------
(***************************************************************************)
(* Small instances of Events.                                              *)
(***************************************************************************)
EXTENDS EventsHistory, TLC

CONSTANTS ru, en, t1, t2

Filled(status, languages, english) ==
  [status |-> status, languages |-> languages, default_language |-> ru,
   texts |-> (ru :> t1 @@ en :> english)]

(* One language, or both with either English texts; published or not.  The *)
(* last one is not valid.                                                  *)
MCForms == {Filled("draft", {ru}, t1), Filled("published", {ru, en}, t1),
            Filled("published", {ru, en}, t2), Filled("published", {}, t1)}

Symmetry == Permutations(Workers) \cup Permutations(Ids)
=============================================================================
