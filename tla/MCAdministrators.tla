-------------------------- MODULE MCAdministrators --------------------------
(***************************************************************************)
(* Small instances of Administrators.                                      *)
(***************************************************************************)
EXTENDS AdministratorsHistory, TLC

CONSTANTS e1, e2

Fill(e, superuser, active) ==
  [email |-> e, is_superuser |-> superuser, is_active |-> active]

(* Promote, under either address; demote; disable.                         *)
RaceForms == {Fill(e1, TRUE, TRUE), Fill(e2, TRUE, TRUE), Fill(e2, FALSE, TRUE),
              Fill(e1, TRUE, FALSE)}

Symmetry == Permutations(Workers) \cup Permutations(Ids)
=============================================================================
