------------------------------ MODULE MCBackup ------------------------------
(***************************************************************************)
(* A small instance of Backup: events with a banner each.                  *)
(***************************************************************************)
EXTENDS Backup, TLC

MCDirectory == [c \in Columns |-> Names]

Submit(banner) == [answer |-> [c \in Columns |-> banner], saved |-> Columns]

MCForms == {Submit("upload"), Submit("keep")}

Symmetry == Permutations(Names) \cup Permutations(Backups)
=============================================================================
