------------------------------- MODULE MCRsvp -------------------------------
(***************************************************************************)
(* Small instances of Rsvp: the answers, edits and event rows of each run. *)
(***************************************************************************)
EXTENDS Rsvp, FiniteSets, TLC

(* Any two workers, browsers or ids can change places.                     *)
Symmetry == Permutations(Workers) \cup Permutations(Browsers) \cup Permutations(Ids)

(* "050-1" is the number "0501" as a guest types it.                       *)
MCPhones == {"", "0501", "050-1"}
MCDigits == ("" :> "") @@ ("0501" :> "0501") @@ ("050-1" :> "0501")
MCEmails == {"", "a@x"}
MCNames == {"ann", "bob"}

Answer(n, e, p, g) == [name |-> n, email |-> e, phone |-> p,
                       status |-> "attending", guests |-> g]
Decline(n, e, p, g) == [Answer(n, e, p, g) EXCEPT !.status = "declined"]

Open == [status |-> "published", allow_public_registration |-> TRUE,
         registration_starts_at |-> None, registration_ends_at |-> 0,
         max_guests |-> 1, require_email |-> FALSE, require_phone |-> FALSE]
Closed == [Open EXCEPT !.status = "registration_closed"]

(* Both contacts, the same phone alone, and no contact.                    *)
MCForms == {Answer("ann", "a@x", "050-1", 0), Answer("ann", "", "0501", 0),
            Decline("ann", "", "", 2)}
OneForm == {Answer("ann", "a@x", "0501", 0)}
MCEdits == {Decline("bob", "a@x", "", 1)}
MCEvents == {Open, Closed}

(* A run goes on until that many things have been done: entries in the log *)
(* or lost with their worker, answers that left with their event or belong *)
(* to another one, workers that stored a late answer, and the clock's tick.*)
CONSTANT MaxDone
FewDone ==
  Cardinality(audit \cup cut) + Cardinality(cascaded \cup Away)
    + Cardinality({w \in Workers : late[w] > 0}) + now <= MaxDone
=============================================================================
