---------------------------- MODULE EventsHistory ---------------------------
(***************************************************************************)
(* Events, with a record of which copies of rows others overtook and which *)
(* audit entries a crash cost: what the forms and the bulk actions promise *)
(* holds of every copy that nobody overtook, however many requests overlap *)
(* and whoever crashes.                                                    *)
(***************************************************************************)
EXTENDS Events

VARIABLES
  overtaken,  \* history: <<w, i>> when another wrote event i during w's request
  tainted,    \* history: events that a request so overtaken has written
  cut         \* history: rows whose worker was killed before it logged them

varsH == <<vars, overtaken, tainted, cut>>

(* A request that was overtaken at event i writes it.                      *)
StaleWrite(i) ==
  events'[i] # events[i] /\ \E w \in Workers : <<w, i>> \in overtaken /\ req'[w] # req[w]

(* A bulk action ends between save() and log_action.                       *)
CutShort(w) ==
  /\ req[w].at = "bulk_saved" /\ req[w].id \in Stored
  /\ req'[w] = Idle /\ audit' = audit

Remember ==
  /\ overtaken' = {p \in Workers \X Ids :
       /\ req'[p[1]].at # "idle"
       /\ p \in overtaken \/ (events'[p[2]] # events[p[2]] /\ req'[p[1]] = req[p[1]])}
  /\ tainted' = tainted \cup {i \in Ids : StaleWrite(i)}
  /\ cut' = cut \cup {<<req[w].id, req[w].row>> : w \in {v \in Workers : CutShort(v)}}

InitH == Init /\ overtaken = {} /\ tainted = {} /\ cut = {}

NextH == Next /\ Remember

SpecH == InitH /\ [][NextH]_varsH

-----------------------------------------------------------------------------
(* What is stored of an event was logged as new data, or is about to be,   *)
(* unless the worker that saved it was killed in between: a loop that is   *)
(* cut short leaves no other row without its entry.                        *)
RowsLogged ==
  \A i \in Stored :
     \/ \E e \in audit : e.id = i /\ e.new = events[i]
     \/ \E w \in Workers : /\ req[w].at = "bulk_saved" /\ req[w].id = i
                           /\ req[w].row = events[i]
     \/ <<i, events[i]>> \in cut

(* A published event has a date of publication, unless a request that was  *)
(* overtaken wrote it: save_model decides by a row read after the form.    *)
PublishedDated ==
  \A i \in Stored :
     events[i].status = "published" => events[i].published \/ i \in tainted

(* A change of an event's status is logged with the status it had before   *)
(* and the one it has now, unless a request that was overtaken writes.     *)
ChangesLogged ==
  [][\A i \in Stored :
       events'[i] # None /\ events'[i].status # events[i].status =>
         \/ \E e \in audit' : e.id = i /\ e.old = events[i] /\ e.new = events'[i]
         \/ \E w \in Workers : /\ req'[w].at = "bulk_saved" /\ req'[w].id = i
                               /\ req'[w].old = events[i] /\ req'[w].row = events'[i]
         \/ StaleWrite(i)]_varsH
=============================================================================
