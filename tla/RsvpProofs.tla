----------------------------- MODULE RsvpProofs -----------------------------
(***************************************************************************)
(* Proofs about Rsvp, for any number of workers, browsers, ids and events. *)
(* TypeInv comes first; each theorem after it adds to TypeInv the facts    *)
(* about requests under way that make its property inductive.              *)
(***************************************************************************)
EXTENDS Rsvp, TLAPS

(* What a request has in its local variables at each step.                 *)
RequestOK(r) ==
  /\ r.at \in {"posted", "checked"} => r.event \in EventRows
  /\ r.at \in {"posted", "checked", "edit_loaded", "edit_saved",
               "site_loaded", "site_fetched"} => r.form \in Form
  /\ r.at \in {"posted", "checked", "stored", "edit_loaded", "edit_saved",
               "site_loaded", "site_fetched"} => r.agent \in Browsers
  /\ r.at \in {"stored", "edit_loaded", "edit_saved", "delete_loaded",
               "delete_logged", "site_loaded", "site_fetched"} => r.id \in issued

TypeInv ==
  /\ TypeOK
  /\ \A w \in Workers : RequestOK(req[w])
  /\ Stored \cup Away \subseteq issued /\ Stored \cap Away = {}
  /\ edited \subseteq issued
  /\ event = None => Stored = {}

(* The cleaning operators return forms.                                    *)
LEMMA CleanedForms ==
  ASSUME NEW f \in Form
  PROVE  /\ CleanForm(f) \in Form
         /\ [f EXCEPT !.guests = CleanGuests(f)] \in Form
BY DataAssumption DEF CleanForm, CleanGuests, Form

LEMMA TypeInit == Init => TypeInv
BY DataAssumption, NoneAssumption, TimeAssumption
   DEF Init, TypeInv, TypeOK, RequestOK, Request, Idle, Steps, Stored, Away

LEMMA TypeStep == TypeInv /\ [Next]_vars => TypeInv'
<1> SUFFICES ASSUME TypeInv, [Next]_vars PROVE TypeInv'
  OBVIOUS
<1> USE DEF TypeInv, TypeOK, Request, RequestOK, Steps, Stored, Away, Idle,
            dbVars, history
<1>1. ASSUME NEW w \in Workers, NEW b \in Browsers, NEW f \in Forms, Post(w, b, f)
      PROVE  TypeInv'
  <2>1. event \in EventRows /\ f \in Form /\ cookie[b] \in Ids \cup {None}
    BY <1>1, DataAssumption DEF Post
  <2>2. [Idle EXCEPT !.at = "posted", !.form = f, !.agent = b,
                     !.cookie = cookie[b], !.event = event] \in Request
    BY <2>1
  <2>3. /\ req' \in [Workers -> Request]
        /\ \A v \in Workers : RequestOK(req[v])'
    BY <1>1, <2>1, <2>2 DEF Post
  <2> QED BY <1>1, <2>3 DEF Post
<1>2. ASSUME NEW w \in Workers, Refuse(w) PROVE TypeInv'
  BY <1>2 DEF Refuse
<1>3. ASSUME NEW w \in Workers, Check(w) PROVE TypeInv'
  <2>1. CleanForm(req[w].form) \in Form
    BY <1>3, CleanedForms DEF Check
  <2>2. req' \in [Workers -> Request] /\ \A v \in Workers : RequestOK(req[v])'
    BY <1>3, <2>1 DEF Check
  <2> QED BY <1>3, <2>2 DEF Check
<1>4. ASSUME NEW w \in Workers, NEW i \in Ids, Store(w, i) PROVE TypeInv'
  <2>1. rows' \in [Ids -> Row \cup {None}] /\ Stored' \subseteq issued'
    BY <1>4, NoneAssumption DEF Store, Row
  <2>2. req' \in [Workers -> Request] /\ \A v \in Workers : RequestOK(req[v])'
    BY <1>4 DEF Store
  <2>3. Written(i) \in [Workers -> SUBSET Ids]
    BY DEF Written
  <2>5. raced' \subseteq SUBSET Ids
    BY <1>4 DEF Store
  <2>4. late' \in [Workers -> Nat]
    BY <1>4 DEF Store
  <2> QED BY <1>4, <2>1, <2>2, <2>3, <2>4, <2>5 DEF Store
<1>5. ASSUME NEW w \in Workers, StoreFails(w) PROVE TypeInv'
  BY <1>5 DEF StoreFails
<1>6. ASSUME NEW w \in Workers, Respond(w) PROVE TypeInv'
  BY <1>6 DEF Respond
<1>7. ASSUME NEW w \in Workers, NEW i \in Ids, NEW g \in Edits, EditLoad(w, i, g)
      PROVE  TypeInv'
  <2>1. [g EXCEPT !.guests = CleanGuests(g)] \in Form
    BY CleanedForms, DataAssumption
  <2>2. rows[i].agent \in Browsers /\ i \in issued
    BY <1>7, NoneAssumption DEF EditLoad, Row
  <2>3. /\ req' \in [Workers -> Request]
        /\ \A v \in Workers : RequestOK(req[v])'
    BY <1>7, <2>1, <2>2 DEF EditLoad
  <2> QED BY <1>7, <2>3 DEF EditLoad
<1>8. ASSUME NEW w \in Workers, EditSave(w) PROVE TypeInv'
  <2>1. /\ req' \in [Workers -> Request]
        /\ \A v \in Workers : RequestOK(req[v])'
    <3>1. /\ req[w] \in Request /\ RequestOK(req[w]) /\ req[w].at = "edit_loaded"
          /\ req' = [req EXCEPT ![w] = [req[w] EXCEPT !.at = "edit_saved"]]
          /\ issued' = issued
      BY <1>8 DEF EditSave
    <3> QED BY <3>1
  <2>2. rows' \in [Ids -> Row \cup {None}] /\ Stored' = Stored \cup {req[w].id}
    BY <1>8, NoneAssumption DEF EditSave, SaveRow, Row
  <2>3. overlap' \in [Workers -> SUBSET Ids]
    BY <1>8 DEF EditSave, SaveRow, Written
  <2> QED BY <1>8, <2>1, <2>2, <2>3 DEF EditSave, SaveRow
<1>9. ASSUME NEW w \in Workers, EditLog(w) PROVE TypeInv'
  BY <1>9 DEF EditLog, Updated
<1>10. ASSUME NEW w \in Workers, NEW i \in Ids, DeleteLoad(w, i) PROVE TypeInv'
  BY <1>10 DEF DeleteLoad
<1>11. ASSUME NEW w \in Workers, DeleteLog(w) PROVE TypeInv'
  <2>1. /\ req' \in [Workers -> Request]
        /\ \A v \in Workers : RequestOK(req[v])'
    <3>1. /\ req[w] \in Request /\ RequestOK(req[w]) /\ req[w].at = "delete_loaded"
          /\ req' = [req EXCEPT ![w] = [req[w] EXCEPT !.at = "delete_logged"]]
          /\ issued' = issued
      BY <1>11 DEF DeleteLog
    <3> QED BY <3>1
  <2> QED BY <1>11, <2>1 DEF DeleteLog, Deleted
<1>12. ASSUME NEW w \in Workers, DeleteRow(w) PROVE TypeInv'
  <2>1. /\ req' \in [Workers -> Request]
        /\ \A v \in Workers : RequestOK(req[v])'
    BY <1>12 DEF DeleteRow
  <2> QED BY <1>12, <2>1 DEF DeleteRow
<1>13. ASSUME NEW w \in Workers, NEW i \in Ids, NEW g \in Edits, SiteLoad(w, i, g)
       PROVE  TypeInv'
  <2>1. /\ (IF i \in Stored THEN rows[i].agent ELSE away[i]) \in Browsers
        /\ g \in Form /\ i \in issued
    BY <1>13, DataAssumption, NoneAssumption DEF SiteLoad, Row
  <2>2. /\ req' \in [Workers -> Request]
        /\ \A v \in Workers : RequestOK(req[v])'
    BY <1>13, <2>1 DEF SiteLoad
  <2> QED BY <1>13, <2>2 DEF SiteLoad
<1>14. ASSUME NEW w \in Workers, SiteFetch(w) PROVE TypeInv'
  <2>1. /\ req' \in [Workers -> Request]
        /\ \A v \in Workers : RequestOK(req[v])'
    <3>1. CASE req[w].id \in Stored \cup Away
      <4>1. /\ req[w] \in Request /\ RequestOK(req[w]) /\ req[w].at = "site_loaded"
            /\ req' = [req EXCEPT ![w] = [req[w] EXCEPT !.at = "site_fetched"]]
            /\ issued' = issued
        BY <1>14, <3>1 DEF SiteFetch
      <4> QED BY <4>1
    <3>2. CASE req[w].id \notin Stored \cup Away
      BY <1>14, <3>2 DEF SiteFetch
    <3> QED BY <3>1, <3>2
  <2> QED BY <1>14, <2>1 DEF SiteFetch
<1>15. ASSUME NEW w \in Workers, SiteSave(w) PROVE TypeInv'
  BY <1>15, NoneAssumption DEF SiteSave, SaveRow, Updated, Row, Written
<1>16. ASSUME NEW w \in Workers, SiteMove(w) PROVE TypeInv'
  BY <1>16 DEF SiteMove, Moved
<1>17. ASSUME NEW S \in SUBSET Away, DeleteOther(S) PROVE TypeInv'
  BY <1>17 DEF DeleteOther
<1>18. ASSUME NEW w \in Workers, NEW i \in Ids, SiteDelete(w, i) PROVE TypeInv'
  BY <1>18 DEF SiteDelete, Deleted
<1>19. ASSUME NEW w \in Workers, AdminFails(w) PROVE TypeInv'
  BY <1>19 DEF AdminFails
<1>20. ASSUME NEW ev \in EventRows, SaveEvent(ev) PROVE TypeInv'
  BY <1>20, DataAssumption, NoneAssumption DEF SaveEvent
<1>21. ASSUME DeleteEvent PROVE TypeInv'
  BY <1>21 DEF DeleteEvent
<1>22. ASSUME Tick PROVE TypeInv'
  BY <1>22, TimeAssumption DEF Tick
<1>23. ASSUME NEW w \in Workers, Crash(w) PROVE TypeInv'
  BY <1>23 DEF Crash, Updated
<1>24. ASSUME UNCHANGED vars PROVE TypeInv'
  BY <1>24 DEF vars
<1> QED
  BY <1>1, <1>2, <1>3, <1>4, <1>5, <1>6, <1>7, <1>8, <1>9, <1>10, <1>11, <1>12,
     <1>13, <1>14, <1>15, <1>16, <1>17, <1>18, <1>19, <1>20, <1>21, <1>22, <1>23,
     <1>24
     DEF Next, CrashFreeNext, Environment, GuestStep, AdminStep

(* Every variable keeps its type, and a request's local variables are the  *)
(* ones its step needs, in every reachable state.                          *)
THEOREM TypesAndRequests == Spec => []TypeInv
<1>1. Init => TypeInv BY TypeInit
<1>2. TypeInv /\ [Next]_vars => TypeInv' BY TypeStep
<1> QED BY <1>1, <1>2, PTL DEF Spec

(* TypeOK: every variable keeps its type.                                  *)
THEOREM TypeCorrect == Spec => []TypeOK
<1>1. TypeInv => TypeOK BY DEF TypeInv
<1> QED BY <1>1, TypesAndRequests, PTL

-----------------------------------------------------------------------------
(* AtMostOneLate.  A worker that stored a late answer cannot hold the copy *)
(* of a published event until the event is published again.                *)
LateOK(w) ==
  /\ late[w] \in {0, 1}
  /\ late[w] = 1 /\ req[w].at \in {"posted", "checked"}
       => req[w].event.status # "published"
  /\ req[w].at = "checked" => req[w].event.status = "published"
  /\ event # None /\ late[w] = 1 => event.status # "published"

LateInv == \A w \in Workers : LateOK(w)

LEMMA LateStep == TypeInv /\ LateInv /\ [Next]_vars => LateInv'
<1> SUFFICES ASSUME TypeInv, LateInv, [Next]_vars PROVE LateInv'
  OBVIOUS
<1> USE DEF TypeInv, TypeOK, Request, LateInv, LateOK, Idle, dbVars, history
<1>1. ASSUME NEW w \in Workers, NEW b \in Browsers, NEW f \in Forms, Post(w, b, f)
      PROVE  LateInv'
  BY <1>1 DEF Post
<1>2. ASSUME NEW w \in Workers, Refuse(w) PROVE LateInv'
  BY <1>2 DEF Refuse
<1>3. ASSUME NEW w \in Workers, Check(w) PROVE LateInv'
  BY <1>3 DEF Check, AcceptsRegistrations
<1>4. ASSUME NEW w \in Workers, NEW i \in Ids, Store(w, i) PROVE LateInv'
  BY <1>4 DEF Store
<1>5. ASSUME NEW w \in Workers, StoreFails(w) PROVE LateInv'
  BY <1>5 DEF StoreFails
<1>6. ASSUME NEW w \in Workers, Respond(w) PROVE LateInv'
  BY <1>6 DEF Respond
<1>7. ASSUME NEW w \in Workers, NEW i \in Ids, NEW g \in Edits, EditLoad(w, i, g)
      PROVE  LateInv'
  BY <1>7 DEF EditLoad
<1>8. ASSUME NEW w \in Workers, EditSave(w) PROVE LateInv'
  BY <1>8 DEF EditSave, SaveRow, Written
<1>9. ASSUME NEW w \in Workers, EditLog(w) PROVE LateInv'
  BY <1>9 DEF EditLog
<1>10. ASSUME NEW w \in Workers, NEW i \in Ids, DeleteLoad(w, i)
      PROVE  LateInv'
  BY <1>10 DEF DeleteLoad
<1>11. ASSUME NEW w \in Workers, DeleteLog(w) PROVE LateInv'
  BY <1>11 DEF DeleteLog
<1>12. ASSUME NEW w \in Workers, DeleteRow(w) PROVE LateInv'
  BY <1>12 DEF DeleteRow
<1>13. ASSUME NEW w \in Workers, NEW i \in Ids, NEW g \in Edits, SiteLoad(w, i, g)
      PROVE  LateInv'
  BY <1>13 DEF SiteLoad
<1>14. ASSUME NEW w \in Workers, SiteFetch(w) PROVE LateInv'
  BY <1>14 DEF SiteFetch
<1>15. ASSUME NEW w \in Workers, SiteSave(w) PROVE LateInv'
  BY <1>15 DEF SiteSave, SaveRow, Written
<1>16. ASSUME NEW w \in Workers, SiteMove(w) PROVE LateInv'
  BY <1>16 DEF SiteMove
<1>17. ASSUME NEW S \in SUBSET Away, DeleteOther(S) PROVE LateInv'
  BY <1>17 DEF DeleteOther
<1>18. ASSUME NEW w \in Workers, NEW i \in Ids, SiteDelete(w, i)
      PROVE  LateInv'
  BY <1>18 DEF SiteDelete
<1>19. ASSUME NEW w \in Workers, AdminFails(w) PROVE LateInv'
  BY <1>19 DEF AdminFails
<1>20. ASSUME NEW ev \in EventRows, SaveEvent(ev) PROVE LateInv'
  BY <1>20 DEF SaveEvent
<1>21. ASSUME DeleteEvent PROVE LateInv'
  BY <1>21 DEF DeleteEvent
<1>22. ASSUME Tick PROVE LateInv'
  BY <1>22 DEF Tick
<1>23. ASSUME NEW w \in Workers, Crash(w) PROVE LateInv'
  BY <1>23 DEF Crash
<1>24. ASSUME UNCHANGED vars PROVE LateInv'
  BY <1>24 DEF vars
<1> QED
  BY <1>1, <1>2, <1>3, <1>4, <1>5, <1>6, <1>7, <1>8, <1>9, <1>10, <1>11, <1>12, <1>13,
     <1>14, <1>15, <1>16, <1>17, <1>18, <1>19, <1>20, <1>21, <1>22, <1>23, <1>24
     DEF Next, CrashFreeNext, Environment, GuestStep, AdminStep

(* Closing registration lets each worker store at most one more answer.    *)
THEOREM LateBounded == Spec => []AtMostOneLate
<1>1. Init => LateInv
  <2> SUFFICES ASSUME Init, NEW w \in Workers
               PROVE  LateOK(w)
    BY DEF LateInv
  <2>1. late[w] = 0 /\ req[w].at = "idle"
    BY DEF Init, Idle
  <2> QED BY <2>1 DEF LateOK
<1>2. TypeInv /\ TypeInv' /\ LateInv /\ [Next]_vars => LateInv' BY LateStep
<1>3. LateInv => AtMostOneLate
  <2> SUFFICES ASSUME LateInv, NEW w \in Workers PROVE late[w] <= 1
    BY DEF AtMostOneLate
  <2>1. late[w] \in {0, 1} BY DEF LateInv, LateOK
  <2> QED BY <2>1
<1> QED BY <1>1, <1>2, <1>3, TypesAndRequests, PTL DEF Spec

-----------------------------------------------------------------------------
(* DuplicatesOnlyFromRaces and AnswersAreNew.  What a worker's query did    *)
(* not show it, because it was written since, is in overlap; what it did    *)
(* show would have refused the submission.                                  *)
QueryInv ==
  \A w \in Workers, i \in Stored :
     req[w].at = "checked" /\ SameContact(req[w].form, rows[i].answer)
       => i \in overlap[w]

ContactInv == DuplicatesOnlyFromRaces /\ QueryInv

LEMMA SameContactSymmetric ==
  \A f, g : SameContact(f, g) <=> SameContact(g, f)
BY DEF SameContact

LEMMA ContactStep == TypeInv /\ ContactInv /\ [Next]_vars => ContactInv'
<1> SUFFICES ASSUME TypeInv, ContactInv, [Next]_vars PROVE ContactInv'
  OBVIOUS
<1> USE DEF TypeInv, TypeOK, Request, Idle, dbVars, history, Stored,
            ContactInv, DuplicatesOnlyFromRaces, QueryInv
<1>1. ASSUME NEW w \in Workers, NEW b \in Browsers, NEW f \in Forms, Post(w, b, f)
      PROVE  ContactInv'
  BY <1>1 DEF Post
<1>2. ASSUME NEW w \in Workers, Refuse(w) PROVE ContactInv'
  BY <1>2 DEF Refuse
<1>3. ASSUME NEW w \in Workers, Check(w) PROVE ContactInv'
  BY <1>3 DEF Check, ExistingRegistration, SameContact, HasContact
<1>4. ASSUME NEW w \in Workers, NEW i \in Ids, Store(w, i) PROVE ContactInv'
  <2>1. DuplicatesOnlyFromRaces'
    <3> SUFFICES ASSUME NEW j \in Stored', NEW k \in Stored', j # k,
                        SameContact(rows'[j].answer, rows'[k].answer)
                 PROVE  j \in edited \/ k \in edited \/ {j, k} \in raced'
      BY <1>4 DEF Store, SameContact
    <3>1. \A m \in Ids : m # i => rows'[m] = rows[m]
      BY <1>4 DEF Store
    <3>2. rows'[i].answer = req[w].form
      BY <1>4 DEF Store
    <3>3. ASSUME NEW m \in Stored, m # i, SameContact(req[w].form, rows[m].answer)
          PROVE  m \in edited \/ {i, m} \in raced'
      BY <1>4, <3>3 DEF Store
    <3>4. CASE j = i
      BY <3>1, <3>2, <3>3, <3>4
    <3>5. CASE k = i
      BY <3>1, <3>2, <3>3, <3>5, SameContactSymmetric
    <3>6. CASE j # i /\ k # i
      BY <1>4, <3>1, <3>6 DEF Store
    <3> QED BY <3>4, <3>5, <3>6
  <2>2. QueryInv'
    <3> SUFFICES ASSUME NEW v \in Workers, NEW j \in Stored', req'[v].at = "checked",
                        SameContact(req'[v].form, rows'[j].answer)
                 PROVE  j \in overlap'[v]
      BY DEF SameContact
    <3>1. v # w /\ req'[v] = req[v]
      BY <1>4 DEF Store
    <3>2. overlap'[v] = overlap[v] \cup {i}
      BY <1>4, <3>1 DEF Store, Written
    <3>3. j = i \/ (j \in Stored /\ rows'[j] = rows[j])
      BY <1>4 DEF Store
    <3> QED BY <3>1, <3>2, <3>3
  <2> QED BY <2>1, <2>2
<1>5. ASSUME NEW w \in Workers, StoreFails(w) PROVE ContactInv'
  BY <1>5 DEF StoreFails
<1>6. ASSUME NEW w \in Workers, Respond(w) PROVE ContactInv'
  BY <1>6 DEF Respond
<1>7. ASSUME NEW w \in Workers, NEW i \in Ids, NEW g \in Edits, EditLoad(w, i, g)
      PROVE  ContactInv'
  BY <1>7 DEF EditLoad
<1>8. ASSUME NEW w \in Workers, EditSave(w) PROVE ContactInv'
  BY <1>8 DEF EditSave, SaveRow, Written
<1>9. ASSUME NEW w \in Workers, EditLog(w) PROVE ContactInv'
  BY <1>9 DEF EditLog
<1>10. ASSUME NEW w \in Workers, NEW i \in Ids, DeleteLoad(w, i)
      PROVE  ContactInv'
  BY <1>10 DEF DeleteLoad
<1>11. ASSUME NEW w \in Workers, DeleteLog(w) PROVE ContactInv'
  BY <1>11 DEF DeleteLog
<1>12. ASSUME NEW w \in Workers, DeleteRow(w) PROVE ContactInv'
  BY <1>12 DEF DeleteRow
<1>13. ASSUME NEW w \in Workers, NEW i \in Ids, NEW g \in Edits, SiteLoad(w, i, g)
      PROVE  ContactInv'
  BY <1>13 DEF SiteLoad
<1>14. ASSUME NEW w \in Workers, SiteFetch(w) PROVE ContactInv'
  BY <1>14 DEF SiteFetch
<1>15. ASSUME NEW w \in Workers, SiteSave(w) PROVE ContactInv'
  BY <1>15 DEF SiteSave, SaveRow, Written
<1>16. ASSUME NEW w \in Workers, SiteMove(w) PROVE ContactInv'
  BY <1>16 DEF SiteMove
<1>17. ASSUME NEW S \in SUBSET Away, DeleteOther(S) PROVE ContactInv'
  BY <1>17 DEF DeleteOther
<1>18. ASSUME NEW w \in Workers, NEW i \in Ids, SiteDelete(w, i)
      PROVE  ContactInv'
  BY <1>18 DEF SiteDelete
<1>19. ASSUME NEW w \in Workers, AdminFails(w) PROVE ContactInv'
  BY <1>19 DEF AdminFails
<1>20. ASSUME NEW ev \in EventRows, SaveEvent(ev) PROVE ContactInv'
  BY <1>20 DEF SaveEvent
<1>21. ASSUME DeleteEvent PROVE ContactInv'
  BY <1>21 DEF DeleteEvent
<1>22. ASSUME Tick PROVE ContactInv'
  BY <1>22 DEF Tick
<1>23. ASSUME NEW w \in Workers, Crash(w) PROVE ContactInv'
  BY <1>23 DEF Crash
<1>24. ASSUME UNCHANGED vars PROVE ContactInv'
  BY <1>24 DEF vars
<1> QED
  BY <1>1, <1>2, <1>3, <1>4, <1>5, <1>6, <1>7, <1>8, <1>9, <1>10, <1>11, <1>12, <1>13,
     <1>14, <1>15, <1>16, <1>17, <1>18, <1>19, <1>20, <1>21, <1>22, <1>23, <1>24
     DEF Next, CrashFreeNext, Environment, GuestStep, AdminStep

(* Shared contacts come from edits or from overlapping submissions only.   *)
THEOREM DuplicatesExplained == Spec => []DuplicatesOnlyFromRaces
<1>1. Init => ContactInv
  BY DEF Init, ContactInv, DuplicatesOnlyFromRaces, QueryInv, Stored
<1>2. TypeInv /\ TypeInv' /\ ContactInv /\ [Next]_vars => ContactInv' BY ContactStep
<1>3. ContactInv => DuplicatesOnlyFromRaces BY DEF ContactInv
<1> QED BY <1>1, <1>2, <1>3, TypesAndRequests, PTL DEF Spec

(* A guest's new answer shares no contact with one its query could see.    *)
THEOREM NewAnswersAreNew == Spec => AnswersAreNew
<1> DEFINE A == \A i \in issued' \ issued, j \in Stored :
       SameContact(rows'[i].answer, rows[j].answer) => {i, j} \in raced'
<1>1. TypeInv /\ ContactInv /\ [Next]_vars => [A]_vars
  <2> SUFFICES ASSUME TypeInv, ContactInv, [Next]_vars PROVE A \/ issued' = issued
    OBVIOUS
  <2>1. ASSUME NEW w \in Workers, NEW i \in Ids, Store(w, i) PROVE A
    BY <2>1 DEF Store, TypeInv, TypeOK, Stored, ContactInv, QueryInv
  <2>2. \/ issued' = issued
        \/ \E w \in Workers, i \in Ids : Store(w, i)
    BY DEF Next, CrashFreeNext, Environment, GuestStep, AdminStep, vars, dbVars, history,
           Post, Refuse, Check, StoreFails, Respond, EditLoad, EditSave, EditLog, DeleteLoad,
           DeleteLog, DeleteRow, SiteLoad, SiteFetch, SiteSave, SiteMove, SiteDelete,
           AdminFails, SaveEvent, DeleteEvent, DeleteOther, Tick, Crash
  <2> QED BY <2>1, <2>2
<1>2. Spec => []ContactInv
  <2>1. Init => ContactInv
    BY DEF Init, ContactInv, DuplicatesOnlyFromRaces, QueryInv, Stored
  <2> QED BY <2>1, ContactStep, TypesAndRequests, PTL DEF Spec
<1> QED BY <1>1, <1>2, TypesAndRequests, PTL DEF Spec, AnswersAreNew

-----------------------------------------------------------------------------
(* DeletionsAudited: a worker about to delete has logged.                  *)
LoggedInv ==
  \A w \in Workers : req[w].at = "delete_logged" => Deleted(req[w].id) \in audit

DeletionInv == DeletionsAudited /\ LoggedInv

LEMMA DeletionStep == TypeInv /\ DeletionInv /\ [Next]_vars => DeletionInv'
<1> SUFFICES ASSUME TypeInv, DeletionInv, [Next]_vars PROVE DeletionInv'
  OBVIOUS
<1> USE DEF TypeInv, TypeOK, Request, Idle, dbVars, history, Stored, Away,
            DeletionInv, DeletionsAudited, LoggedInv
<1>1. ASSUME NEW w \in Workers, NEW b \in Browsers, NEW f \in Forms, Post(w, b, f)
      PROVE  DeletionInv'
  BY <1>1 DEF Post
<1>2. ASSUME NEW w \in Workers, Refuse(w) PROVE DeletionInv'
  BY <1>2 DEF Refuse
<1>3. ASSUME NEW w \in Workers, Check(w) PROVE DeletionInv'
  BY <1>3 DEF Check
<1>4. ASSUME NEW w \in Workers, NEW i \in Ids, Store(w, i) PROVE DeletionInv'
  BY <1>4, NoneAssumption DEF Store, Row, RequestOK
<1>5. ASSUME NEW w \in Workers, StoreFails(w) PROVE DeletionInv'
  BY <1>5 DEF StoreFails
<1>6. ASSUME NEW w \in Workers, Respond(w) PROVE DeletionInv'
  BY <1>6 DEF Respond
<1>7. ASSUME NEW w \in Workers, NEW i \in Ids, NEW g \in Edits, EditLoad(w, i, g)
      PROVE  DeletionInv'
  BY <1>7 DEF EditLoad
<1>8. ASSUME NEW w \in Workers, EditSave(w) PROVE DeletionInv'
  BY <1>8, NoneAssumption DEF EditSave, SaveRow, Row, RequestOK
<1>9. ASSUME NEW w \in Workers, EditLog(w) PROVE DeletionInv'
  BY <1>9 DEF EditLog
<1>10. ASSUME NEW w \in Workers, NEW i \in Ids, DeleteLoad(w, i)
      PROVE  DeletionInv'
  BY <1>10 DEF DeleteLoad
<1>11. ASSUME NEW w \in Workers, DeleteLog(w) PROVE DeletionInv'
  BY <1>11 DEF DeleteLog
<1>12. ASSUME NEW w \in Workers, DeleteRow(w) PROVE DeletionInv'
  BY <1>12 DEF DeleteRow
<1>13. ASSUME NEW w \in Workers, NEW i \in Ids, NEW g \in Edits, SiteLoad(w, i, g)
      PROVE  DeletionInv'
  BY <1>13 DEF SiteLoad
<1>14. ASSUME NEW w \in Workers, SiteFetch(w) PROVE DeletionInv'
  BY <1>14 DEF SiteFetch
<1>15. ASSUME NEW w \in Workers, SiteSave(w) PROVE DeletionInv'
  BY <1>15, NoneAssumption DEF SiteSave, SaveRow, Row, RequestOK
<1>16. ASSUME NEW w \in Workers, SiteMove(w) PROVE DeletionInv'
  BY <1>16, NoneAssumption DEF SiteMove, RequestOK
<1>17. ASSUME NEW S \in SUBSET Away, DeleteOther(S) PROVE DeletionInv'
  BY <1>17 DEF DeleteOther
<1>18. ASSUME NEW w \in Workers, NEW i \in Ids, SiteDelete(w, i)
      PROVE  DeletionInv'
  BY <1>18 DEF SiteDelete
<1>19. ASSUME NEW w \in Workers, AdminFails(w) PROVE DeletionInv'
  BY <1>19 DEF AdminFails
<1>20. ASSUME NEW ev \in EventRows, SaveEvent(ev) PROVE DeletionInv'
  BY <1>20 DEF SaveEvent
<1>21. ASSUME DeleteEvent PROVE DeletionInv'
  BY <1>21 DEF DeleteEvent
<1>22. ASSUME Tick PROVE DeletionInv'
  BY <1>22 DEF Tick
<1>23. ASSUME NEW w \in Workers, Crash(w) PROVE DeletionInv'
  BY <1>23 DEF Crash
<1>24. ASSUME UNCHANGED vars PROVE DeletionInv'
  BY <1>24 DEF vars
<1> QED
  BY <1>1, <1>2, <1>3, <1>4, <1>5, <1>6, <1>7, <1>8, <1>9, <1>10, <1>11, <1>12,
     <1>13, <1>14, <1>15, <1>16, <1>17, <1>18, <1>19, <1>20, <1>21, <1>22, <1>23, <1>24
     DEF Next, CrashFreeNext, Environment, GuestStep, AdminStep

(* A response that is gone was logged as deleted or went with its event,   *)
(* whatever crashed, moved, was saved from a stale copy or raced with it.  *)
THEOREM DeletionsLeaveATrace == Spec => []DeletionsAudited
<1>1. Init => DeletionInv
  BY DEF Init, DeletionInv, DeletionsAudited, LoggedInv, Stored, Away, Idle
<1>2. TypeInv /\ TypeInv' /\ DeletionInv /\ [Next]_vars => DeletionInv' BY DeletionStep
<1>3. DeletionInv => DeletionsAudited BY DEF DeletionInv
<1> QED BY <1>1, <1>2, <1>3, TypesAndRequests, PTL DEF Spec

-----------------------------------------------------------------------------
(* EditsAudited is inductive as it stands.                                 *)
LEMMA EditStep == TypeInv /\ EditsAudited /\ [Next]_vars => EditsAudited'
<1> SUFFICES ASSUME TypeInv, EditsAudited, [Next]_vars PROVE EditsAudited'
  OBVIOUS
<1> USE DEF TypeInv, TypeOK, Request, Idle, dbVars, history, Stored, EditsAudited
<1>1. ASSUME NEW w \in Workers, NEW b \in Browsers, NEW f \in Forms, Post(w, b, f)
      PROVE  EditsAudited'
  BY <1>1 DEF Post
<1>2. ASSUME NEW w \in Workers, Refuse(w) PROVE EditsAudited'
  BY <1>2 DEF Refuse
<1>3. ASSUME NEW w \in Workers, Check(w) PROVE EditsAudited'
  BY <1>3 DEF Check
<1>4. ASSUME NEW w \in Workers, NEW i \in Ids, Store(w, i) PROVE EditsAudited'
  BY <1>4 DEF Store
<1>5. ASSUME NEW w \in Workers, StoreFails(w) PROVE EditsAudited'
  BY <1>5 DEF StoreFails
<1>6. ASSUME NEW w \in Workers, Respond(w) PROVE EditsAudited'
  BY <1>6 DEF Respond
<1>7. ASSUME NEW w \in Workers, NEW i \in Ids, NEW g \in Edits, EditLoad(w, i, g)
      PROVE  EditsAudited'
  BY <1>7 DEF EditLoad
<1>8. ASSUME NEW w \in Workers, EditSave(w) PROVE EditsAudited'
  BY <1>8 DEF EditSave, SaveRow, Written
<1>9. ASSUME NEW w \in Workers, EditLog(w) PROVE EditsAudited'
  BY <1>9 DEF EditLog
<1>10. ASSUME NEW w \in Workers, NEW i \in Ids, DeleteLoad(w, i)
      PROVE  EditsAudited'
  BY <1>10 DEF DeleteLoad
<1>11. ASSUME NEW w \in Workers, DeleteLog(w) PROVE EditsAudited'
  BY <1>11 DEF DeleteLog
<1>12. ASSUME NEW w \in Workers, DeleteRow(w) PROVE EditsAudited'
  BY <1>12 DEF DeleteRow
<1>13. ASSUME NEW w \in Workers, NEW i \in Ids, NEW g \in Edits, SiteLoad(w, i, g)
      PROVE  EditsAudited'
  BY <1>13 DEF SiteLoad
<1>14. ASSUME NEW w \in Workers, SiteFetch(w) PROVE EditsAudited'
  BY <1>14 DEF SiteFetch
<1>15. ASSUME NEW w \in Workers, SiteSave(w) PROVE EditsAudited'
  BY <1>15 DEF SiteSave, SaveRow, Written
<1>16. ASSUME NEW w \in Workers, SiteMove(w) PROVE EditsAudited'
  BY <1>16 DEF SiteMove
<1>17. ASSUME NEW S \in SUBSET Away, DeleteOther(S) PROVE EditsAudited'
  BY <1>17 DEF DeleteOther
<1>18. ASSUME NEW w \in Workers, NEW i \in Ids, SiteDelete(w, i)
      PROVE  EditsAudited'
  BY <1>18 DEF SiteDelete
<1>19. ASSUME NEW w \in Workers, AdminFails(w) PROVE EditsAudited'
  BY <1>19 DEF AdminFails
<1>20. ASSUME NEW ev \in EventRows, SaveEvent(ev) PROVE EditsAudited'
  BY <1>20 DEF SaveEvent
<1>21. ASSUME DeleteEvent PROVE EditsAudited'
  BY <1>21 DEF DeleteEvent
<1>22. ASSUME Tick PROVE EditsAudited'
  BY <1>22 DEF Tick
<1>23. ASSUME NEW w \in Workers, Crash(w) PROVE EditsAudited'
  BY <1>23 DEF Crash, Updated
<1>24. ASSUME UNCHANGED vars PROVE EditsAudited'
  BY <1>24 DEF vars
<1> QED
  BY <1>1, <1>2, <1>3, <1>4, <1>5, <1>6, <1>7, <1>8, <1>9, <1>10, <1>11, <1>12,
     <1>13, <1>14, <1>15, <1>16, <1>17, <1>18, <1>19, <1>20, <1>21, <1>22, <1>23, <1>24
     DEF Next, CrashFreeNext, Environment, GuestStep, AdminStep

(* Every edit that lasts is in the audit log, or its log entry is the      *)
(* worker's next step, or was when the worker was killed.                  *)
THEOREM EditsLeaveATrace == Spec => []EditsAudited
<1>1. Init => EditsAudited BY DEF Init, EditsAudited, Stored
<1>2. TypeInv /\ EditsAudited /\ [Next]_vars => EditsAudited' BY EditStep
<1> QED BY <1>1, <1>2, TypesAndRequests, PTL DEF Spec

-----------------------------------------------------------------------------
(* NoResurrection: ids are not used again, and only saves of a row that    *)
(* was loaded can bring it back.                                           *)

(* A deleted answer comes back only by an edit that was opened before.     *)
THEOREM DeletionsLast == Spec => NoResurrection
<1> DEFINE Opened(i) == \E w \in Workers : req[w].id = i /\ req[w].at \in {"edit_loaded", "site_fetched"}
           A == \A i \in issued \ Stored : rows'[i] # None => Opened(i)
<1>1. TypeInv /\ [Next]_vars => [A]_vars
  <2> SUFFICES ASSUME TypeInv, Next, NEW i \in issued \ Stored, rows'[i] # None
               PROVE  Opened(i)
    OBVIOUS
  <2>0. i \in Ids /\ rows \in [Ids -> Row \cup {None}] /\ rows[i] = None
    BY DEF TypeInv, TypeOK, Stored
  <2>1. ASSUME NEW w \in Workers, NEW j \in Ids, Store(w, j) PROVE Opened(i)
    BY <2>0, <2>1 DEF Store
  <2>2. ASSUME NEW w \in Workers, EditSave(w) PROVE Opened(i)
    BY <2>0, <2>2 DEF EditSave, SaveRow
  <2>3. ASSUME NEW w \in Workers, SiteSave(w) PROVE Opened(i)
    BY <2>0, <2>3 DEF SiteSave, SaveRow
  <2>4. ASSUME NEW w \in Workers, DeleteRow(w) \/ SiteMove(w) \/ \E j \in Ids : SiteDelete(w, j)
        PROVE  FALSE
    BY <2>0, <2>4 DEF DeleteRow, SiteMove, SiteDelete
  <2>5. ASSUME DeleteEvent PROVE FALSE
    BY <2>0, <2>5 DEF DeleteEvent
  <2>6. ASSUME NEW w \in Workers, GuestStep(w), rows' # rows
        PROVE  \E j \in Ids : Store(w, j)
    BY <2>6 DEF GuestStep, dbVars, Post, Refuse, Check, StoreFails, Respond
  <2>7. ASSUME NEW w \in Workers, AdminStep(w), rows' # rows
        PROVE  \/ EditSave(w) \/ SiteSave(w) \/ DeleteRow(w) \/ SiteMove(w)
               \/ \E j \in Ids : SiteDelete(w, j)
    BY <2>7 DEF AdminStep, dbVars, EditLoad, EditLog, DeleteLoad, DeleteLog, SiteLoad,
                SiteFetch, AdminFails
  <2>8. ASSUME Environment \/ \E w \in Workers : Crash(w), rows' # rows PROVE DeleteEvent
    BY <2>8 DEF Environment, dbVars, SaveEvent, DeleteOther, Tick, Crash
  <2>9. rows' # rows
    BY <2>0
  <2> QED BY <2>1, <2>2, <2>3, <2>4, <2>5, <2>6, <2>7, <2>8, <2>9 DEF Next, CrashFreeNext
<1> QED BY <1>1, TypesAndRequests, PTL DEF Spec, NoResurrection

-----------------------------------------------------------------------------
(* Submissions that do not overlap: no two requests are between the query  *)
(* of existing_registration and their INSERT.                              *)
SerialSubmissions ==
  \A v, w \in Workers : req[v].at = "checked" /\ req[w].at = "checked" => v = w

(* All that a query may have missed is then the hand of an administrator.  *)
OverlapsAreEdits ==
  /\ \A w \in Workers : overlap[w] \subseteq edited
  /\ \A p \in raced : p \cap edited # {}

LEMMA SerialStep ==
  ASSUME TypeInv, SerialSubmissions, OverlapsAreEdits, [Next]_vars
  PROVE  OverlapsAreEdits'
<1> USE DEF OverlapsAreEdits, TypeInv, TypeOK, Request
<1>1. ASSUME NEW w \in Workers, NEW i \in Ids, Store(w, i) PROVE OverlapsAreEdits'
  <2>1. \A v \in Workers \ {w} : overlap'[v] = overlap[v]
    BY <1>1 DEF Store, Written, SerialSubmissions
  <2>2. overlap'[w] = {}
    BY <1>1 DEF Store, Written
  <2>3. \A j \in overlap[w] : {i, j} \cap edited # {}
    OBVIOUS
  <2> QED BY <1>1, <2>1, <2>2, <2>3 DEF Store
<1>2. ASSUME NEW w \in Workers, EditSave(w) \/ SiteSave(w) PROVE OverlapsAreEdits'
  <2>1. edited' = edited \cup {req[w].id} /\ overlap' = Written(req[w].id) /\ raced' = raced
    BY <1>2 DEF EditSave, SiteSave, SaveRow
  <2> QED BY <2>1 DEF Written
<1>3. ASSUME NEW w \in Workers, Check(w) \/ Crash(w) PROVE OverlapsAreEdits'
  <2>1. overlap' = [overlap EXCEPT ![w] = {}] /\ UNCHANGED <<edited, raced>>
    BY <1>3 DEF Check, Crash
  <2> QED BY <2>1
<1>4. ASSUME edited \subseteq edited', UNCHANGED <<overlap, raced>> PROVE OverlapsAreEdits'
  BY <1>4
<1>5. ASSUME NEW w \in Workers,
             \/ \E b \in Browsers, f \in Forms : Post(w, b, f)
             \/ Refuse(w) \/ StoreFails(w) \/ Respond(w)
             \/ \E i \in Ids, g \in Edits : EditLoad(w, i, g) \/ SiteLoad(w, i, g)
             \/ EditLog(w) \/ DeleteLog(w) \/ DeleteRow(w)
             \/ \E i \in Ids : DeleteLoad(w, i) \/ SiteDelete(w, i)
             \/ SiteFetch(w) \/ SiteMove(w) \/ AdminFails(w)
      PROVE  OverlapsAreEdits'
  BY <1>4, <1>5 DEF Post, Refuse, StoreFails, Respond, EditLoad, SiteLoad, EditLog, DeleteLog,
     DeleteRow, DeleteLoad, SiteDelete, SiteFetch, SiteMove, AdminFails, history
<1>6. ASSUME Environment \/ UNCHANGED vars PROVE OverlapsAreEdits'
  BY <1>4, <1>6 DEF Environment, SaveEvent, DeleteEvent, DeleteOther, Tick, history, vars
<1> QED
  BY <1>1, <1>2, <1>3, <1>5, <1>6 DEF Next, CrashFreeNext, GuestStep, AdminStep

(* existing_registration is enough when submissions do not overlap: no two *)
(* answers of guests ever share an e-mail address or a phone number, but   *)
(* by the hand of an administrator.                                        *)
NoDuplicatesOfGuests ==
  \A i, j \in Stored :
     i # j /\ SameContact(rows[i].answer, rows[j].answer) => i \in edited \/ j \in edited

(* event_page's query and its INSERT, one submission after the other, keep *)
(* guests' answers apart; the unique check it lacks matters for overlaps.  *)
THEOREM SerialSubmissionsAreNew == Spec /\ []SerialSubmissions => []NoDuplicatesOfGuests
<1>1. Init => OverlapsAreEdits
  BY DEF Init, OverlapsAreEdits
<1>2. TypeInv /\ SerialSubmissions /\ OverlapsAreEdits /\ [Next]_vars => OverlapsAreEdits'
  BY SerialStep
<1>3. DuplicatesOnlyFromRaces /\ OverlapsAreEdits => NoDuplicatesOfGuests
  <2> SUFFICES ASSUME DuplicatesOnlyFromRaces, OverlapsAreEdits,
                      NEW i \in Stored, NEW j \in Stored, i # j,
                      SameContact(rows[i].answer, rows[j].answer)
               PROVE  i \in edited \/ j \in edited
    BY DEF NoDuplicatesOfGuests
  <2>1. i \in edited \/ j \in edited \/ {i, j} \in raced
    BY DEF DuplicatesOnlyFromRaces
  <2> QED BY <2>1 DEF OverlapsAreEdits
<1> QED BY <1>1, <1>2, <1>3, TypesAndRequests, DuplicatesExplained, PTL DEF Spec

-----------------------------------------------------------------------------
(* Whose answer a cookie names.                                            *)
Editing == {"edit_loaded", "edit_saved", "site_loaded", "site_fetched"}

(* The id i is that of an answer of b, and stays so whichever copy of it   *)
(* is saved.                                                               *)
Leads(i, b) ==
  /\ i \in issued
  /\ i \in Stored => rows[i].agent = b
  /\ i \in Away => away[i] = b
  /\ \A v \in Workers : req[v].at \in Editing /\ req[v].id = i => req[v].agent = b

(* The browser b holds the id i as its token, posted it, or will get it.   *)
Holds(b, i) ==
  \/ cookie[b] = i
  \/ \E w \in Workers : req[w].at = "posted" /\ req[w].cookie = i /\ req[w].agent = b
  \/ \E w \in Workers : req[w].at = "stored" /\ req[w].id = i /\ req[w].agent = b

CookieInv == \A b \in Browsers, i \in Ids : Holds(b, i) => Leads(i, b)

(* A request that ends, or goes on with what it has, edits nothing new.    *)
LEMMA LeadsOn ==
  ASSUME NEW i, NEW b, Leads(i, b), issued \subseteq issued',
         i \in Stored' => (i \in Stored /\ rows'[i].agent = rows[i].agent),
         i \in Away' => (i \in Away /\ away'[i] = away[i]),
         \A v \in Workers : req'[v].at \in Editing =>
            req[v].at \in Editing /\ req'[v].id = req[v].id /\ req'[v].agent = req[v].agent
  PROVE  Leads(i, b)'
BY DEF Leads

LEMMA LeadsStep ==
  ASSUME TypeInv, [Next]_vars, NEW i \in Ids, NEW b, Leads(i, b)
  PROVE  Leads(i, b)'
<1>. USE DEF Editing, dbVars, history
<1>0. /\ req \in [Workers -> Request] /\ rows \in [Ids -> Row \cup {None}]
      /\ away \in [Ids -> Browsers \cup {None}]
      /\ None \notin Row /\ None \notin Ids /\ DOMAIN req = Workers
  BY NoneAssumption DEF TypeInv, TypeOK
<1>a. \A w \in Workers : Idle.at \notin Editing
  BY DEF Idle
<1>1. ASSUME NEW w \in Workers,
             \/ \E c \in Browsers, f \in Forms : Post(w, c, f)
             \/ Refuse(w) \/ Check(w) \/ StoreFails(w) \/ Respond(w)
             \/ EditLog(w) \/ AdminFails(w) \/ Crash(w)
             \/ \E j \in Ids : DeleteLoad(w, j)
      PROVE  Leads(i, b)'
  <2>1. rows' = rows /\ away' = away /\ issued' = issued
    BY <1>1 DEF Post, Refuse, Check, StoreFails, Respond, EditLog, AdminFails, Crash, DeleteLoad
  <2>2. req'[w].at \notin Editing /\ \A v \in Workers \ {w} : req'[v] = req[v]
    <3>1. CASE Refuse(w) \/ StoreFails(w) \/ Respond(w) \/ EditLog(w) \/ AdminFails(w) \/ Crash(w)
      BY <1>0, <1>a, <3>1 DEF Refuse, StoreFails, Respond, EditLog, AdminFails, Crash
    <3>3. ASSUME NEW c \in Browsers, NEW f \in Forms, Post(w, c, f)
          PROVE  req'[w].at = "posted" /\ \A v \in Workers \ {w} : req'[v] = req[v]
      BY <1>0, <3>3 DEF Post, Idle
    <3>4. CASE Check(w)
      BY <1>0, <3>4 DEF Check, Idle
    <3>7. ASSUME NEW j \in Ids, DeleteLoad(w, j)
          PROVE  req'[w].at = "delete_loaded" /\ \A v \in Workers \ {w} : req'[v] = req[v]
      BY <1>0, <3>7 DEF DeleteLoad, Idle
    <3>. QED BY <1>1, <3>1, <3>3, <3>4, <3>7
  <2>. QED BY <2>1, <2>2, LeadsOn DEF Stored, Away
<1>2. ASSUME NEW w \in Workers, NEW j \in Ids, Store(w, j) PROVE Leads(i, b)'
  <2>1. i # j
    BY <1>0, <1>2 DEF Store, Leads
  <2>2. issued \subseteq issued' /\ rows'[i] = rows[i] /\ away' = away
    BY <1>0, <1>2, <2>1 DEF Store
  <2>3. req'[w].at \notin Editing /\ \A v \in Workers \ {w} : req'[v] = req[v]
    BY <1>0, <1>2 DEF Store, Idle
  <2>. QED BY <2>2, <2>3, LeadsOn DEF Stored, Away
<1>3. ASSUME NEW w \in Workers, NEW j \in Ids, NEW g \in Edits, EditLoad(w, j, g) \/ SiteLoad(w, j, g)
      PROVE  Leads(i, b)'
  <2>1. /\ rows' = rows /\ away' = away /\ issued' = issued /\ j \in Stored \cup Away
        /\ req'[w].id = j
        /\ req'[w].agent = IF j \in Stored THEN rows[j].agent ELSE away[j]
        /\ \A v \in Workers \ {w} : req'[v] = req[v]
    <3>1. CASE EditLoad(w, j, g)
      BY <1>0, <3>1 DEF EditLoad, Idle
    <3>2. CASE SiteLoad(w, j, g)
      BY <1>0, <3>2 DEF SiteLoad, Idle
    <3>. QED BY <1>3, <3>1, <3>2
  <2>. QED BY <2>1 DEF Leads, Stored, Away
<1>4. ASSUME NEW w \in Workers, EditSave(w) \/ SiteSave(w) PROVE Leads(i, b)'
  <2>1. /\ req[w].at \in Editing /\ issued' = issued
        /\ rows' = [rows EXCEPT ![req[w].id] = [answer |-> req[w].form, agent |-> req[w].agent]]
        /\ away' = [away EXCEPT ![req[w].id] = None]
        /\ \A v \in Workers : req'[v].at \in Editing => req[v].at \in Editing
              /\ req'[v].id = req[v].id /\ req'[v].agent = req[v].agent
    BY <1>0, <1>4 DEF EditSave, SiteSave, SaveRow, Request, Idle
  <2>2. CASE req[w].id = i
    <3>1. rows'[i] = [answer |-> req[w].form, agent |-> req[w].agent] /\ away'[i] = None
      BY <1>0, <2>1, <2>2
    <3>3. rows'[i].agent = b
      BY <2>1, <2>2, <3>1 DEF Leads
    <3>4. i \in issued' /\ (i \in Stored' => rows'[i].agent = b) /\ i \notin Away'
      BY <2>1, <3>1, <3>3 DEF Leads, Away
    <3>7. \A v \in Workers : req'[v].at \in Editing /\ req'[v].id = i => req'[v].agent = b
      BY <2>1 DEF Leads
    <3>. QED BY <3>4, <3>7 DEF Leads
  <2>3. CASE req[w].id # i
    <3>1. rows'[i] = rows[i] /\ away'[i] = away[i]
      BY <1>0, <2>1, <2>3
    <3>. QED BY <2>1, <3>1, LeadsOn DEF Stored, Away
  <2>. QED BY <2>2, <2>3
<1>5. ASSUME NEW w \in Workers,
             DeleteLog(w) \/ DeleteRow(w) \/ SiteFetch(w) \/ \E j \in Ids : SiteDelete(w, j)
      PROVE  Leads(i, b)'
  <2>1. /\ issued' = issued
        /\ \A j \in Ids : /\ rows'[j] = rows[j] \/ rows'[j] = None
                          /\ away'[j] = away[j] \/ away'[j] = None
    BY <1>0, <1>5 DEF DeleteLog, DeleteRow, SiteFetch, SiteDelete
  <2>2. \A v \in Workers : req'[v].at \in Editing => req[v].at \in Editing
              /\ req'[v].id = req[v].id /\ req'[v].agent = req[v].agent
    BY <1>0, <1>5 DEF DeleteLog, DeleteRow, SiteFetch, SiteDelete, Request, Idle
  <2>3. /\ i \in Stored' => i \in Stored /\ rows'[i].agent = rows[i].agent
        /\ i \in Away' => i \in Away /\ away'[i] = away[i]
    BY <2>1 DEF Stored, Away
  <2>. QED BY <2>1, <2>2, <2>3, LeadsOn
<1>6. ASSUME NEW w \in Workers, SiteMove(w) PROVE Leads(i, b)'
  <2>1. /\ req[w].at \in Editing /\ issued' = issued
        /\ rows' = [rows EXCEPT ![req[w].id] = None]
        /\ away' = [away EXCEPT ![req[w].id] = req[w].agent]
        /\ \A v \in Workers : req'[v].at \in Editing => req[v].at \in Editing
              /\ req'[v].id = req[v].id /\ req'[v].agent = req[v].agent
    BY <1>0, <1>6 DEF SiteMove, Request, Idle
  <2>2. i \in Stored' => rows'[i].agent = b
    BY <1>0, <2>1 DEF Leads, Stored
  <2>3. i \in Away' => away'[i] = b
    BY <1>0, <2>1 DEF Leads, Away
  <2>. QED BY <2>1, <2>2, <2>3 DEF Leads
<1>7. ASSUME Environment \/ UNCHANGED vars PROVE Leads(i, b)'
  <2>1. /\ issued' = issued /\ req' = req
        /\ \A j \in Ids : /\ rows'[j] = rows[j] \/ rows'[j] = None
                          /\ away'[j] = away[j] \/ away'[j] = None
    BY <1>0, <1>7 DEF Environment, SaveEvent, DeleteEvent, DeleteOther, Tick, vars
  <2>2. /\ i \in Stored' => i \in Stored /\ rows'[i].agent = rows[i].agent
        /\ i \in Away' => i \in Away /\ away'[i] = away[i]
    BY <2>1 DEF Stored, Away
  <2>. QED BY <2>1, <2>2, LeadsOn
<1>. QED BY <1>1, <1>2, <1>3, <1>4, <1>5, <1>6, <1>7
         DEF Next, CrashFreeNext, GuestStep, AdminStep

LEMMA CookieStep ==
  ASSUME TypeInv, CookieInv, [Next]_vars
  PROVE  CookieInv'
<1>. USE DEF dbVars, history
<1>0. /\ req \in [Workers -> Request] /\ cookie \in [Browsers -> Ids \cup {None}]
      /\ rows \in [Ids -> Row \cup {None}]
  BY DEF TypeInv, TypeOK
<1>1. ASSUME NEW w \in Workers, NEW c \in Browsers, NEW f \in Forms, Post(w, c, f),
             NEW b \in Browsers, NEW i \in Ids, Holds(b, i)'
      PROVE  Holds(b, i)
  <2>1. /\ req'[w].at = "posted" /\ req'[w].cookie = cookie[c] /\ req'[w].agent = c
        /\ cookie' = cookie /\ \A v \in Workers \ {w} : req'[v] = req[v]
    BY <1>0, <1>1 DEF Post, Idle
  <2>. QED BY <1>1, <2>1 DEF Holds
<1>2. ASSUME NEW w \in Workers, NEW j \in Ids, Store(w, j),
             NEW b \in Browsers, NEW i \in Ids, Holds(b, i)'
      PROVE  Holds(b, i) \/ Leads(i, b)'
  <2>1. /\ req'[w].at = "stored" /\ req'[w].id = j /\ req'[w].agent = req[w].agent
        /\ cookie' = cookie /\ \A v \in Workers \ {w} : req'[v] = req[v]
        /\ j \notin issued /\ issued' = issued \cup {j} /\ rows'[j].agent = req[w].agent
        /\ j \notin Away'
    BY <1>0, <1>2 DEF Store, Idle, TypeInv, Away
  <2>2. Leads(j, req[w].agent)'
    <3>1. \A v \in Workers : req'[v].at \in Editing => req'[v].id # j
      BY <2>1 DEF Editing, TypeInv, RequestOK
    <3>. QED BY <2>1, <3>1 DEF Leads
  <2>. QED BY <1>2, <2>1, <2>2 DEF Holds, Leads
<1>3. ASSUME NEW w \in Workers, Respond(w), NEW b \in Browsers, NEW i \in Ids, Holds(b, i)'
      PROVE  Holds(b, i)
  <2>1. /\ req[w].at = "stored" /\ cookie' = [cookie EXCEPT ![req[w].agent] = req[w].id]
        /\ req'[w].at = "idle" /\ \A v \in Workers \ {w} : req'[v] = req[v]
    BY <1>0, <1>3 DEF Respond, Idle
  <2>. QED BY <1>0, <1>3, <2>1 DEF Holds
<1>4. ASSUME NEW w \in Workers,
             \/ Refuse(w) \/ Check(w) \/ StoreFails(w) \/ AdminStep(w) \/ Crash(w),
             NEW b \in Browsers, NEW i \in Ids, Holds(b, i)'
      PROVE  Holds(b, i)
  <2>1. /\ req'[w].at \notin {"posted", "stored"} \/ req' = req
        /\ \A v \in Workers \ {w} : req'[v] = req[v]
    <3>1. CASE Refuse(w) \/ StoreFails(w) \/ AdminFails(w) \/ Crash(w)
      BY <1>0, <3>1 DEF Refuse, StoreFails, AdminFails, Crash, Idle
    <3>2. CASE Check(w)
      BY <1>0, <3>2 DEF Check, Idle
    <3>3. ASSUME NEW j \in Ids, NEW g \in Edits, EditLoad(w, j, g) \/ SiteLoad(w, j, g)
          PROVE  req'[w].at \in Editing /\ \A v \in Workers \ {w} : req'[v] = req[v]
      BY <1>0, <3>3 DEF EditLoad, SiteLoad, Idle, Editing
    <3>4. CASE EditLog(w) \/ DeleteRow(w) \/ SiteSave(w) \/ SiteMove(w)
      BY <1>0, <3>4 DEF EditLog, DeleteRow, SiteSave, SiteMove, Idle
    <3>5. CASE EditSave(w) \/ DeleteLog(w)
      <4>1. \/ req' = [req EXCEPT ![w].at = "edit_saved"]
            \/ req' = [req EXCEPT ![w].at = "delete_logged"]
        BY <3>5 DEF EditSave, DeleteLog
      <4>. QED BY <1>0, <4>1 DEF Request
    <3>6. CASE SiteFetch(w)
      <4>1. /\ req[w] \in Request /\ \A v \in Workers \ {w} : req'[v] = req[v]
            /\ req'[w] = IF req[w].id \in Stored \cup Away THEN [req[w] EXCEPT !.at = "site_fetched"]
                                                ELSE Idle
        BY <1>0, <3>6 DEF SiteFetch
      <4>2. CASE req[w].id \in Stored \cup Away
        <5>1. req'[w] = [req[w] EXCEPT !.at = "site_fetched"]
          BY <4>1, <4>2
        <5>2. req'[w].at = "site_fetched"
          BY <4>1, <5>1 DEF Request
        <5>. QED BY <4>1, <5>2
      <4>3. CASE req[w].id \notin Stored \cup Away
        BY <4>1, <4>3 DEF Idle
      <4>. QED BY <4>2, <4>3
    <3>7. ASSUME NEW j \in Ids, DeleteLoad(w, j)
          PROVE  req'[w].at = "delete_loaded" /\ \A v \in Workers \ {w} : req'[v] = req[v]
      BY <1>0, <3>7 DEF DeleteLoad, Idle
    <3>8. CASE \E j \in Ids : SiteDelete(w, j)
      BY <3>8 DEF SiteDelete
    <3>. QED BY <1>4, <3>1, <3>2, <3>3, <3>4, <3>5, <3>6, <3>7, <3>8
         DEF AdminStep, Editing
  <2>2. cookie' = cookie
    BY <1>4 DEF Refuse, Check, StoreFails, AdminStep, Crash, EditLoad, EditSave, EditLog,
                DeleteLoad, DeleteLog, DeleteRow, SiteLoad, SiteFetch, SiteSave, SiteMove,
                SiteDelete, AdminFails
  <2>. QED BY <1>4, <2>1, <2>2 DEF Holds
<1>5. ASSUME Environment \/ UNCHANGED vars, NEW b \in Browsers, NEW i \in Ids, Holds(b, i)'
      PROVE  Holds(b, i)
  BY <1>5 DEF Environment, SaveEvent, DeleteEvent, DeleteOther, Tick, vars, Holds
<1>6. ASSUME NEW b \in Browsers, NEW i \in Ids, Holds(b, i)' PROVE Holds(b, i) \/ Leads(i, b)'
  BY <1>1, <1>2, <1>3, <1>4, <1>5, <1>6 DEF Next, CrashFreeNext, GuestStep
<1>. QED BY <1>6, LeadsStep DEF CookieInv

(* existing_registration's last resort, for answers without contacts, is   *)
(* the browser's token: it leads to an answer this browser has sent, so    *)
(* that nobody is turned away for another guest of the same name.          *)
OwnAnswersOnly ==
  /\ \A b \in Browsers : cookie[b] \in Stored => rows[cookie[b]].agent = b
  /\ \A w \in Workers :
       LET f == CleanForm(req[w].form) IN
       req[w].at = "posted" /\ ~HasContact(f) /\ ExistingRegistration(f, req[w].cookie)
         => \E i \in Stored : rows[i].agent = req[w].agent /\ rows[i].answer.name = f.name

(* The cookie event_page sets is the edit_token of the answer it stored:   *)
(* no edit, deletion, move or stale copy makes it lead to another guest's. *)
THEOREM CookiesLeadHome == Spec => []OwnAnswersOnly
<1>1. Init => CookieInv
  BY NoneAssumption DEF Init, CookieInv, Holds, Idle
<1>2. ASSUME TypeInv, CookieInv PROVE OwnAnswersOnly
  <2>1. \A b \in Browsers : cookie[b] \in Stored => rows[cookie[b]].agent = b
    BY <1>2 DEF CookieInv, Holds, Leads, Stored
  <2>2. ASSUME NEW w \in Workers, req[w].at = "posted",
               ~HasContact(CleanForm(req[w].form)),
               ExistingRegistration(CleanForm(req[w].form), req[w].cookie)
        PROVE  \E i \in Stored : /\ rows[i].agent = req[w].agent
                                 /\ rows[i].answer.name = CleanForm(req[w].form).name
    <3>1. PICK i \in Stored : i = req[w].cookie
                              /\ rows[i].answer.name = CleanForm(req[w].form).name
      BY <2>2 DEF ExistingRegistration
    <3>2. req[w].agent \in Browsers /\ i \in Ids
      BY <1>2, <2>2 DEF TypeInv, RequestOK, Stored
    <3>3. Leads(i, req[w].agent)
      BY <1>2, <2>2, <3>1, <3>2 DEF CookieInv, Holds
    <3>. QED BY <3>1, <3>3 DEF Leads
  <2>. QED BY <2>1, <2>2 DEF OwnAnswersOnly
<1>. QED BY <1>1, <1>2, CookieStep, TypesAndRequests, PTL DEF Spec
=============================================================================
