---------------------------- MODULE EventsProofs ----------------------------
(***************************************************************************)
(* Titles, pages and the audit log of events, however requests overlap and *)
(* whatever crashes.                                                       *)
(***************************************************************************)
EXTENDS EventsHistory, TLAPS

(* What the steps of a request may rely on.                                *)
RowSteps == {"form_loaded", "form_fetched", "bulk_saved", "page_loaded"}
IdSteps == RowSteps \cup {"delete_loaded", "bulk_delete_logged", "page_shown"}

RequestTypes(r) ==
  /\ r.at \in IdSteps => r.id \in Ids
  /\ r.at \in RowSteps => r.row \in Row
  /\ r.at \in {"form_fetched", "bulk_saved", "delete_loaded"} => r.old \in Row
  /\ r.at \in {"bulk", "bulk_saved"} => r.to \in BulkStatuses

TypeInv == TypeOK /\ \A w \in Workers : RequestTypes(req[w])

(* A page is read, shown or sent.                                          *)
LEMMA PageReads ==
  ASSUME NEW w \in Workers, PageStep(w)
  PROVE  \/ \E i \in Ids, language \in Languages : ReadPage(w, i, language)
         \/ PageShow(w) \/ PageSent(w)
BY DEF PageStep, PageLoad, ThanksLoad, Stored

(* An action on req replaces the request of one worker, or ends it.        *)
LEMMA NewRequest ==
  ASSUME TypeInv, NEW w \in Workers, NEW r \in Request, RequestTypes(r),
         req' = [req EXCEPT ![w] = r]
  PROVE  req' \in [Workers -> Request] /\ \A v \in Workers : RequestTypes(req'[v])
BY DEF TypeInv, TypeOK

LEMMA IdleRequest ==
  /\ Idle \in Request /\ RequestTypes(Idle) /\ Idle.at = "idle"
  /\ Nothing \in [Ids -> Row \cup {None}]
BY DEF Idle, Request, RequestTypes, Steps, Statuses, Nothing, Untitled, Content, IdSteps, RowSteps

LEMMA UntitledContent == Untitled \in Content
BY DEF Untitled, Content

LEMMA FinishTypes ==
  ASSUME TypeInv, NEW w \in Workers, Finish(w)
  PROVE  req' \in [Workers -> Request] /\ \A v \in Workers : RequestTypes(req'[v])
BY IdleRequest, NewRequest DEF Finish

LEMMA RowFacts ==
  /\ \A f \in Forms, p \in BOOLEAN : Columns(f, p) \in Row
  /\ \A r, s \in Row : Stamped(r, s) \in Row
  /\ \A r \in Row, s \in BulkStatuses : Changed(r, s) \in Row
  /\ \A r \in Row : r # None /\ r.published \in BOOLEAN
<1>1. \A f \in Forms, p \in BOOLEAN : Columns(f, p) \in Row
  BY ConstantAssumption DEF Columns, Row, Form
<1>2. \A r, s \in Row : Stamped(r, s) \in Row
  BY DEF Stamped, Row
<1>3. \A r \in Row, s \in BulkStatuses : Changed(r, s) \in Row
  BY DEF Changed, Row, BulkStatuses, Statuses
<1>4. \A r \in Row : r # None /\ r.published \in BOOLEAN
  BY ConstantAssumption DEF Row
<1> QED BY <1>1, <1>2, <1>3, <1>4

(* Entries have the type the log has.                                      *)
Logged == Row \cup Snapshot \cup {None}
Entries == [action: Actions, id: Ids, old: Logged, new: Logged]

LEMMA EntryFacts ==
  /\ \A a \in Actions, i \in Ids, old, new \in Logged : Entry(a, i, old, new) \in Entries
  /\ \A r, s \in Row : ActionOf(r, s) \in Actions
  /\ \A s \in BulkStatuses : BulkAction(s) \in Actions
  /\ \A i \in Ids, old \in Snapshot \cup {None}, new \in Content :
       ContentUpdated(i, old, new) \in Entries
<1>1. \A a \in Actions, i \in Ids, old, new \in Logged : Entry(a, i, old, new) \in Entries
  BY DEF Entry, Entries
<1>2. \A r, s \in Row : ActionOf(r, s) \in Actions
  BY DEF ActionOf, Actions
<1>3. \A s \in BulkStatuses : BulkAction(s) \in Actions
  BY DEF BulkAction, Actions, BulkStatuses
<1>4. \A i \in Ids, old \in Snapshot \cup {None}, new \in Content :
        ContentUpdated(i, old, new) \in Entries
  BY DEF ContentUpdated, Entry, Entries, Actions, Logged, Snapshot
<1> QED BY <1>1, <1>2, <1>3, <1>4

LEMMA TypeInit == Init => TypeInv
BY IdleRequest, UntitledContent, ConstantAssumption DEF Init, TypeInv, TypeOK, Nothing

LEMMA TypeStep == TypeInv /\ [Next]_vars => TypeInv'
<1> SUFFICES ASSUME TypeInv, [Next]_vars PROVE TypeInv'
  OBVIOUS
<1> USE DEF table, Begin, Stored
<1> DEFINE ReqOK == req' \in [Workers -> Request] /\ \A v \in Workers : RequestTypes(req'[v])
<1>0. ASSUME ReqOK,
             events' \in [Ids -> Row \cup {None}], texts' \in [Ids -> Content],
             issued' \subseteq Ids, audit' \subseteq Entries, begun' \in 0..MaxRequests
      PROVE  TypeInv'
  BY <1>0 DEF TypeInv, TypeOK, Entries, Logged
<1>types. /\ begun \in 0..MaxRequests /\ MaxRequests \in Nat
      /\ events \in [Ids -> Row \cup {None}] /\ texts \in [Ids -> Content]
      /\ issued \subseteq Ids /\ audit \subseteq Entries /\ req \in [Workers -> Request]
      /\ \A w \in Workers : RequestTypes(req[w])
  BY ConstantAssumption DEF TypeInv, TypeOK, Entries, Logged
(* What save_translations leaves is what a translation can be.             *)
<1>texts. ASSUME NEW i \in Ids, NEW languages, NEW submitted \in Content
          PROVE  Translations(i, languages, submitted) \in Content
  BY <1>types DEF Translations, Content
<1>begin. \A w \in Workers : Begin(w) => begun' \in 0..MaxRequests
  BY <1>types
<1>1. ASSUME NEW w \in Workers, NEW i \in Ids, NEW f \in Forms, Add(w, i, f) PROVE TypeInv'
  <2> DEFINE row == Columns(f, f.status = "published")
             new == Translations(i, f.languages, f.texts)
             entries == {Entry("event_created", i, None, row), ContentUpdated(i, None, new)}
  <2>1. row \in Row /\ new \in Content
    BY <1>texts, RowFacts, ConstantAssumption DEF Form
  <2>2. entries \subseteq Entries
    BY <2>1, EntryFacts DEF Actions, Logged
  <2>3. /\ events' = [events EXCEPT ![i] = row] /\ texts' = [texts EXCEPT ![i] = new]
        /\ audit' = audit \cup entries /\ issued' = issued \cup {i} /\ req' = req
    BY <1>1 DEF Add
  <2> HIDE DEF row, new, entries
  <2> QED BY <1>types, <1>begin, <1>0, <1>1, <2>1, <2>2, <2>3 DEF Add
<1>2. ASSUME NEW w \in Workers, NEW i \in Ids, NEW f \in Forms, ChangeLoad(w, i, f) PROVE TypeInv'
  <2> DEFINE row == Columns(f, events[i].published)
             r == [Idle EXCEPT !.at = "form_loaded", !.id = i, !.row = row,
                               !.texts = f.texts, !.read = texts[i]]
  <2>1. events[i] \in Row /\ row \in Row /\ f.texts \in Content /\ texts[i] \in Content
    BY <1>types, <1>2, RowFacts, ConstantAssumption DEF ChangeLoad, Form
  <2>2. req' = [req EXCEPT ![w] = r]
    BY <1>2 DEF ChangeLoad
  <2> HIDE DEF row
  <2>3. r \in Request /\ RequestTypes(r)
    BY <2>1, IdleRequest DEF Idle, Request, RequestTypes, Steps, IdSteps, RowSteps, Statuses
  <2>4. ReqOK
    BY <2>2, <2>3, NewRequest
  <2> QED BY <1>types, <1>begin, <1>0, <1>2, <2>4 DEF ChangeLoad
<1>3. ASSUME NEW w \in Workers, ChangeFetch(w) PROVE TypeInv'
  <2> DEFINE old == events[req[w].id]
             row == Stamped(req[w].row, old)
             r == [req[w] EXCEPT !.at = "form_fetched", !.old = old, !.row = row]
  <2>1. /\ req[w].id \in Ids /\ old \in Row /\ row \in Row /\ req[w] \in Request
    BY <1>types, <1>3, RowFacts DEF ChangeFetch, RequestTypes, RowSteps
  <2>2. req' = [req EXCEPT ![w] = r]
    BY <1>3 DEF ChangeFetch
  <2> HIDE DEF old, row
  <2>3. r \in Request /\ RequestTypes(r)
    BY <2>1 DEF Request, RequestTypes, Steps, IdSteps, RowSteps
  <2>4. ReqOK
    BY <2>2, <2>3, NewRequest
  <2> QED BY <1>types, <1>0, <1>3, <2>4 DEF ChangeFetch
<1>4. ASSUME NEW w \in Workers, ChangeSave(w) PROVE TypeInv'
  <2> DEFINE i == req[w].id
             row == req[w].row
             e == Entry(ActionOf(req[w].old, row), i, req[w].old, row)
             new == Translations(i, row.languages, req[w].texts)
             content == ContentUpdated(i, [translations |-> texts[i]], new)
  <2>1. /\ i \in Ids /\ row \in Row /\ req[w].old \in Row
        /\ texts[i] \in Content /\ new \in Content
    BY <1>types, <1>texts, <1>4 DEF ChangeSave, RequestTypes, RowSteps, IdSteps, Request
  <2>2. e \in Entries
    BY <2>1, EntryFacts DEF Logged
  <2>3. content \in Entries
    BY <2>1, EntryFacts DEF Snapshot
  <2>4. /\ events' = [events EXCEPT ![i] = row] /\ texts' = [texts EXCEPT ![i] = new]
        /\ audit' \subseteq audit \cup {e, content} /\ UNCHANGED <<issued, begun>>
    BY <1>4 DEF ChangeSave
  <2>5. ReqOK
    BY <1>4, FinishTypes DEF ChangeSave
  <2> HIDE DEF e, row, i, new, content
  <2> QED BY <1>types, <1>0, <2>1, <2>2, <2>3, <2>4, <2>5
<1>5. ASSUME NEW w \in Workers, NEW selected \in SUBSET Ids, NEW status \in BulkStatuses,
             BulkLoad(w, selected, status) PROVE TypeInv'
  <2> DEFINE copies == [i \in Ids |-> IF i \in selected THEN events[i] ELSE None]
             r == [Idle EXCEPT !.at = "bulk", !.to = status, !.copies = copies]
  <2>1. copies \in [Ids -> Row \cup {None}] /\ status \in Statuses
    BY <1>types DEF BulkStatuses, Statuses
  <2> HIDE DEF copies
  <2>2. r \in Request /\ RequestTypes(r)
    <3>1. r \in Request
      BY <2>1, IdleRequest DEF Idle, Request, Steps
    <3>2. r.at = "bulk" /\ r.to = status
      BY DEF Idle
    <3> QED BY <3>1, <3>2 DEF RequestTypes, IdSteps, RowSteps
  <2>3. ReqOK
    BY <1>5, <2>2, NewRequest DEF BulkLoad, copies
  <2> QED BY <1>types, <1>begin, <1>0, <1>5, <2>3 DEF BulkLoad
<1>6. ASSUME NEW w \in Workers, NEW i \in Ids, BulkSave(w, i) PROVE TypeInv'
  <2> DEFINE row == Changed(req[w].copies[i], req[w].to)
             copies == [req[w].copies EXCEPT ![i] = None]
             r == [at |-> "bulk_saved", id |-> i, row |-> row, old |-> req[w].copies[i],
                   copies |-> copies, to |-> req[w].to, language |-> None, shown |-> None,
                   texts |-> Untitled, read |-> Untitled]
  <2>1. /\ req[w].copies[i] \in Row /\ req[w].to \in BulkStatuses /\ req[w].to \in Statuses
        /\ copies \in [Ids -> Row \cup {None}]
    BY <1>types, <1>6 DEF BulkSave, RequestTypes, Request
  <2>2. row \in Row
    BY <2>1, RowFacts
  <2>3. events' = [events EXCEPT ![i] = row] /\ req' = [req EXCEPT ![w] = r]
        /\ UNCHANGED <<texts, issued, audit, begun>>
    BY <1>6 DEF BulkSave
  <2> HIDE DEF copies, row
  <2>4. r \in Request /\ RequestTypes(r)
    BY <2>1, <2>2, UntitledContent DEF Request, RequestTypes, Steps, IdSteps, RowSteps
  <2>5. ReqOK
    BY <2>3, <2>4, NewRequest
  <2> QED BY <1>types, <1>0, <2>2, <2>3, <2>5
<1>proceed. ASSUME NEW w \in Workers, NEW at \in {"bulk", "bulk_delete"}, Proceed(w, at),
             at = "bulk" => req[w].to \in BulkStatuses
      PROVE  ReqOK
  <2> DEFINE r == [at |-> at, id |-> None, row |-> None, old |-> None,
                   copies |-> req[w].copies, to |-> req[w].to, language |-> None, shown |-> None,
                   texts |-> Untitled, read |-> Untitled]
  <2>1. req[w].copies \in [Ids -> Row \cup {None}] /\ req[w].to \in Statuses
    BY <1>types DEF Request
  <2>2. r \in Request /\ RequestTypes(r)
    BY <1>proceed, <2>1, UntitledContent DEF Request, RequestTypes, Steps, IdSteps, RowSteps
  <2>3. CASE req[w].copies = Nothing
    BY <1>proceed, <2>3, IdleRequest, NewRequest DEF Proceed
  <2>4. CASE req[w].copies # Nothing
    BY <1>proceed, <2>2, <2>4, NewRequest DEF Proceed
  <2> QED BY <2>3, <2>4
<1>7. ASSUME NEW w \in Workers, BulkLog(w) PROVE TypeInv'
  <2> DEFINE e == Entry(BulkAction(req[w].to), req[w].id, req[w].old, req[w].row)
  <2>1. /\ req[w].id \in Ids /\ req[w].row \in Row /\ req[w].old \in Row
        /\ req[w].to \in BulkStatuses
    BY <1>types, <1>7 DEF BulkLog, RequestTypes, RowSteps, IdSteps
  <2>2. e \in Entries
    BY <2>1, EntryFacts DEF Logged
  <2>3. audit' = audit \cup {e} /\ UNCHANGED <<events, texts, issued, begun>>
    BY <1>7 DEF BulkLog
  <2>4. ReqOK
    BY <1>7, <1>proceed, <2>1 DEF BulkLog
  <2> HIDE DEF e
  <2> QED BY <1>types, <1>0, <2>2, <2>3, <2>4
<1>8. ASSUME NEW w \in Workers, NEW i \in Ids, DeleteLoad(w, i) PROVE TypeInv'
  <2> DEFINE r == [Idle EXCEPT !.at = "delete_loaded", !.id = i, !.old = events[i]]
  <2>1. events[i] \in Row
    BY <1>types, <1>8 DEF DeleteLoad
  <2>2. r \in Request /\ RequestTypes(r)
    BY <2>1, IdleRequest DEF Idle, Request, RequestTypes, Steps, IdSteps, RowSteps, Statuses
  <2>3. ReqOK
    BY <1>8, <2>2, NewRequest DEF DeleteLoad
  <2> QED BY <1>types, <1>begin, <1>0, <1>8, <2>3 DEF DeleteLoad
<1>gone. ASSUME NEW i \in Ids, Gone(i)
      PROVE  /\ events' \in [Ids -> Row \cup {None}] /\ texts' \in [Ids -> Content]
             /\ issued' \subseteq Ids
  BY <1>types, <1>gone, UntitledContent DEF Gone
<1>9. ASSUME NEW w \in Workers, DeletePage(w) PROVE TypeInv'
  <2> DEFINE e == Entry("event_deleted", req[w].id, req[w].old, None)
  <2>1. req[w].id \in Ids /\ req[w].old \in Row
    BY <1>types, <1>9 DEF DeletePage, RequestTypes, IdSteps
  <2>2. e \in Entries
    BY <2>1, EntryFacts DEF Actions, Logged
  <2>3. audit' = audit \cup {e} /\ Gone(req[w].id) /\ begun' = begun
    BY <1>9 DEF DeletePage
  <2>4. ReqOK
    BY <1>9, FinishTypes DEF DeletePage
  <2> HIDE DEF e
  <2> QED BY <1>types, <1>0, <1>gone, <2>1, <2>2, <2>3, <2>4
<1>10. ASSUME NEW w \in Workers, NEW selected \in SUBSET Ids, BulkDeleteLoad(w, selected)
       PROVE TypeInv'
  <2> DEFINE copies == [i \in Ids |-> IF i \in selected THEN events[i] ELSE None]
             r == [Idle EXCEPT !.at = "bulk_delete", !.copies = copies]
  <2>1. copies \in [Ids -> Row \cup {None}]
    BY <1>types
  <2> HIDE DEF copies
  <2>2. r \in Request /\ RequestTypes(r)
    BY <2>1, IdleRequest DEF Idle, Request, RequestTypes, Steps, IdSteps, RowSteps, Statuses
  <2>3. ReqOK
    BY <1>10, <2>2, NewRequest DEF BulkDeleteLoad, copies
  <2> QED BY <1>types, <1>begin, <1>0, <1>10, <2>3 DEF BulkDeleteLoad
<1>11. ASSUME NEW w \in Workers, NEW i \in Ids, BulkDeleteLog(w, i) PROVE TypeInv'
  <2> DEFINE copies == [req[w].copies EXCEPT ![i] = None]
             r == [at |-> "bulk_delete_logged", id |-> i, row |-> None, old |-> None,
                   copies |-> copies, to |-> req[w].to, language |-> None, shown |-> None,
                   texts |-> Untitled, read |-> Untitled]
             e == Entry("event_deleted", i, req[w].copies[i], None)
  <2>1. /\ req[w].copies[i] \in Row /\ req[w].to \in Statuses
        /\ copies \in [Ids -> Row \cup {None}]
    BY <1>types, <1>11 DEF BulkDeleteLog, Request
  <2>2. e \in Entries
    BY <2>1, EntryFacts DEF Actions, Logged
  <2>3. audit' = audit \cup {e} /\ req' = [req EXCEPT ![w] = r]
        /\ UNCHANGED <<events, texts, issued, begun>>
    BY <1>11 DEF BulkDeleteLog
  <2> HIDE DEF copies, e
  <2>4. r \in Request /\ RequestTypes(r)
    BY <2>1, UntitledContent DEF Request, RequestTypes, Steps, IdSteps, RowSteps
  <2>5. ReqOK
    BY <2>3, <2>4, NewRequest
  <2> QED BY <1>types, <1>0, <2>2, <2>3, <2>5
<1>12. ASSUME NEW w \in Workers, BulkDeleteRow(w) PROVE TypeInv'
  <2>1. req[w].id \in Ids
    BY <1>types, <1>12 DEF BulkDeleteRow, RequestTypes, IdSteps
  <2>2. ReqOK
    BY <1>12, <1>proceed DEF BulkDeleteRow
  <2> QED BY <1>types, <1>0, <1>gone, <1>12, <2>1, <2>2 DEF BulkDeleteRow
<1>13. ASSUME NEW w \in Workers, NEW i \in Ids, NEW language \in Languages,
              ReadPage(w, i, language) PROVE TypeInv'
  <2> DEFINE r == [Idle EXCEPT !.at = "page_loaded", !.id = i, !.row = events[i],
                               !.language = language]
  <2>1. events[i] \in Row
    BY <1>types, <1>13 DEF ReadPage
  <2>2. r \in Request /\ RequestTypes(r)
    BY <2>1, IdleRequest DEF Idle, Request, RequestTypes, Steps, IdSteps, RowSteps, Statuses
  <2>3. ReqOK
    BY <1>13, <2>2, NewRequest DEF ReadPage
  <2> QED BY <1>types, <1>begin, <1>0, <1>13, <2>3 DEF ReadPage
<1>14. ASSUME NEW w \in Workers, PageShow(w) PROVE TypeInv'
  <2>1. req[w].id \in Ids /\ req[w].row \in Row /\ req[w].language \in Languages \cup {None}
    BY <1>types, <1>14 DEF PageShow, RequestTypes, RowSteps, IdSteps, Request
  <2>2. PICK shown \in TranslationFor(req[w].id, req[w].row, req[w].language) :
          req' = [req EXCEPT ![w] = [Idle EXCEPT !.at = "page_shown", !.id = req[w].id,
                                     !.language = req[w].language, !.shown = shown]]
    BY <1>14 DEF PageShow
  <2>3. shown \in Languages \cup {None}
    BY <1>types, <2>1, <2>2 DEF TranslationFor, titled
  <2> DEFINE r == [Idle EXCEPT !.at = "page_shown", !.id = req[w].id,
                               !.language = req[w].language, !.shown = shown]
  <2>4. r \in Request /\ RequestTypes(r)
    BY <2>1, <2>3, IdleRequest DEF Idle, Request, RequestTypes, Steps, IdSteps, RowSteps, Statuses
  <2>5. ReqOK
    BY <2>2, <2>4, NewRequest
  <2> QED BY <1>types, <1>0, <1>14, <2>5 DEF PageShow
<1>15. ASSUME NEW w \in Workers, PageSent(w) \/ Fails(w) \/ Crash(w) PROVE TypeInv'
  <2>1. Finish(w) /\ UNCHANGED <<events, texts, issued, audit, begun>>
    BY <1>15 DEF PageSent, Fails, Crash
  <2> QED BY <1>types, <1>0, <2>1, FinishTypes
<1>16. ASSUME UNCHANGED vars PROVE TypeInv'
  BY <1>types, <1>0, <1>16 DEF vars
<1> QED
  BY <1>1, <1>2, <1>3, <1>4, <1>5, <1>6, <1>7, <1>8, <1>9, <1>10, <1>11, <1>12, <1>13,
     <1>14, <1>15, <1>16, PageReads
     DEF Next, FormStep, BulkStep, DeleteStep

(* Every variable keeps its type, and requests hold what their steps use.  *)
THEOREM TypesAndRequests == Spec => []TypeInv
BY TypeInit, TypeStep, PTL DEF Spec

(* TypeOK: every variable keeps its type.                                  *)
THEOREM TypeCorrect == Spec => []TypeOK
<1>1. TypeInv => TypeOK BY DEF TypeInv
<1> QED BY <1>1, TypesAndRequests, PTL

-----------------------------------------------------------------------------
(* A row somebody holds is as good as a stored one: its languages have     *)
(* titles, unless the event was deleted, and one of them is the default.   *)
(* The tables are parameters, so that a step can speak of the next ones.   *)
LoggedIn(log, i) == \E e \in log : e.action = "event_deleted" /\ e.id = i
KeptIn(titles, log, i, row) == row.languages \subseteq titles[i] \/ LoggedIn(log, i)
DefaultEnabled(row) == row.default_language \in row.languages
FormTitled(r) == \A l \in r.row.languages : r.texts[l] # None

HeldIn(titles, log, r) ==
  /\ r.at \in {"form_loaded", "form_fetched"} => DefaultEnabled(r.row) /\ FormTitled(r)
  /\ r.at = "bulk_delete_logged" => LoggedIn(log, r.id)
  /\ r.at = "page_loaded" =>
       KeptIn(titles, log, r.id, r.row) /\ r.language \in r.row.languages
  /\ r.at = "page_shown" => r.shown = r.language \/ LoggedIn(log, r.id)
  /\ \A i \in Ids : r.copies[i] # None =>
       KeptIn(titles, log, i, r.copies[i]) /\ DefaultEnabled(r.copies[i])

RowsKept ==
  \A i \in Stored : KeptIn(titled, audit, i, events[i]) /\ DefaultEnabled(events[i])

Inv ==
  /\ TypeInv /\ RowsKept
  /\ \A i \in issued \ Stored : LoggedIn(audit, i)
  /\ \A w \in Workers : HeldIn(titled, audit, req[w])

(* The log grows, and titles stay unless the log tells of a deletion.      *)
Grows ==
  /\ audit \subseteq audit'
  /\ \A i \in Ids : titled[i] \subseteq titled'[i] \/ LoggedIn(audit', i)

LEMMA SameTitles == texts' = texts => titled' = titled
BY DEF titled

(* What the forms write: titles for their languages, and none are lost.    *)
LEMMA WrittenTitles ==
  ASSUME TypeInv, NEW i \in Ids, NEW languages \in SUBSET Languages, NEW submitted,
         texts' = [texts EXCEPT ![i] = Translations(i, languages, submitted)],
         \A l \in languages : submitted[l] # None
  PROVE  /\ languages \subseteq titled'[i]
         /\ \A j \in Ids : titled[j] \subseteq titled'[j]
<1>1. texts \in [Ids -> Content]
  BY DEF TypeInv, TypeOK
<1>2. texts'[i] = Translations(i, languages, submitted) /\ \A j \in Ids \ {i} : texts'[j] = texts[j]
  BY <1>1
<1>3. \A l \in Languages : texts'[i][l] = IF l \in languages THEN submitted[l] ELSE texts[i][l]
  BY <1>2 DEF Translations
<1> QED BY <1>2, <1>3 DEF titled

LEMMA KeptStable ==
  ASSUME Grows
  PROVE  /\ \A i : LoggedIn(audit, i) => LoggedIn(audit', i)
         /\ \A row : \A i \in Ids : KeptIn(titled, audit, i, row) => KeptIn(titled', audit', i, row)
<1>1. \A i : LoggedIn(audit, i) => LoggedIn(audit', i)
  BY DEF Grows, LoggedIn
<1>2. ASSUME NEW i \in Ids, NEW row, KeptIn(titled, audit, i, row)
      PROVE  KeptIn(titled', audit', i, row)
  BY <1>1, <1>2 DEF Grows, KeptIn
<1> QED BY <1>1, <1>2

LEMMA HeldStable ==
  ASSUME Grows, NEW r, RequestTypes(r), HeldIn(titled, audit, r)
  PROVE  HeldIn(titled', audit', r)
<1>1. r.at = "page_loaded" => r.id \in Ids
  BY DEF RequestTypes, RowSteps, IdSteps
<1> QED BY <1>1, KeptStable DEF HeldIn

LEMMA HeldIdle == HeldIn(titled, audit, Idle) /\ HeldIn(titled', audit', Idle)
BY DEF HeldIn, Idle, Nothing

(* What a step of worker w has to show.                                    *)
LEMMA Assemble ==
  ASSUME Inv, TypeInv', Grows, NEW w \in Workers, HeldIn(titled', audit', req'[w]),
         \A v \in Workers \ {w} : req'[v] = req[v],
         \A i \in Stored' :
            \/ i \in Stored /\ events'[i] = events[i]
            \/ KeptIn(titled', audit', i, events'[i]) /\ DefaultEnabled(events'[i]),
         \A i \in issued' \ Stored' : i \in issued \ Stored \/ LoggedIn(audit', i)
  PROVE  Inv'
<1>1. \A v \in Workers : HeldIn(titled', audit', req'[v])
  BY HeldStable DEF Inv, TypeInv
<1>2. \A i \in Stored' : KeptIn(titled', audit', i, events'[i]) /\ DefaultEnabled(events'[i])
  <2> SUFFICES ASSUME NEW i \in Stored'
               PROVE  KeptIn(titled', audit', i, events'[i]) /\ DefaultEnabled(events'[i])
    OBVIOUS
  <2>1. i \in Ids
    BY DEF Stored
  <2>2. CASE i \in Stored /\ events'[i] = events[i]
    BY <2>1, <2>2, KeptStable DEF Inv, RowsKept
  <2> QED BY <2>2
<1>3. \A i \in issued' \ Stored' : LoggedIn(audit', i)
  BY KeptStable DEF Inv
<1> QED BY <1>1, <1>2, <1>3 DEF Inv, RowsKept

LEMMA RowKept ==
  /\ \A f \in Forms, p \in BOOLEAN :
       Columns(f, p).languages = f.languages /\ Columns(f, p).default_language = f.default_language
  /\ \A r, s \in Row : /\ Stamped(r, s).languages = r.languages
                       /\ Stamped(r, s).default_language = r.default_language
  /\ \A r \in Row, s \in BulkStatuses : /\ Changed(r, s).languages = r.languages
                                      /\ Changed(r, s).default_language = r.default_language
BY DEF Columns, Stamped, Changed, Row

LEMMA InvInit == Init => Inv
<1> SUFFICES ASSUME Init PROVE Inv
  OBVIOUS
<1> QED BY TypeInit, HeldIdle DEF Init, Inv, RowsKept, Stored, Nothing

LEMMA InvStep == Inv /\ [Next]_vars => Inv'
<1> SUFFICES ASSUME Inv, [Next]_vars PROVE Inv'
  OBVIOUS
<1> USE DEF Stored, Begin, table
<1>types. /\ TypeInv /\ TypeInv' /\ req \in [Workers -> Request]
          /\ events \in [Ids -> Row \cup {None}]
          /\ issued \subseteq Ids
          /\ \A w \in Workers : RequestTypes(req[w]) /\ HeldIn(titled, audit, req[w])
          /\ \A i \in Stored : KeptIn(titled, audit, i, events[i]) /\ DefaultEnabled(events[i])
  BY TypeStep DEF Inv, TypeInv, TypeOK, RowsKept
(* A step that only loads, or ends a request.                              *)
<1>read. ASSUME NEW w \in Workers, NEW r, req' = [req EXCEPT ![w] = r],
                UNCHANGED <<events, texts, issued, audit>>, HeldIn(titled, audit, r)
         PROVE  Inv'
  <2>1. req'[w] = r /\ \A v \in Workers \ {w} : req'[v] = req[v]
    BY <1>read, <1>types
  <2>2. Grows /\ HeldIn(titled', audit', req'[w])
    BY <1>read, <2>1, SameTitles DEF Grows
  <2>3. /\ \A i \in Stored' : i \in Stored /\ events'[i] = events[i]
        /\ \A i \in issued' \ Stored' : i \in issued \ Stored
    BY <1>read
  <2> QED BY <1>types, <2>1, <2>2, <2>3, Assemble
<1>1. ASSUME NEW w \in Workers, NEW i \in Ids, NEW f \in Forms, Add(w, i, f) PROVE Inv'
  <2> DEFINE row == Columns(f, f.status = "published")
  <2>1. /\ events' = [events EXCEPT ![i] = row]
        /\ texts' = [texts EXCEPT ![i] = Translations(i, f.languages, f.texts)]
        /\ audit \subseteq audit' /\ issued' = issued \cup {i} /\ req' = req
        /\ f.default_language \in f.languages /\ \A l \in f.languages : f.texts[l] # None
        /\ f.languages \in SUBSET Languages
    BY <1>1, ConstantAssumption DEF Add, Valid, FormClean, Form
  <2>2. row.languages = f.languages /\ row.default_language = f.default_language /\ row # None
    BY RowKept, RowFacts
  <2> HIDE DEF row
  <2>3. f.languages \subseteq titled'[i] /\ \A j \in Ids : titled[j] \subseteq titled'[j]
    BY <1>types, <2>1, WrittenTitles
  <2>4. Grows
    BY <2>1, <2>3 DEF Grows
  <2>5. /\ events'[i] = row /\ row # None /\ \A j \in Ids \ {i} : events'[j] = events[j]
        /\ KeptIn(titled', audit', i, row) /\ DefaultEnabled(row)
    BY <1>types, <2>1, <2>2, <2>3 DEF KeptIn, DefaultEnabled
  <2>6. HeldIn(titled', audit', req'[w])
    BY <1>types, <2>1, <2>4, HeldStable
  <2> QED BY <1>types, <2>1, <2>4, <2>5, <2>6, Assemble
<1>2. ASSUME NEW w \in Workers, NEW i \in Ids, NEW f \in Forms, ChangeLoad(w, i, f) PROVE Inv'
  <2> DEFINE row == Columns(f, events[i].published)
             r == [Idle EXCEPT !.at = "form_loaded", !.id = i, !.row = row,
                               !.texts = f.texts, !.read = texts[i]]
  <2>1. /\ events[i] \in Row /\ f.default_language \in f.languages
        /\ \A l \in f.languages : f.texts[l] # None
    BY <1>types, <1>2 DEF ChangeLoad, Valid, FormClean
  <2>2. DefaultEnabled(row) /\ row.languages = f.languages
    BY <2>1, RowKept, RowFacts DEF DefaultEnabled
  <2>3. req' = [req EXCEPT ![w] = r] /\ UNCHANGED <<events, texts, issued, audit>>
    BY <1>2 DEF ChangeLoad
  <2> HIDE DEF row
  <2>4. HeldIn(titled, audit, r)
    BY <2>1, <2>2 DEF HeldIn, FormTitled, Idle, Nothing
  <2> QED BY <1>read, <2>3, <2>4
<1>3. ASSUME NEW w \in Workers, ChangeFetch(w) PROVE Inv'
  <2> DEFINE old == events[req[w].id]
             row == Stamped(req[w].row, old)
             r == [req[w] EXCEPT !.at = "form_fetched", !.old = old, !.row = row]
  <2>1. /\ req[w].row \in Row /\ old \in Row /\ DefaultEnabled(req[w].row) /\ FormTitled(req[w])
        /\ req[w] \in Request
    BY <1>types, <1>3 DEF ChangeFetch, RequestTypes, RowSteps, IdSteps, HeldIn
  <2>2. DefaultEnabled(row) /\ row.languages = req[w].row.languages
    BY <2>1, RowKept DEF DefaultEnabled
  <2>3. req' = [req EXCEPT ![w] = r] /\ UNCHANGED <<events, texts, issued, audit>>
    BY <1>3 DEF ChangeFetch
  <2> HIDE DEF row, old
  <2>4. /\ r.at = "form_fetched" /\ r.row = row /\ r.texts = req[w].texts
        /\ r.copies = req[w].copies
    BY <2>1 DEF Request
  <2> HIDE DEF r
  <2>5. HeldIn(titled, audit, r)
    BY <1>types, <2>1, <2>2, <2>4 DEF HeldIn, FormTitled
  <2> QED BY <1>read, <2>3, <2>5
<1>4. ASSUME NEW w \in Workers, ChangeSave(w) PROVE Inv'
  <2> DEFINE i == req[w].id
             row == req[w].row
  <2>1. /\ i \in Ids /\ row \in Row /\ row # None /\ DefaultEnabled(row)
        /\ row.languages \in SUBSET Languages /\ \A l \in row.languages : req[w].texts[l] # None
    BY <1>types, <1>4, RowFacts
       DEF ChangeSave, RequestTypes, RowSteps, IdSteps, HeldIn, FormTitled, Row
  <2>2. /\ events' = [events EXCEPT ![i] = row] /\ audit \subseteq audit' /\ issued' = issued
        /\ texts' = [texts EXCEPT ![i] = Translations(i, row.languages, req[w].texts)]
        /\ req' = [req EXCEPT ![w] = Idle]
    BY <1>4 DEF ChangeSave, Finish
  <2>3. HeldIn(titled', audit', req'[w]) /\ \A v \in Workers \ {w} : req'[v] = req[v]
    BY <1>types, <2>2, HeldIdle
  <2> HIDE DEF i, row
  <2>4. row.languages \subseteq titled'[i] /\ \A j \in Ids : titled[j] \subseteq titled'[j]
    BY <1>types, <2>1, <2>2, WrittenTitles
  <2>5. Grows
    BY <2>2, <2>4 DEF Grows
  <2>6. /\ events'[i] = row /\ \A j \in Ids \ {i} : events'[j] = events[j]
        /\ KeptIn(titled', audit', i, row)
    BY <1>types, <2>1, <2>2, <2>4 DEF KeptIn
  <2> QED BY <1>types, <2>1, <2>2, <2>3, <2>5, <2>6, Assemble
(* What a bulk action loads is as good as it was in the table.             *)
<1>copies. ASSUME NEW selected \in SUBSET Ids, NEW copies, NEW r,
                  copies = [i \in Ids |-> IF i \in selected THEN events[i] ELSE None],
                  r.at \in {"bulk", "bulk_delete"}, r.copies = copies
           PROVE  HeldIn(titled, audit, r)
  <2>1. \A i \in Ids : copies[i] # None =>
          KeptIn(titled, audit, i, copies[i]) /\ DefaultEnabled(copies[i])
    BY <1>types, <1>copies
  <2> QED BY <1>copies, <2>1 DEF HeldIn
<1>5. ASSUME NEW w \in Workers, NEW selected \in SUBSET Ids, NEW status \in BulkStatuses,
             BulkLoad(w, selected, status) PROVE Inv'
  <2> DEFINE copies == [i \in Ids |-> IF i \in selected THEN events[i] ELSE None]
             r == [Idle EXCEPT !.at = "bulk", !.to = status, !.copies = copies]
  <2>1. req' = [req EXCEPT ![w] = r] /\ UNCHANGED <<events, texts, issued, audit>>
    BY <1>5 DEF BulkLoad
  <2>2. r.at = "bulk" /\ r.copies = copies
    BY DEF Idle
  <2>3. HeldIn(titled, audit, r)
    BY <1>copies, <2>2
  <2> HIDE DEF r
  <2> QED BY <1>read, <2>1, <2>3
<1>6. ASSUME NEW w \in Workers, NEW i \in Ids, BulkSave(w, i) PROVE Inv'
  <2> DEFINE copy == req[w].copies[i]
             row == Changed(copy, req[w].to)
             copies == [req[w].copies EXCEPT ![i] = None]
             r == [at |-> "bulk_saved", id |-> i, row |-> row, old |-> copy,
                   copies |-> copies, to |-> req[w].to, language |-> None, shown |-> None,
                   texts |-> Untitled, read |-> Untitled]
  <2>1. /\ copy \in Row /\ req[w].to \in BulkStatuses
        /\ KeptIn(titled, audit, i, copy) /\ DefaultEnabled(copy)
    BY <1>types, <1>6 DEF BulkSave, RequestTypes, HeldIn, Request
  <2>2. row \in Row /\ row # None /\ row.languages = copy.languages /\ DefaultEnabled(row)
    BY <2>1, RowKept, RowFacts DEF DefaultEnabled
  <2>3. /\ events' = [events EXCEPT ![i] = row] /\ UNCHANGED <<texts, issued, audit>>
        /\ req' = [req EXCEPT ![w] = r]
    BY <1>6 DEF BulkSave
  <2>4. \A j \in Ids : copies[j] # None =>
          KeptIn(titled, audit, j, copies[j]) /\ DefaultEnabled(copies[j])
    BY <1>types DEF HeldIn, Request
  <2> HIDE DEF copies, row, copy
  <2>5. HeldIn(titled, audit, r)
    BY <2>4 DEF HeldIn
  <2>6. /\ req'[w] = r /\ \A v \in Workers \ {w} : req'[v] = req[v]
        /\ events'[i] = row /\ \A j \in Ids \ {i} : events'[j] = events[j]
    BY <1>types, <2>3
  <2>7. Grows /\ HeldIn(titled', audit', req'[w])
    BY <2>3, <2>5, <2>6, SameTitles DEF Grows
  <2>8. KeptIn(titled', audit', i, row)
    BY <2>1, <2>2, <2>3, SameTitles DEF KeptIn
  <2> QED BY <1>types, <2>2, <2>3, <2>6, <2>7, <2>8, Assemble
<1>proceed. ASSUME NEW w \in Workers, NEW at \in {"bulk", "bulk_delete"}, Proceed(w, at), Grows
            PROVE  HeldIn(titled', audit', req'[w]) /\ \A v \in Workers \ {w} : req'[v] = req[v]
  <2> DEFINE copies == req[w].copies
             r == [at |-> at, id |-> None, row |-> None, old |-> None,
                   copies |-> copies, to |-> req[w].to, language |-> None, shown |-> None,
                   texts |-> Untitled, read |-> Untitled]
  <2>1. \A i \in Ids : copies[i] # None =>
          KeptIn(titled', audit', i, copies[i]) /\ DefaultEnabled(copies[i])
    BY <1>types, <1>proceed, KeptStable DEF HeldIn
  <2>2. /\ req'[w] \in {Idle, r} /\ \A v \in Workers \ {w} : req'[v] = req[v]
    BY <1>types, <1>proceed DEF Proceed
  <2> HIDE DEF copies
  <2>3. HeldIn(titled', audit', r)
    BY <2>1 DEF HeldIn
  <2> QED BY <2>2, <2>3, HeldIdle
<1>7. ASSUME NEW w \in Workers, BulkLog(w) PROVE Inv'
  <2>1. audit \subseteq audit' /\ UNCHANGED <<events, texts, issued>> /\ Proceed(w, "bulk")
    BY <1>7 DEF BulkLog
  <2>2. Grows
    BY <2>1, SameTitles DEF Grows
  <2> QED BY <1>types, <1>proceed, <2>1, <2>2, Assemble
<1>8. ASSUME NEW w \in Workers, NEW i \in Ids, DeleteLoad(w, i) PROVE Inv'
  <2>1. HeldIn(titled, audit, [Idle EXCEPT !.at = "delete_loaded", !.id = i, !.old = events[i]])
    BY DEF HeldIn, Idle, Nothing
  <2> QED BY <1>8, <1>read, <2>1 DEF DeleteLoad
(* A row goes, with an entry or after it.                                  *)
<1>gone. ASSUME NEW i \in Ids, Gone(i), audit \subseteq audit', LoggedIn(audit', i)
         PROVE  /\ Grows
                /\ \A j \in Stored' : j \in Stored /\ events'[j] = events[j]
                /\ \A j \in issued' \ Stored' : j \in issued \ Stored \/ LoggedIn(audit', j)
  <2>1. /\ events' = [events EXCEPT ![i] = None] /\ issued' = issued
        /\ \A j \in Ids \ {i} : texts'[j] = texts[j]
    BY <1>types, <1>gone DEF Gone, TypeInv, TypeOK
  <2>2. Grows
    BY <1>gone, <2>1 DEF Grows, titled
  <2> QED BY <1>types, <1>gone, <2>1, <2>2
<1>9. ASSUME NEW w \in Workers, DeletePage(w) PROVE Inv'
  <2> DEFINE i == req[w].id
             e == Entry("event_deleted", i, req[w].old, None)
  <2>1. i \in Ids /\ Gone(i) /\ audit' = audit \cup {e}
    BY <1>types, <1>9 DEF DeletePage, RequestTypes, IdSteps
  <2>2. e.action = "event_deleted" /\ e.id = i
    BY DEF Entry
  <2>3. HeldIn(titled', audit', req'[w]) /\ \A v \in Workers \ {w} : req'[v] = req[v]
    BY <1>types, <1>9, HeldIdle DEF DeletePage, Finish
  <2> HIDE DEF e, i
  <2>4. LoggedIn(audit', i)
    BY <2>1, <2>2 DEF LoggedIn
  <2> QED BY <1>types, <1>gone, <2>1, <2>3, <2>4, Assemble
<1>10. ASSUME NEW w \in Workers, NEW selected \in SUBSET Ids, BulkDeleteLoad(w, selected)
       PROVE Inv'
  <2> DEFINE copies == [i \in Ids |-> IF i \in selected THEN events[i] ELSE None]
             r == [Idle EXCEPT !.at = "bulk_delete", !.copies = copies]
  <2>1. req' = [req EXCEPT ![w] = r] /\ UNCHANGED <<events, texts, issued, audit>>
    BY <1>10 DEF BulkDeleteLoad
  <2>2. r.at = "bulk_delete" /\ r.copies = copies
    BY DEF Idle
  <2>3. HeldIn(titled, audit, r)
    BY <1>copies, <2>2
  <2> HIDE DEF r
  <2> QED BY <1>read, <2>1, <2>3
<1>11. ASSUME NEW w \in Workers, NEW i \in Ids, BulkDeleteLog(w, i) PROVE Inv'
  <2> DEFINE copies == [req[w].copies EXCEPT ![i] = None]
             r == [at |-> "bulk_delete_logged", id |-> i, row |-> None, old |-> None,
                   copies |-> copies, to |-> req[w].to, language |-> None, shown |-> None,
                   texts |-> Untitled, read |-> Untitled]
             e == Entry("event_deleted", i, req[w].copies[i], None)
  <2>1. /\ audit' = audit \cup {e} /\ req' = [req EXCEPT ![w] = r]
        /\ UNCHANGED <<events, texts, issued>>
    BY <1>11 DEF BulkDeleteLog
  <2>2. e.action = "event_deleted" /\ e.id = i
    BY DEF Entry
  <2>3. Grows
    BY <2>1, SameTitles DEF Grows
  <2>4. \A j \in Ids : copies[j] # None =>
          KeptIn(titled', audit', j, copies[j]) /\ DefaultEnabled(copies[j])
    <3>1. \A j \in Ids : copies[j] # None => copies[j] = req[w].copies[j]
      BY <1>types DEF Request
    <3> QED BY <1>types, <2>3, <3>1, KeptStable DEF HeldIn
  <2> HIDE DEF e, copies
  <2>5. LoggedIn(audit', i)
    BY <2>1, <2>2 DEF LoggedIn
  <2>6. HeldIn(titled', audit', r)
    BY <2>4, <2>5 DEF HeldIn
  <2>7. req'[w] = r /\ \A v \in Workers \ {w} : req'[v] = req[v]
    BY <1>types, <2>1
  <2> QED BY <1>types, <2>1, <2>3, <2>6, <2>7, Assemble
<1>12. ASSUME NEW w \in Workers, BulkDeleteRow(w) PROVE Inv'
  <2> DEFINE i == req[w].id
  <2>1. i \in Ids /\ Gone(i) /\ audit' = audit /\ LoggedIn(audit, i) /\ Proceed(w, "bulk_delete")
    BY <1>types, <1>12 DEF BulkDeleteRow, RequestTypes, IdSteps, HeldIn
  <2> HIDE DEF i
  <2>2. LoggedIn(audit', i)
    BY <2>1
  <2> QED BY <1>types, <1>gone, <1>proceed, <2>1, <2>2, Assemble
<1>13. ASSUME NEW w \in Workers, NEW i \in Ids, NEW language \in Languages,
              ReadPage(w, i, language) PROVE Inv'
  <2>1. KeptIn(titled, audit, i, events[i]) /\ language \in events[i].languages
    BY <1>types, <1>13 DEF ReadPage, Selectable, DefaultEnabled
  <2> DEFINE row == events[i]
             r == [Idle EXCEPT !.at = "page_loaded", !.id = i, !.row = row, !.language = language]
  <2>2. req' = [req EXCEPT ![w] = r] /\ UNCHANGED <<events, texts, issued, audit>>
    BY <1>13 DEF ReadPage
  <2>3. KeptIn(titled, audit, i, row) /\ language \in row.languages
    BY <2>1
  <2> HIDE DEF row
  <2>4. HeldIn(titled, audit, r)
    BY <2>3 DEF HeldIn, Idle, Nothing
  <2> QED BY <1>read, <2>2, <2>4
<1>14. ASSUME NEW w \in Workers, PageShow(w) PROVE Inv'
  <2> DEFINE i == req[w].id
             language == req[w].language
  <2>1. /\ KeptIn(titled, audit, i, req[w].row) /\ language \in req[w].row.languages
    BY <1>types, <1>14 DEF PageShow, HeldIn
  <2>2. PICK shown \in TranslationFor(i, req[w].row, language) :
          req' = [req EXCEPT ![w] = [Idle EXCEPT !.at = "page_shown", !.id = i,
                                     !.language = language, !.shown = shown]]
    BY <1>14 DEF PageShow
  <2>3. shown = language \/ LoggedIn(audit, i)
    BY <2>1, <2>2 DEF TranslationFor, KeptIn
  <2>4. UNCHANGED <<events, texts, issued, audit>>
    BY <1>14 DEF PageShow
  <2> HIDE DEF i, language
  <2>5. HeldIn(titled, audit, [Idle EXCEPT !.at = "page_shown", !.id = i,
                               !.language = language, !.shown = shown])
    BY <2>3 DEF HeldIn, Idle, Nothing
  <2> QED BY <1>read, <2>2, <2>4, <2>5
<1>15. ASSUME NEW w \in Workers, PageSent(w) \/ Fails(w) \/ Crash(w) PROVE Inv'
  <2>1. req' = [req EXCEPT ![w] = Idle] /\ UNCHANGED <<events, texts, issued, audit>>
    BY <1>15 DEF PageSent, Fails, Crash, Finish
  <2> QED BY <1>read, <2>1, HeldIdle
<1>16. ASSUME UNCHANGED vars PROVE Inv'
  BY <1>16, <1>types, SameTitles DEF vars, Inv, RowsKept
<1> QED
  BY <1>1, <1>2, <1>3, <1>4, <1>5, <1>6, <1>7, <1>8, <1>9, <1>10, <1>11, <1>12, <1>13,
     <1>14, <1>15, <1>16, PageReads
     DEF Next, FormStep, BulkStep, DeleteStep

(* The invariant holds in every reachable state, however many workers,     *)
(* events and languages there are.                                         *)
THEOREM Invariance == Spec => []Inv
BY InvInit, InvStep, PTL DEF Spec

(* TitlesKept: an event that was never deleted has a title in each         *)
(* language it is shown in, whichever stale copy was saved last.           *)
THEOREM TitlesStay == Spec => []TitlesKept
<1>1. Inv => TitlesKept
  BY DEF Inv, RowsKept, TitlesKept, Titled, KeptIn, LoggedIn, DeletionLogged
<1> QED BY <1>1, Invariance, PTL

(* PagesInSelectedLanguage: reading the row and the translations at        *)
(* different times never shows a guest another language than the selected. *)
THEOREM PagesMatch == Spec => []PagesInSelectedLanguage
<1>1. Inv => PagesInSelectedLanguage
  BY DEF Inv, HeldIn, PagesInSelectedLanguage, LoggedIn, DeletionLogged
<1> QED BY <1>1, Invariance, PTL

(* DeletionsLogged: no event disappears without an entry in the audit log. *)
THEOREM DeletionsLeaveATrace == Spec => []DeletionsLogged
<1>1. Inv => DeletionsLogged
  BY DEF Inv, DeletionsLogged, LoggedIn, DeletionLogged
<1> QED BY <1>1, Invariance, PTL

-----------------------------------------------------------------------------
(* RowsLogged: every stored row is in the log, its entry is pending, or the *)
(* worker was killed that was about to write it.                           *)
Pending(r, i, row) == r.at = "bulk_saved" /\ r.id = i /\ r.row = row
Known(log, i, row) == \E e \in log : e.id = i /\ e.new = row

(* What a step of worker w has to show.                                    *)
LEMMA AssembleRows ==
  ASSUME RowsLogged, NEW w \in Workers, audit \subseteq audit', cut \subseteq cut',
         \A v \in Workers \ {w} : req'[v] = req[v],
         \A i \in Stored' :
            \/ i \in Stored /\ events'[i] = events[i] /\ ~Pending(req[w], i, events[i])
            \/ Known(audit', i, events'[i])
            \/ Pending(req'[w], i, events'[i])
            \/ <<i, events'[i]>> \in cut'
  PROVE  RowsLogged'
<1> SUFFICES ASSUME NEW i \in Stored'
             PROVE  \/ Known(audit', i, events'[i])
                    \/ \E v \in Workers : Pending(req'[v], i, events'[i])
                    \/ <<i, events'[i]>> \in cut'
  BY DEF RowsLogged, Known, Pending
<1>1. CASE i \in Stored /\ events'[i] = events[i] /\ ~Pending(req[w], i, events[i])
  <2>1. \/ Known(audit, i, events[i])
        \/ \E v \in Workers : Pending(req[v], i, events[i])
        \/ <<i, events[i]>> \in cut
    BY <1>1 DEF RowsLogged, Known, Pending
  <2>2. CASE Known(audit, i, events[i])
    BY <1>1, <2>2 DEF Known
  <2>3. CASE \E v \in Workers \ {w} : Pending(req[v], i, events[i])
    BY <1>1, <2>3
  <2>4. CASE <<i, events[i]>> \in cut
    BY <1>1, <2>4
  <2> QED BY <1>1, <2>1, <2>2, <2>3, <2>4
<1>2. CASE \/ Known(audit', i, events'[i]) \/ Pending(req'[w], i, events'[i])
           \/ <<i, events'[i]>> \in cut'
  BY <1>2
<1> QED BY <1>1, <1>2

LEMMA RowsStep == TypeInv /\ RowsLogged /\ [NextH]_varsH => RowsLogged'
<1> SUFFICES ASSUME TypeInv, RowsLogged, [NextH]_varsH PROVE RowsLogged'
  OBVIOUS
<1>cut. cut \subseteq cut'
  BY DEF NextH, Remember, varsH
<1> USE DEF Stored, Begin, table
<1>types. /\ req \in [Workers -> Request] /\ events \in [Ids -> Row \cup {None}]
          /\ \A w \in Workers : RequestTypes(req[w])
  BY DEF TypeInv, TypeOK
(* A step that leaves the table alone, of a worker with no entry pending.  *)
<1>quiet. ASSUME NEW w \in Workers, NEW r, req' = [req EXCEPT ![w] = r],
                 events' = events, audit \subseteq audit',
                 req[w].at # "bulk_saved" \/ req[w].id \notin Stored
          PROVE  RowsLogged'
  <2>1. \A v \in Workers \ {w} : req'[v] = req[v]
    BY <1>quiet, <1>types
  <2>2. \A i \in Stored' : i \in Stored /\ events'[i] = events[i] /\ ~Pending(req[w], i, events[i])
    BY <1>quiet DEF Pending
  <2> QED BY <1>quiet, <2>1, <2>2, AssembleRows, <1>cut
(* A step that writes a row with its entry, or deletes it.                 *)
<1>write. ASSUME NEW w \in Workers, NEW i \in Ids, NEW row, events' = [events EXCEPT ![i] = row],
                 audit \subseteq audit', row = None \/ Known(audit', i, row),
                 req[w].at # "bulk_saved", \A v \in Workers \ {w} : req'[v] = req[v]
          PROVE  RowsLogged'
  <2>1. events'[i] = row /\ \A j \in Ids \ {i} : events'[j] = events[j]
    BY <1>write, <1>types
  <2>2. \A j \in Stored' :
          \/ j \in Stored /\ events'[j] = events[j] /\ ~Pending(req[w], j, events[j])
          \/ Known(audit', j, events'[j])
    BY <1>write, <2>1 DEF Pending
  <2> QED BY <1>write, <2>2, AssembleRows, <1>cut
<1>1. ASSUME NEW w \in Workers, NEW i \in Ids, NEW f \in Forms, Add(w, i, f) PROVE RowsLogged'
  <2> DEFINE row == Columns(f, f.status = "published")
             e == Entry("event_created", i, None, row)
  <2>1. /\ events' = [events EXCEPT ![i] = row] /\ audit \cup {e} \subseteq audit' /\ req' = req
        /\ req[w].at = "idle"
    BY <1>1 DEF Add
  <2>2. e.id = i /\ e.new = row
    BY DEF Entry
  <2> HIDE DEF e, row
  <2>3. Known(audit', i, row)
    BY <2>1, <2>2 DEF Known
  <2> QED BY <1>write, <2>1, <2>3
<1>2. ASSUME NEW w \in Workers, ChangeSave(w) PROVE RowsLogged'
  <2> DEFINE i == req[w].id
             row == req[w].row
             e == Entry(ActionOf(req[w].old, row), i, req[w].old, row)
  <2>1. /\ events' = [events EXCEPT ![i] = row] /\ audit \cup {e} \subseteq audit'
        /\ req[w].at = "form_fetched" /\ i \in Ids
        /\ \A v \in Workers \ {w} : req'[v] = req[v]
    BY <1>2, <1>types DEF ChangeSave, Finish, RequestTypes, RowSteps, IdSteps
  <2>2. e.id = i /\ e.new = row
    BY DEF Entry
  <2> HIDE DEF e, row, i
  <2>3. Known(audit', i, row)
    BY <2>1, <2>2 DEF Known
  <2> QED BY <1>write, <2>1, <2>3
<1>3. ASSUME NEW w \in Workers, NEW i \in Ids, BulkSave(w, i) PROVE RowsLogged'
  <2> DEFINE row == Changed(req[w].copies[i], req[w].to)
             r == [at |-> "bulk_saved", id |-> i, row |-> row, old |-> req[w].copies[i],
                   copies |-> [req[w].copies EXCEPT ![i] = None], to |-> req[w].to,
                   language |-> None, shown |-> None,
                   texts |-> Untitled, read |-> Untitled]
  <2>1. /\ events' = [events EXCEPT ![i] = row] /\ audit' = audit
        /\ req' = [req EXCEPT ![w] = r] /\ req[w].at = "bulk"
    BY <1>3 DEF BulkSave
  <2>2. r.at = "bulk_saved" /\ r.id = i /\ r.row = row
    OBVIOUS
  <2> HIDE DEF r, row
  <2>3. /\ req'[w] = r /\ \A v \in Workers \ {w} : req'[v] = req[v]
        /\ events'[i] = row /\ \A j \in Ids \ {i} : events'[j] = events[j]
    BY <1>types, <2>1
  <2>4. \A j \in Stored' :
          \/ j \in Stored /\ events'[j] = events[j] /\ ~Pending(req[w], j, events[j])
          \/ Pending(req'[w], j, events'[j])
    BY <2>1, <2>2, <2>3 DEF Pending
  <2> QED BY <2>1, <2>3, <2>4, AssembleRows, <1>cut
<1>4. ASSUME NEW w \in Workers, BulkLog(w) PROVE RowsLogged'
  <2> DEFINE e == Entry(BulkAction(req[w].to), req[w].id, req[w].old, req[w].row)
  <2>1. /\ events' = events /\ audit' = audit \cup {e} /\ req[w].at = "bulk_saved"
        /\ \A v \in Workers \ {w} : req'[v] = req[v]
    BY <1>4, <1>types DEF BulkLog, Proceed
  <2>2. e.id = req[w].id /\ e.new = req[w].row
    BY DEF Entry
  <2> HIDE DEF e
  <2>3. Known(audit', req[w].id, req[w].row)
    BY <2>1, <2>2 DEF Known
  <2>4. \A j \in Stored' :
          \/ j \in Stored /\ events'[j] = events[j] /\ ~Pending(req[w], j, events[j])
          \/ Known(audit', j, events'[j])
    BY <2>1, <2>3 DEF Pending
  <2> QED BY <2>1, <2>4, AssembleRows, <1>cut
<1>5. ASSUME NEW w \in Workers, DeletePage(w) PROVE RowsLogged'
  <2>1. /\ events' = [events EXCEPT ![req[w].id] = None] /\ audit \subseteq audit'
        /\ req[w].at = "delete_loaded" /\ req[w].id \in Ids
        /\ \A v \in Workers \ {w} : req'[v] = req[v]
    BY <1>5, <1>types DEF DeletePage, Gone, Finish, RequestTypes, IdSteps
  <2> QED BY <1>write, <2>1
<1>6. ASSUME NEW w \in Workers, BulkDeleteRow(w) PROVE RowsLogged'
  <2>1. /\ events' = [events EXCEPT ![req[w].id] = None] /\ audit' = audit
        /\ req[w].at = "bulk_delete_logged" /\ req[w].id \in Ids
        /\ \A v \in Workers \ {w} : req'[v] = req[v]
    BY <1>6, <1>types DEF BulkDeleteRow, Gone, Proceed, RequestTypes, IdSteps
  <2> QED BY <1>write, <2>1
<1>7. ASSUME NEW w \in Workers, NEW i \in Ids, BulkDeleteLog(w, i) PROVE RowsLogged'
  BY <1>7, <1>quiet DEF BulkDeleteLog
<1>8. ASSUME NEW w \in Workers,
             \/ \E i \in Ids, f \in Forms : ChangeLoad(w, i, f)
             \/ ChangeFetch(w)
             \/ \E s \in SUBSET Ids, to \in BulkStatuses : BulkLoad(w, s, to)
             \/ \E s \in SUBSET Ids : BulkDeleteLoad(w, s)
             \/ \E i \in Ids : DeleteLoad(w, i)
             \/ \E i \in Ids, l \in Languages : ReadPage(w, i, l)
             \/ PageShow(w) \/ PageSent(w) \/ Fails(w)
      PROVE  RowsLogged'
  <2>1. /\ events' = events /\ audit' = audit
        /\ \E r : req' = [req EXCEPT ![w] = r]
        /\ req[w].at # "bulk_saved" \/ req[w].id \notin Stored
    <3>1. CASE \E i \in Ids, f \in Forms : ChangeLoad(w, i, f)
      BY <3>1 DEF ChangeLoad
    <3>2. CASE ChangeFetch(w)
      BY <3>2 DEF ChangeFetch
    <3>3. CASE \E s \in SUBSET Ids, to \in BulkStatuses : BulkLoad(w, s, to)
      BY <3>3 DEF BulkLoad
    <3>4. CASE \E s \in SUBSET Ids : BulkDeleteLoad(w, s)
      BY <3>4 DEF BulkDeleteLoad
    <3>5. CASE \E i \in Ids : DeleteLoad(w, i)
      BY <3>5 DEF DeleteLoad
    <3>6. CASE \E i \in Ids, l \in Languages : ReadPage(w, i, l)
      BY <3>6 DEF ReadPage
    <3>7. CASE PageShow(w)
      BY <3>7 DEF PageShow
    <3>8. CASE PageSent(w) \/ Fails(w)
      BY <3>8 DEF PageSent, Fails, Finish
    <3> QED BY <1>8, <3>1, <3>2, <3>3, <3>4, <3>5, <3>6, <3>7, <3>8
  <2> QED BY <1>quiet, <2>1
<1>9. ASSUME NEW w \in Workers, Crash(w), Remember PROVE RowsLogged'
  <2>1. /\ events' = events /\ audit' = audit /\ req'[w] = Idle
        /\ \A v \in Workers \ {w} : req'[v] = req[v]
    BY <1>9, <1>types DEF Crash, Finish
  <2>2. req[w].at = "bulk_saved" /\ req[w].id \in Stored => <<req[w].id, req[w].row>> \in cut'
    BY <1>9, <2>1 DEF Remember, CutShort
  <2>3. \A i \in Stored' :
          \/ i \in Stored /\ events'[i] = events[i] /\ ~Pending(req[w], i, events[i])
          \/ <<i, events'[i]>> \in cut'
    BY <2>1, <2>2 DEF Pending
  <2> QED BY <2>1, <2>3, AssembleRows, <1>cut
<1>10. ASSUME UNCHANGED varsH PROVE RowsLogged'
  BY <1>10 DEF varsH, vars, RowsLogged
<1> QED
  BY <1>1, <1>2, <1>3, <1>4, <1>5, <1>6, <1>7, <1>8, <1>9, <1>10, PageReads
     DEF NextH, Next, FormStep, BulkStep, DeleteStep

(* The history observes the requests and lets them do what they did.       *)
LEMMA HistoryImplements == SpecH => Spec
<1>1. InitH => Init
  BY DEF InitH
<1>2. [NextH]_varsH => [Next]_vars
  BY DEF NextH, varsH
<1> QED BY <1>1, <1>2, PTL DEF SpecH, Spec

(* RowsLogged: unless a process dies, the log has what is stored.          *)
THEOREM RowsAreLogged == SpecH => []RowsLogged
<1>1. InitH => RowsLogged
  BY DEF InitH, Init, RowsLogged, Stored, Nothing
<1>2. SpecH => []TypeInv
  BY HistoryImplements, TypesAndRequests, PTL
<1> QED BY <1>1, <1>2, RowsStep, PTL DEF SpecH
-----------------------------------------------------------------------------
(* PublishedDated and ChangesLogged: a copy that nobody overtook is what   *)
(* the table has, and what was read of it for previous_data, too.          *)
CopyIn(r, table1, stale, i) ==
  /\ r.at = "form_loaded" /\ r.id = i => r.row.published = table1[i].published
  /\ r.at = "form_fetched" /\ r.id = i =>
       /\ r.old = table1[i]
       /\ r.row.status = "published" => r.row.published \/ i \in stale
  /\ r.at # "idle" /\ r.copies[i] # None => r.copies[i] = table1[i]

(* What is held was issued, and a bulk deletion forgets what it deletes.   *)
HeldIssued(r, ids) ==
  /\ r.at \in {"form_loaded", "form_fetched"} => r.id \in ids
  /\ r.at = "bulk_delete_logged" => r.copies[r.id] = None
  /\ \A i \in Ids : r.copies[i] # None => i \in ids

CopyInv ==
  /\ Stored \subseteq issued
  /\ \A w \in Workers : HeldIssued(req[w], issued)
  /\ \A w \in Workers, i \in Ids : <<w, i>> \in overtaken \/ CopyIn(req[w], events, tainted, i)
  /\ PublishedDated

LEMMA CopyIdle ==
  /\ \A r, table1, stale : \A i \in Ids : r.at = "idle" => CopyIn(r, table1, stale, i)
  /\ \A ids : HeldIssued(Idle, ids)
BY DEF CopyIn, HeldIssued, Idle, Nothing

(* What a step of worker w has to show: for itself, and for the rows.      *)
LEMMA AssembleCopies ==
  ASSUME TypeInv, TypeInv', CopyInv, Remember, NEW w \in Workers, issued \subseteq issued',
         \A v \in Workers \ {w} : req'[v] = req[v],
         HeldIssued(req'[w], issued'), Stored' \subseteq issued',
         \A i \in Ids :
            \/ <<w, i>> \in overtaken
            \/ CopyIn(req'[w], events', tainted', i),
         \A i \in Stored' :
            \/ events'[i] = events[i]
            \/ events'[i].status = "published" => events'[i].published \/ i \in tainted'
  PROVE  CopyInv'
<1>1. tainted \subseteq tainted'
  BY DEF Remember
<1>2. \A v \in Workers : HeldIssued(req'[v], issued')
  BY DEF CopyInv, HeldIssued
<1>3. ASSUME NEW v \in Workers, NEW i \in Ids
      PROVE  <<v, i>> \in overtaken' \/ CopyIn(req'[v], events', tainted', i)
  <2>1. CASE req'[v].at = "idle"
    BY <2>1, CopyIdle
  <2>2. CASE req'[v].at # "idle" /\ <<v, i>> \in overtaken
    BY <2>2 DEF Remember
  <2>3. CASE <<v, i>> \notin overtaken /\ v # w /\ events'[i] = events[i]
    BY <1>1, <2>3 DEF CopyInv, CopyIn
  <2>4. CASE req'[v].at # "idle" /\ v # w /\ events'[i] # events[i]
    BY <2>4 DEF Remember
  <2>5. CASE <<v, i>> \notin overtaken /\ v = w
    BY <2>5
  <2> QED BY <2>1, <2>2, <2>3, <2>4, <2>5
<1>4. PublishedDated'
  <2> SUFFICES ASSUME NEW i \in Stored', events'[i].status = "published"
               PROVE  events'[i].published \/ i \in tainted'
    BY DEF PublishedDated
  <2>1. CASE events'[i] = events[i]
    BY <1>1, <2>1 DEF CopyInv, PublishedDated, Stored
  <2> QED BY <2>1
<1> QED BY <1>2, <1>3, <1>4 DEF CopyInv

LEMMA DatedFacts ==
  /\ \A f \in Forms, p \in BOOLEAN : /\ Columns(f, p).published = p
                                     /\ Columns(f, p).status = f.status
  /\ \A r, s \in Row : /\ Stamped(r, s).status = r.status
                       /\ Stamped(r, s).published =
                            (r.published \/ (r.status = "published" /\ s.status # "published"))
  /\ \A r \in Row, s \in BulkStatuses :
       Changed(r, s).status = "published" => Changed(r, s).published
BY DEF Columns, Stamped, Changed, Row

LEMMA CopyStep == TypeInv /\ TypeInv' /\ CopyInv /\ [NextH]_varsH => CopyInv'
<1> SUFFICES ASSUME TypeInv, TypeInv', CopyInv, [NextH]_varsH PROVE CopyInv'
  OBVIOUS
<1> USE DEF Stored, Begin, table
<1>types. /\ req \in [Workers -> Request] /\ events \in [Ids -> Row \cup {None}]
          /\ \A w \in Workers : RequestTypes(req[w])
  BY DEF TypeInv, TypeOK
(* A step that leaves the table alone.                                     *)
<1>reads. ASSUME NEW w \in Workers, NEW r, req' = [req EXCEPT ![w] = r], Remember,
                 events' = events, issued' = issued, HeldIssued(r, issued),
                 \A i \in Ids : <<w, i>> \in overtaken \/ CopyIn(r, events, tainted, i)
          PROVE  CopyInv'
  <2>1. req'[w] = r /\ \A v \in Workers \ {w} : req'[v] = req[v]
    BY <1>reads, <1>types
  <2>2. tainted \subseteq tainted'
    BY <1>reads DEF Remember
  <2>3. \A i \in Ids : CopyIn(r, events, tainted, i) => CopyIn(r, events, tainted', i)
    BY <2>2 DEF CopyIn
  <2> QED BY <1>reads, <2>1, <2>3, AssembleCopies DEF CopyInv
(* A step that writes one row, by a worker that keeps no copy of it.       *)
<1>writes. ASSUME NEW w \in Workers, NEW i \in Ids, NEW row, NEW r,
                  events' = [events EXCEPT ![i] = row], req'[w] = r, Remember,
                  \A v \in Workers \ {w} : req'[v] = req[v],
                  issued \subseteq issued', row = None \/ i \in issued', HeldIssued(r, issued'),
                  r.at \notin {"form_loaded", "form_fetched"}, r.at # "idle" => r.copies[i] = None,
                  \A j \in Ids :
                     r.at # "idle" => r.copies[j] = req[w].copies[j] \/ r.copies[j] = None,
                  r.at # "idle" => req[w].at # "idle",
                  row # None => \/ row.status = "published" => row.published
                                \/ i \in tainted'
           PROVE  CopyInv'
  <2>1. events'[i] = row /\ \A j \in Ids \ {i} : events'[j] = events[j]
    BY <1>writes, <1>types
  <2>2. Stored' \subseteq issued'
    BY <1>writes, <2>1 DEF CopyInv
  <2>3. \A j \in Ids : <<w, j>> \in overtaken \/ CopyIn(r, events', tainted', j)
    BY <1>writes, <2>1 DEF CopyInv, CopyIn
  <2>4. \A j \in Stored' :
            \/ events'[j] = events[j]
            \/ events'[j].status = "published" => events'[j].published \/ j \in tainted'
    BY <1>writes, <2>1
  <2> QED BY <1>writes, <2>2, <2>3, <2>4, AssembleCopies
(* A request that holds no copy and no form.                               *)
<1>plain. ASSUME NEW r, r.copies = Nothing,
                 r.at \notin {"form_loaded", "form_fetched", "bulk_delete_logged"}
          PROVE  HeldIssued(r, issued) /\ \A i \in Ids : CopyIn(r, events, tainted, i)
  BY <1>plain, ConstantAssumption DEF HeldIssued, CopyIn, Nothing
<1>1. ASSUME NEW w \in Workers, NEW i \in Ids, NEW f \in Forms, Add(w, i, f), Remember
      PROVE  CopyInv'
  <2> DEFINE row == Columns(f, f.status = "published")
  <2>1. /\ events' = [events EXCEPT ![i] = row] /\ req' = req /\ req[w].at = "idle"
        /\ issued \subseteq issued' /\ i \in issued'
    BY <1>1 DEF Add
  <2>2. row.status = "published" => row.published
    BY DatedFacts
  <2>3. HeldIssued(req[w], issued')
    BY <2>1 DEF CopyInv, HeldIssued
  <2> HIDE DEF row
  <2> QED BY <1>1, <1>writes, <2>1, <2>2, <2>3
<1>2. ASSUME NEW w \in Workers, NEW i \in Ids, NEW f \in Forms, ChangeLoad(w, i, f), Remember
      PROVE  CopyInv'
  <2> DEFINE r == [Idle EXCEPT !.at = "form_loaded", !.id = i,
                               !.row = Columns(f, events[i].published),
                               !.texts = f.texts, !.read = texts[i]]
  <2>1. /\ req' = [req EXCEPT ![w] = r] /\ events' = events /\ issued' = issued /\ i \in Stored
    BY <1>2 DEF ChangeLoad
  <2>2. /\ r.at = "form_loaded" /\ r.id = i /\ r.copies = Nothing
        /\ r.row = Columns(f, events[i].published)
    BY DEF Idle
  <2> HIDE DEF r
  <2>4. r.row.published = events[i].published
    BY <2>2 DEF Columns
  <2>3. HeldIssued(r, issued) /\ \A j \in Ids : CopyIn(r, events, tainted, j)
    BY <2>1, <2>2, <2>4 DEF HeldIssued, CopyIn, Nothing, CopyInv
  <2> QED BY <1>2, <1>reads, <2>1, <2>3
<1>3. ASSUME NEW w \in Workers, ChangeFetch(w), Remember PROVE CopyInv'
  <2> DEFINE i == req[w].id
             r == [req[w] EXCEPT !.at = "form_fetched", !.old = events[i],
                                 !.row = Stamped(req[w].row, events[i])]
  <2>1. /\ req' = [req EXCEPT ![w] = r] /\ events' = events /\ issued' = issued
        /\ i \in Stored /\ req[w].at = "form_loaded" /\ req[w].row \in Row /\ events[i] \in Row
        /\ req[w] \in Request
    BY <1>3, <1>types DEF ChangeFetch, RequestTypes, RowSteps, IdSteps
  <2>2. /\ r.at = "form_fetched" /\ r.id = i /\ r.copies = req[w].copies /\ r.old = events[i]
        /\ r.row = Stamped(req[w].row, events[i])
    BY <2>1 DEF Request
  <2>3. <<w, i>> \notin overtaken /\ r.row.status = "published" => r.row.published \/ i \in tainted
    <3> SUFFICES ASSUME <<w, i>> \notin overtaken, r.row.status = "published"
                 PROVE  r.row.published \/ i \in tainted
      OBVIOUS
    <3>1. req[w].row.published = events[i].published
      BY <2>1 DEF CopyInv, CopyIn
    <3>2. /\ r.row.status = req[w].row.status
          /\ \/ events[i].published
             \/ req[w].row.status = "published" /\ events[i].status # "published"
             => r.row.published
      BY <2>1, <2>2, <3>1 DEF Stamped, Row
    <3>3. events[i].status = "published" => events[i].published \/ i \in tainted
      BY <2>1 DEF CopyInv, PublishedDated
    <3> QED BY <3>2, <3>3
  <2> HIDE DEF r
  <2>4. HeldIssued(r, issued)
    BY <2>1, <2>2 DEF HeldIssued, CopyInv
  <2>5. \A j \in Ids : <<w, j>> \in overtaken \/ CopyIn(r, events, tainted, j)
    BY <2>1, <2>2, <2>3 DEF CopyIn, CopyInv
  <2> QED BY <1>3, <1>reads, <2>1, <2>4, <2>5
<1>4. ASSUME NEW w \in Workers, ChangeSave(w), Remember PROVE CopyInv'
  <2> DEFINE i == req[w].id
             row == req[w].row
  <2>1. /\ events' = [events EXCEPT ![i] = row] /\ req'[w] = Idle /\ issued' = issued
        /\ \A v \in Workers \ {w} : req'[v] = req[v]
        /\ req[w].at = "form_fetched" /\ row \in Row /\ i \in Ids /\ i \in issued
    BY <1>4, <1>types DEF ChangeSave, Finish, RequestTypes, RowSteps, IdSteps, CopyInv, HeldIssued
  <2>2. Idle.at = "idle" /\ HeldIssued(Idle, issued')
    BY CopyIdle DEF Idle
  <2>3. row.status = "published" => row.published \/ i \in tainted'
    <3>1. tainted \subseteq tainted'
      BY <1>4 DEF Remember
    <3>2. CASE <<w, i>> \notin overtaken
      BY <2>1, <3>1, <3>2 DEF CopyInv, CopyIn
    <3>3. CASE <<w, i>> \in overtaken /\ events'[i] # events[i]
      BY <1>4, <2>1, <2>2, <3>3 DEF Remember, StaleWrite
    <3>4. CASE events'[i] = events[i]
      BY <1>types, <2>1, <3>1, <3>4, RowFacts DEF CopyInv, PublishedDated
    <3> QED BY <3>2, <3>3, <3>4
  <2> HIDE DEF row, i
  <2> QED BY <1>4, <1>writes, <2>1, <2>2, <2>3
<1>5. ASSUME NEW w \in Workers, NEW selected \in SUBSET Ids, NEW r,
             req' = [req EXCEPT ![w] = r], r.at \in {"bulk", "bulk_delete"},
             r.copies = [i \in Ids |-> IF i \in selected THEN events[i] ELSE None],
             selected \subseteq Stored, UNCHANGED table, Remember
      PROVE  CopyInv'
  <2>1. HeldIssued(r, issued) /\ \A j \in Ids : CopyIn(r, events, tainted, j)
    BY <1>5 DEF HeldIssued, CopyIn, CopyInv
  <2> QED BY <1>5, <1>reads, <2>1
<1>6. ASSUME NEW w \in Workers, NEW i \in Ids, BulkSave(w, i), Remember PROVE CopyInv'
  <2> DEFINE row == Changed(req[w].copies[i], req[w].to)
             r == [at |-> "bulk_saved", id |-> i, row |-> row, old |-> req[w].copies[i],
                   copies |-> [req[w].copies EXCEPT ![i] = None], to |-> req[w].to,
                   language |-> None, shown |-> None,
                   texts |-> Untitled, read |-> Untitled]
  <2>1. /\ events' = [events EXCEPT ![i] = row] /\ req' = [req EXCEPT ![w] = r]
        /\ issued' = issued /\ req[w].at = "bulk" /\ req[w].copies[i] # None
        /\ req[w].copies \in [Ids -> Row \cup {None}] /\ req[w].to \in BulkStatuses
    BY <1>6, <1>types DEF BulkSave, Request, RequestTypes
  <2>2. /\ r.at = "bulk_saved" /\ r.copies[i] = None
        /\ \A j \in Ids : r.copies[j] = req[w].copies[j] \/ r.copies[j] = None
    BY <2>1
  <2>3. row.status = "published" => row.published
    BY <2>1, DatedFacts
  <2> HIDE DEF r, row
  <2>4. i \in issued' /\ HeldIssued(r, issued')
    BY <2>1, <2>2 DEF CopyInv, HeldIssued
  <2>5. req'[w] = r /\ \A v \in Workers \ {w} : req'[v] = req[v]
    BY <1>types, <2>1
  <2>6. /\ r.at \notin {"form_loaded", "form_fetched"} /\ issued \subseteq issued'
        /\ r.at # "idle" => r.copies[i] = None
        /\ \A j \in Ids : r.at # "idle" => r.copies[j] = req[w].copies[j] \/ r.copies[j] = None
        /\ r.at # "idle" => req[w].at # "idle"
        /\ row # None => (row.status = "published" => row.published) \/ i \in tainted'
    BY <2>1, <2>2, <2>3
  <2> QED BY <1>6, <1>writes, <2>1, <2>4, <2>5, <2>6
(* Proceed keeps the copies, or ends the request.                          *)
<1>proceed. ASSUME NEW w \in Workers, NEW at \in {"bulk", "bulk_delete"}, Proceed(w, at),
                   req[w].at # "idle"
            PROVE  \E r : /\ req' = [req EXCEPT ![w] = r]
                          /\ r.at = "idle" \/ (r.at = at /\ r.copies = req[w].copies)
                          /\ HeldIssued(r, issued)
                          /\ \A i \in Ids : <<w, i>> \in overtaken \/ CopyIn(r, events, tainted, i)
  <2>1. CASE req[w].copies = Nothing
    <3>1. req' = [req EXCEPT ![w] = Idle]
      BY <1>proceed, <2>1 DEF Proceed
    <3>2. Idle.at = "idle"
      BY DEF Idle
    <3> QED BY <3>1, <3>2, CopyIdle
  <2>2. CASE req[w].copies # Nothing
    <3> DEFINE r == [at |-> at, id |-> None, row |-> None, old |-> None,
                     copies |-> req[w].copies, to |-> req[w].to, language |-> None, shown |-> None,
                     texts |-> Untitled, read |-> Untitled]
    <3>1. req' = [req EXCEPT ![w] = r]
      BY <1>proceed, <2>2 DEF Proceed
    <3>2. r.at = at /\ r.copies = req[w].copies
      OBVIOUS
    <3> HIDE DEF r
    <3>3. /\ HeldIssued(r, issued)
          /\ \A i \in Ids : <<w, i>> \in overtaken \/ CopyIn(r, events, tainted, i)
      BY <1>proceed, <3>2 DEF HeldIssued, CopyIn, CopyInv
    <3> QED BY <3>1, <3>2, <3>3
  <2> QED BY <2>1, <2>2
<1>7. ASSUME NEW w \in Workers, BulkLog(w), Remember PROVE CopyInv'
  <2>1. events' = events /\ issued' = issued /\ Proceed(w, "bulk") /\ req[w].at # "idle"
    BY <1>7 DEF BulkLog
  <2> QED BY <1>7, <1>proceed, <1>reads, <2>1
<1>8. ASSUME NEW w \in Workers, BulkDeleteRow(w), Remember PROVE CopyInv'
  <2> DEFINE i == req[w].id
  <2>1. /\ events' = [events EXCEPT ![i] = None] /\ issued' = issued /\ i \in Ids
        /\ Proceed(w, "bulk_delete") /\ req[w].at = "bulk_delete_logged" /\ req[w].copies[i] = None
    BY <1>8, <1>types DEF BulkDeleteRow, Gone, RequestTypes, IdSteps, CopyInv, HeldIssued
  <2>2. PICK r : /\ req' = [req EXCEPT ![w] = r] /\ HeldIssued(r, issued)
                 /\ r.at = "idle" \/ (r.at = "bulk_delete" /\ r.copies = req[w].copies)
    BY <1>proceed, <2>1
  <2>3. req'[w] = r /\ \A v \in Workers \ {w} : req'[v] = req[v]
    BY <1>types, <2>2
  <2>4. /\ r.at # "idle" => r.copies[i] = None
        /\ r.at # "idle" => req[w].at # "idle"
        /\ r.at \notin {"form_loaded", "form_fetched"}
        /\ \A j \in Ids : r.at # "idle" => r.copies[j] = req[w].copies[j] \/ r.copies[j] = None
        /\ HeldIssued(r, issued')
        /\ i \in Ids /\ issued \subseteq issued'
    BY <2>1, <2>2
  <2> DEFINE row == None
  <2>5. /\ events' = [events EXCEPT ![i] = row]
        /\ row = None \/ i \in issued'
        /\ row # None => (row.status = "published" => row.published) \/ i \in tainted'
    BY <2>1
  <2> HIDE DEF i, row
  <2> QED BY ONLY Remember, w \in Workers, <1>writes, <2>3, <2>4, <2>5, ZenonT(30)
<1>9. ASSUME NEW w \in Workers, DeletePage(w), Remember PROVE CopyInv'
  <2> DEFINE i == req[w].id
  <2>1. /\ events' = [events EXCEPT ![i] = None] /\ issued' = issued /\ i \in Ids
        /\ req'[w] = Idle /\ \A v \in Workers \ {w} : req'[v] = req[v]
    BY <1>9, <1>types DEF DeletePage, Gone, Finish, RequestTypes, IdSteps
  <2>2. Idle.at = "idle" /\ HeldIssued(Idle, issued')
    BY CopyIdle DEF Idle
  <2> HIDE DEF i
  <2> QED BY <1>9, <1>writes, <2>1, <2>2
<1>10. ASSUME NEW w \in Workers, NEW i \in Ids, BulkDeleteLog(w, i), Remember PROVE CopyInv'
  <2> DEFINE r == [at |-> "bulk_delete_logged", id |-> i, row |-> None, old |-> None,
                   copies |-> [req[w].copies EXCEPT ![i] = None], to |-> req[w].to,
                   language |-> None, shown |-> None,
                   texts |-> Untitled, read |-> Untitled]
  <2>1. /\ req' = [req EXCEPT ![w] = r] /\ events' = events /\ issued' = issued
        /\ req[w].at = "bulk_delete" /\ req[w].copies \in [Ids -> Row \cup {None}]
    BY <1>10, <1>types DEF BulkDeleteLog, Request
  <2>2. /\ r.at = "bulk_delete_logged" /\ r.id = i /\ r.copies[i] = None
        /\ \A j \in Ids : r.copies[j] = req[w].copies[j] \/ r.copies[j] = None
    BY <2>1
  <2> HIDE DEF r
  <2>3. HeldIssued(r, issued)
    BY <2>1, <2>2 DEF CopyInv, HeldIssued
  <2>4. \A j \in Ids : <<w, j>> \in overtaken \/ CopyIn(r, events, tainted, j)
    BY <2>1, <2>2 DEF CopyInv, CopyIn
  <2> QED BY <1>10, <1>reads, <2>1, <2>3, <2>4
<1>11. ASSUME NEW w \in Workers, NEW s \in SUBSET Ids, NEW to \in BulkStatuses,
              BulkLoad(w, s, to), Remember
       PROVE  CopyInv'
  <2> DEFINE r == [Idle EXCEPT !.at = "bulk", !.to = to,
                     !.copies = [i \in Ids |-> IF i \in s THEN events[i] ELSE None]]
  <2>1. req' = [req EXCEPT ![w] = r] /\ s \subseteq Stored /\ UNCHANGED table
    BY <1>11 DEF BulkLoad
  <2>2. r.at = "bulk" /\ r.copies = [i \in Ids |-> IF i \in s THEN events[i] ELSE None]
    BY DEF Idle
  <2> HIDE DEF r
  <2> QED BY <1>5, <1>11, <2>1, <2>2
<1>12. ASSUME NEW w \in Workers, NEW s \in SUBSET Ids, BulkDeleteLoad(w, s), Remember
       PROVE  CopyInv'
  <2> DEFINE r == [Idle EXCEPT !.at = "bulk_delete",
                     !.copies = [i \in Ids |-> IF i \in s THEN events[i] ELSE None]]
  <2>1. req' = [req EXCEPT ![w] = r] /\ s \subseteq Stored /\ UNCHANGED table
    BY <1>12 DEF BulkDeleteLoad
  <2>2. r.at = "bulk_delete" /\ r.copies = [i \in Ids |-> IF i \in s THEN events[i] ELSE None]
    BY DEF Idle
  <2> HIDE DEF r
  <2> QED BY <1>5, <1>12, <2>1, <2>2
<1>13. ASSUME NEW w \in Workers, Remember,
              \/ \E i \in Ids : DeleteLoad(w, i)
              \/ \E i \in Ids, l \in Languages : ReadPage(w, i, l)
              \/ PageShow(w) \/ PageSent(w) \/ Fails(w) \/ Crash(w)
       PROVE  CopyInv'
  <2>1. events' = events /\ issued' = issued
    BY <1>13 DEF DeleteLoad, ReadPage, PageShow, PageSent, Fails, Crash
  <2> DEFINE Plain == /\ \E r : req' = [req EXCEPT ![w] = r]
                      /\ req'[w].copies = Nothing
                      /\ req'[w].at \notin {"form_loaded", "form_fetched", "bulk_delete_logged"}
  <2>2. ASSUME NEW i \in Ids, DeleteLoad(w, i) PROVE Plain
    BY <1>types, <2>2 DEF DeleteLoad, Idle
  <2>3. ASSUME NEW i \in Ids, NEW l \in Languages, ReadPage(w, i, l) PROVE Plain
    BY <1>types, <2>3 DEF ReadPage, Idle
  <2>4. ASSUME PageShow(w) PROVE Plain
    <3>1. PICK shown : req' = [req EXCEPT ![w] = [Idle EXCEPT !.at = "page_shown", !.id = req[w].id,
                                                  !.language = req[w].language, !.shown = shown]]
      BY <2>4 DEF PageShow
    <3>2. /\ req'[w].copies = Nothing /\ req'[w].at = "page_shown"
      BY <1>types, <3>1 DEF Idle
    <3> QED BY <3>1, <3>2
  <2>5. ASSUME PageSent(w) \/ Fails(w) \/ Crash(w) PROVE Plain
    BY <1>types, <2>5 DEF PageSent, Fails, Crash, Finish, Idle
  <2>6. Plain
    BY <1>13, <2>2, <2>3, <2>4, <2>5
  <2>7. req' = [req EXCEPT ![w] = req'[w]]
    BY <1>types, <2>6
  <2>8. /\ HeldIssued(req'[w], issued)
        /\ \A i \in Ids : CopyIn(req'[w], events, tainted, i)
    BY <1>plain, <2>6
  <2> QED BY <1>13, <1>reads, <2>1, <2>7, <2>8
<1>14. ASSUME UNCHANGED varsH PROVE CopyInv'
  BY <1>14 DEF varsH, vars, CopyInv, HeldIssued, CopyIn, PublishedDated
<1> QED
  BY <1>1, <1>2, <1>3, <1>4, <1>6, <1>7, <1>8, <1>9, <1>10, <1>11, <1>12, <1>13, <1>14,
     PageReads
     DEF NextH, Next, FormStep, BulkStep, DeleteStep
LEMMA CopiesInvariant == SpecH => [](TypeInv /\ CopyInv)
<1>1. SpecH => []TypeInv
  BY HistoryImplements, TypesAndRequests, PTL
<1>2. InitH => CopyInv
  <2> SUFFICES ASSUME InitH PROVE CopyInv
    OBVIOUS
  <2>1. \A w \in Workers : req[w] = Idle /\ req[w].at = "idle"
    BY DEF InitH, Init, Idle
  <2>2. Stored = {}
    BY DEF InitH, Init, Stored, Nothing
  <2> QED BY <2>1, <2>2, CopyIdle DEF CopyInv, PublishedDated
<1> QED BY <1>1, <1>2, CopyStep, PTL DEF SpecH

(* PublishedDated: a published event has its date, unless a request that   *)
(* another had overtaken wrote it.                                         *)
THEOREM PublishedHasDate == SpecH => []PublishedDated
<1>1. CopyInv => PublishedDated
  BY DEF CopyInv
<1> QED BY <1>1, CopiesInvariant, PTL

(* ChangesLogged: the log tells of every change of status what it was from *)
(* and to, unless such a request made it.                                  *)
THEOREM ChangesLeaveATrace == SpecH => ChangesLogged
<1> DEFINE A == \A i \in Stored :
       events'[i] # None /\ events'[i].status # events[i].status =>
         \/ \E e \in audit' : e.id = i /\ e.old = events[i] /\ e.new = events'[i]
         \/ \E w \in Workers : /\ req'[w].at = "bulk_saved" /\ req'[w].id = i
                               /\ req'[w].old = events[i] /\ req'[w].row = events'[i]
         \/ StaleWrite(i)
<1>1. ASSUME TypeInv, CopyInv, [NextH]_varsH PROVE A
  <2> SUFFICES ASSUME NEW i \in Stored, events'[i] # None, events'[i] # events[i]
               PROVE  \/ \E e \in audit' : e.id = i /\ e.old = events[i] /\ e.new = events'[i]
                      \/ \E w \in Workers : /\ req'[w].at = "bulk_saved" /\ req'[w].id = i
                                            /\ req'[w].old = events[i] /\ req'[w].row = events'[i]
                      \/ StaleWrite(i)
    OBVIOUS
  <2>types. /\ req \in [Workers -> Request] /\ events \in [Ids -> Row \cup {None}]
            /\ \A w \in Workers : RequestTypes(req[w]) /\ i \in Ids
    BY <1>1 DEF TypeInv, TypeOK, Stored
  <2>1. ASSUME NEW w \in Workers, ChangeSave(w)
        PROVE  \/ \E e \in audit' : e.id = i /\ e.old = events[i] /\ e.new = events'[i]
               \/ StaleWrite(i)
    <3> DEFINE e == Entry(ActionOf(req[w].old, req[w].row), req[w].id, req[w].old, req[w].row)
    <3>1. /\ e \in audit' /\ events' = [events EXCEPT ![req[w].id] = req[w].row]
          /\ req[w].at = "form_fetched" /\ req'[w] = Idle
      BY <2>1, <2>types DEF ChangeSave, Finish
    <3>2. e.id = req[w].id /\ e.old = req[w].old /\ e.new = req[w].row
      BY DEF Entry
    <3>3. req[w].id = i /\ events'[i] = req[w].row
      BY <2>types, <3>1
    <3> HIDE DEF e
    <3>4. CASE <<w, i>> \notin overtaken
      BY <1>1, <2>types, <3>1, <3>2, <3>3, <3>4 DEF CopyInv, CopyIn
    <3>5. CASE <<w, i>> \in overtaken
      BY <3>1, <3>5 DEF StaleWrite, Idle
    <3> QED BY <3>4, <3>5
  <2>2. ASSUME NEW w \in Workers, NEW j \in Ids, BulkSave(w, j)
        PROVE  \/ /\ req'[w].at = "bulk_saved" /\ req'[w].id = i
                  /\ req'[w].old = events[i] /\ req'[w].row = events'[i]
               \/ StaleWrite(i)
    <3>1. /\ req[w].at = "bulk" /\ req[w].copies[j] # None
          /\ events' = [events EXCEPT ![j] = Changed(req[w].copies[j], req[w].to)]
          /\ req'[w].at = "bulk_saved" /\ req'[w].id = j /\ req'[w].old = req[w].copies[j]
          /\ req'[w].row = Changed(req[w].copies[j], req[w].to)
      BY <2>2, <2>types DEF BulkSave
    <3>2. i = j /\ events'[i] = req'[w].row
      BY <2>types, <3>1
    <3>3. CASE <<w, i>> \notin overtaken
      BY <1>1, <2>types, <3>1, <3>2, <3>3 DEF CopyInv, CopyIn
    <3>4. CASE <<w, i>> \in overtaken
      BY <3>1, <3>4 DEF StaleWrite
    <3> QED BY <3>3, <3>4
  <2>3. \/ \E w \in Workers : ChangeSave(w)
        \/ \E w \in Workers, j \in Ids : BulkSave(w, j)
    <3>1. ASSUME NEW w \in Workers, NEW j \in Ids, NEW f \in Forms, Add(w, j, f) PROVE FALSE
      BY <1>1, <2>types, <3>1 DEF Add, CopyInv
    <3>2. ASSUME NEW w \in Workers, DeletePage(w) \/ BulkDeleteRow(w) PROVE FALSE
      BY <2>types, <3>2 DEF DeletePage, BulkDeleteRow, Gone
    <3> QED
      BY <1>1, <3>1, <3>2, PageReads
      DEF NextH, Next, FormStep, BulkStep, DeleteStep, varsH, vars, table, ChangeLoad,
          ChangeFetch, BulkLoad, BulkLog, BulkDeleteLoad, BulkDeleteLog, DeleteLoad, ReadPage,
          PageShow, PageSent, Fails, Crash
  <2> QED BY <2>1, <2>2, <2>3
<1>2. TypeInv /\ CopyInv /\ [NextH]_varsH => [A]_varsH
  BY <1>1
<1> QED BY <1>2, CopiesInvariant, PTL DEF SpecH, ChangesLogged

(* TextsLogged: the log tells of every change of texts what they were and  *)
(* became, unless the form that made it was loaded with other texts.       *)
THEOREM TextsLeaveATrace == SpecH => TextsLogged
<1> DEFINE A(i) == events'[i] # None /\ texts'[i] # texts[i] =>
         \/ ContentUpdated(i, [translations |-> texts[i]], texts'[i]) \in audit'
         \/ OutdatedForm(i)
<1>1. ASSUME TypeInv, CopyInv, [NextH]_varsH, NEW i \in Stored PROVE A(i)
  <2> SUFFICES ASSUME events'[i] # None, texts'[i] # texts[i]
               PROVE  \/ ContentUpdated(i, [translations |-> texts[i]], texts'[i]) \in audit'
                      \/ OutdatedForm(i)
    OBVIOUS
  <2>types. /\ req \in [Workers -> Request] /\ events \in [Ids -> Row \cup {None}]
            /\ texts \in [Ids -> Content] /\ texts[i] \in Content /\ i \in Ids
    BY <1>1 DEF TypeInv, TypeOK, Stored
  <2>1. ASSUME NEW w \in Workers, NEW j \in Ids, NEW f \in Forms, Add(w, j, f) PROVE FALSE
    BY <1>1, <2>types, <2>1 DEF Add, CopyInv
  <2>2. ASSUME NEW w \in Workers, DeletePage(w) \/ BulkDeleteRow(w) PROVE FALSE
    BY <2>types, <2>2 DEF DeletePage, BulkDeleteRow, Gone
  <2>3. PICK w \in Workers : ChangeSave(w)
    BY <1>1, <2>1, <2>2, PageReads
       DEF NextH, Next, FormStep, BulkStep, DeleteStep, varsH, vars, table, ChangeLoad,
           ChangeFetch, BulkLoad, BulkSave, BulkLog, BulkDeleteLoad, BulkDeleteLog, DeleteLoad,
           ReadPage, PageShow, PageSent, Fails, Crash
  <2> DEFINE languages == req[w].row.languages
             new == Translations(req[w].id, languages, req[w].texts)
  <2>4. /\ req[w].at = "form_fetched" /\ req'[w] = Idle
        /\ texts' = [texts EXCEPT ![req[w].id] = new]
        /\ TranslationChanged(req[w]) =>
             ContentUpdated(req[w].id, [translations |-> texts[req[w].id]], new) \in audit'
    BY <2>types, <2>3 DEF ChangeSave, Finish
  <2>5. req[w].id = i /\ texts'[i] = Translations(i, languages, req[w].texts)
    BY <2>types, <2>4
  <2>6. CASE TranslationChanged(req[w])
    BY <2>4, <2>5, <2>6
  <2>7. CASE req[w].read # texts[i]
    BY <2>4, <2>5, <2>7 DEF OutdatedForm, Idle
  (* A form that changed nothing, and was loaded with what there still is. *)
  <2>8. CASE req[w].read = texts[i] /\ ~TranslationChanged(req[w])
    <3>1. req[w].texts = texts[i]
      BY <2>8 DEF TranslationChanged
    <3>2. texts'[i] = texts[i]
      BY <2>types, <2>5, <3>1 DEF Translations, Content
    <3> QED BY <3>2
  <2> QED BY <2>6, <2>7, <2>8
<1>2. ASSUME TypeInv, CopyInv, [NextH]_varsH PROVE [\A i \in Stored : A(i)]_vars
  BY <1>1, <1>2
<1> QED BY <1>2, CopiesInvariant, PTL DEF SpecH, TextsLogged
-----------------------------------------------------------------------------
(* One request at a time: none begins while another is under way.          *)
OneAtATime == begun' # begun => \A w \in Workers : req[w].at = "idle"

FormSteps == {"form_loaded", "form_fetched"}

(* Then nobody is overtaken, and a form holds the texts that there are.    *)
Alone ==
  /\ \A v, w \in Workers : req[v].at # "idle" /\ req[w].at # "idle" => v = w
  /\ overtaken = {} /\ tainted = {}
  /\ \A w \in Workers : req[w].at \in FormSteps => req[w].read = texts[req[w].id]

StepOf(w) ==
  FormStep(w) \/ BulkStep(w) \/ DeleteStep(w) \/ PageStep(w) \/ Fails(w) \/ Crash(w)

(* What a step of worker w does to requests, and when it writes.           *)
Shape(w) ==
  /\ \A v \in Workers \ {w} : req'[v] = req[v]
  /\ req[w].at = "idle" => begun' # begun
  /\ events' # events => req'[w] # req[w] \/ req'[w].at = "idle"
  /\ req'[w].at \in FormSteps =>
       /\ texts' = texts
       /\ \/ req'[w].read = texts[req'[w].id]
          \/ /\ req[w].at \in FormSteps
             /\ req'[w].read = req[w].read /\ req'[w].id = req[w].id

LEMMA StepShape ==
  ASSUME TypeInv, NEW w \in Workers, StepOf(w)
  PROVE  Shape(w)
<1> USE DEF Begin, table, FormSteps
<1>types. /\ req \in [Workers -> Request] /\ req[w] \in Request /\ DOMAIN req = Workers
          /\ begun + 1 # begun /\ Idle.at = "idle"
  BY DEF TypeInv, TypeOK, Idle
(* A step to a request that is no form.                                    *)
<1>other. ASSUME NEW r, req' = [req EXCEPT ![w] = r], r.at \notin FormSteps,
                 req[w].at = "idle" => begun' # begun,
                 r.at = "idle" \/ r.at # req[w].at
          PROVE  Shape(w)
  <2>1. req'[w] = r /\ \A v \in Workers \ {w} : req'[v] = req[v]
    BY <1>other, <1>types
  <2> QED BY <1>other, <2>1 DEF Shape
<1>1. ASSUME NEW i \in Ids, NEW f \in Forms, Add(w, i, f) PROVE Shape(w)
  BY <1>1, <1>types DEF Add, Shape
<1>2. ASSUME NEW i \in Ids, NEW f \in Forms, ChangeLoad(w, i, f) PROVE Shape(w)
  <2>1. /\ req'[w].id = i /\ req'[w].read = texts[i] /\ texts' = texts /\ events' = events
        /\ begun' # begun /\ \A v \in Workers \ {w} : req'[v] = req[v]
    BY <1>2, <1>types DEF ChangeLoad, Idle
  <2> QED BY <2>1 DEF Shape
<1>3. CASE ChangeFetch(w)
  <2> DEFINE old == events[req[w].id]
             row == Stamped(req[w].row, old)
  <2>1. /\ req[w].at = "form_loaded" /\ texts' = texts /\ events' = events
        /\ req' = [req EXCEPT ![w] =
             [req[w] EXCEPT !.at = "form_fetched", !.old = old, !.row = row]]
    BY <1>3 DEF ChangeFetch
  <2> HIDE DEF old, row
  <2>2. /\ req'[w].id = req[w].id /\ req'[w].read = req[w].read
        /\ \A v \in Workers \ {w} : req'[v] = req[v]
    BY <1>types, <2>1 DEF Request
  <2> QED BY <2>1, <2>2 DEF Shape
<1>4. CASE ChangeSave(w) \/ DeletePage(w) \/ PageSent(w) \/ Fails(w) \/ Crash(w)
  <2>1. req' = [req EXCEPT ![w] = Idle] /\ req[w].at # "idle"
    BY <1>4 DEF ChangeSave, DeletePage, PageSent, Fails, Crash, Finish
  <2> QED BY <1>types, <1>other, <2>1
<1>5. CASE BulkLog(w) \/ BulkDeleteRow(w)
  <2>1. PICK at \in {"bulk", "bulk_delete"} : Proceed(w, at) /\ req[w].at \notin {"idle", at}
    BY <1>5 DEF BulkLog, BulkDeleteRow
  <2>2. CASE req[w].copies = Nothing
    BY <1>types, <1>other, <2>1, <2>2 DEF Proceed
  <2>3. CASE req[w].copies # Nothing
    <3> DEFINE r == [at |-> at, id |-> None, row |-> None, old |-> None,
                     copies |-> req[w].copies, to |-> req[w].to, language |-> None,
                     shown |-> None, texts |-> Untitled, read |-> Untitled]
    <3>1. req' = [req EXCEPT ![w] = r] /\ r.at = at
      BY <2>1, <2>3 DEF Proceed
    <3> HIDE DEF r
    <3> QED BY <1>other, <2>1, <3>1
  <2> QED BY <2>2, <2>3
<1>6. ASSUME NEW i \in Ids, BulkSave(w, i) \/ BulkDeleteLog(w, i) PROVE Shape(w)
  <2>1. /\ req[w].at \notin {"idle", req'[w].at} /\ req'[w].at \notin FormSteps
        /\ \A v \in Workers \ {w} : req'[v] = req[v]
    BY <1>6, <1>types DEF BulkSave, BulkDeleteLog
  <2> QED BY <2>1 DEF Shape
<1>7. CASE PageShow(w)
  <2>1. /\ req[w].at = "page_loaded" /\ req'[w].at = "page_shown"
        /\ \A v \in Workers \ {w} : req'[v] = req[v]
    BY <1>7, <1>types DEF PageShow, Idle
  <2> QED BY <2>1 DEF Shape
<1>8. ASSUME NEW i \in Ids, DeleteLoad(w, i) PROVE Shape(w)
  BY <1>8, <1>types DEF DeleteLoad, Idle, Shape
<1>9. ASSUME NEW i \in Ids, NEW language \in Languages, ReadPage(w, i, language) PROVE Shape(w)
  BY <1>9, <1>types DEF ReadPage, Idle, Shape
<1>10. ASSUME NEW selected \in SUBSET Ids, NEW status \in BulkStatuses,
              BulkLoad(w, selected, status)
       PROVE  Shape(w)
  BY <1>10, <1>types DEF BulkLoad, Idle, Shape
<1>11. ASSUME NEW selected \in SUBSET Ids, BulkDeleteLoad(w, selected) PROVE Shape(w)
  BY <1>11, <1>types DEF BulkDeleteLoad, Idle, Shape
<1> QED
  BY <1>1, <1>2, <1>3, <1>4, <1>5, <1>6, <1>7, <1>8, <1>9, <1>10, <1>11, PageReads
     DEF StepOf, FormStep, BulkStep, DeleteStep

LEMMA AloneStep ==
  ASSUME TypeInv, Alone, [NextH /\ OneAtATime]_varsH
  PROVE  Alone'
<1>1. CASE UNCHANGED varsH
  BY <1>1 DEF Alone, varsH, vars, table
<1>2. ASSUME NEW w \in Workers, StepOf(w), Remember, OneAtATime PROVE Alone'
  <2>1. Shape(w)
    BY <1>2, StepShape
  (* Whoever takes a step is the only one under way then.                  *)
  <2>2. \A v \in Workers \ {w} : req[v].at = "idle"
    BY <1>2, <2>1 DEF Shape, Alone, OneAtATime
  <2>3. \A v \in Workers \ {w} : req'[v].at = "idle"
    BY <2>1, <2>2 DEF Shape
  <2>4. \A i \in Ids : events'[i] = events[i] \/ req'[w].at = "idle" \/ req'[w] # req[w]
    BY <2>1 DEF Shape
  <2>5. overtaken' = {}
    BY <1>2, <2>3, <2>4 DEF Remember, Alone
  <2>6. tainted' = {}
    BY <1>2 DEF Remember, Alone, StaleWrite
  <2>7. ASSUME req'[w].at \in FormSteps PROVE req'[w].read = texts'[req'[w].id]
    BY <2>1, <2>7 DEF Shape, Alone
  <2>8. \A v \in Workers : req'[v].at \in FormSteps => req'[v].read = texts'[req'[v].id]
    BY <2>3, <2>7 DEF FormSteps
  <2> QED BY <2>3, <2>5, <2>6, <2>8 DEF Alone
<1> QED BY <1>1, <1>2 DEF NextH, Next, StepOf

(* What is left of PublishedDated, ChangesLogged and TextsLogged.          *)
EveryPublishedDated ==
  \A i \in Stored : events[i].status = "published" => events[i].published

EveryChangeLogged ==
  \A i \in Stored :
     events'[i] # None =>
       /\ events'[i].status # events[i].status =>
            \/ \E e \in audit' : e.id = i /\ e.old = events[i] /\ e.new = events'[i]
            \/ \E w \in Workers : /\ req'[w].at = "bulk_saved" /\ req'[w].id = i
                                  /\ req'[w].old = events[i] /\ req'[w].row = events'[i]
       /\ texts'[i] # texts[i] =>
            ContentUpdated(i, [translations |-> texts[i]], texts'[i]) \in audit'

(* save_model, _change_status and save_related: when no two requests are   *)
(* under way at once, every published event has a date, and a change of a  *)
(* status or a text comes with an entry that tells what it was before, or  *)
(* for a bulk action is about to.  No stale copy is left to except.        *)
THEOREM SerialEventsLogged ==
  SpecH /\ [][OneAtATime]_varsH => []EveryPublishedDated /\ [][EveryChangeLogged]_varsH
<1>1. InitH => Alone
  BY DEF InitH, Init, Idle, Alone, FormSteps
<1>2. TypeInv /\ Alone /\ [NextH]_varsH /\ [OneAtATime]_varsH => Alone'
  BY AloneStep
<1>3. SpecH /\ [][OneAtATime]_varsH => []Alone
  BY <1>1, <1>2, CopiesInvariant, PTL DEF SpecH
<1>4. Alone /\ PublishedDated => EveryPublishedDated
  BY DEF Alone, PublishedDated, EveryPublishedDated
<1> DEFINE Status == \A i \in Stored :
       events'[i] # None /\ events'[i].status # events[i].status =>
         \/ \E e \in audit' : e.id = i /\ e.old = events[i] /\ e.new = events'[i]
         \/ \E w \in Workers : /\ req'[w].at = "bulk_saved" /\ req'[w].id = i
                               /\ req'[w].old = events[i] /\ req'[w].row = events'[i]
         \/ StaleWrite(i)
           Texting == \A i \in Stored :
       events'[i] # None /\ texts'[i] # texts[i] =>
         \/ ContentUpdated(i, [translations |-> texts[i]], texts'[i]) \in audit'
         \/ OutdatedForm(i)
<1>5. ASSUME Alone PROVE \A i \in Stored : ~StaleWrite(i) /\ ~OutdatedForm(i)
  BY <1>5 DEF Alone, StaleWrite, OutdatedForm, FormSteps
<1>6. Alone /\ [Status]_varsH /\ [Texting]_vars => [EveryChangeLogged]_varsH
  BY <1>5 DEF EveryChangeLogged, varsH, vars, table
<1>7. SpecH => [][Status]_varsH /\ [][Texting]_vars
  BY ChangesLeaveATrace, TextsLeaveATrace DEF ChangesLogged, TextsLogged
<1> QED BY <1>3, <1>4, <1>6, <1>7, PublishedHasDate, PTL
=============================================================================
