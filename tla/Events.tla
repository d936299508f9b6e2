------------------------------- MODULE Events -------------------------------
(***************************************************************************)
(* Events, the texts of their translations, and the audit log about them.  *)
(* Staff work on events through the add and change forms, the bulk actions *)
(* and the delete pages of the admin site while guests open the pages.     *)
(*                                                                         *)
(* The two forms and the delete page run in one transaction each, and once *)
(* one has written an event's row nobody else can until it commits: here   *)
(* its writes are one step, after steps for what it read (READ COMMITTED). *)
(* Bulk actions run outside any transaction; each statement is a step.     *)
(*                                                                         *)
(* All texts of a translation are one value; None is a translation without *)
(* a title, which the form insists on for the languages that are enabled.  *)
(***************************************************************************)
EXTENDS Naturals

CONSTANTS
  Workers,     \* threads, each running one request at a time
  Ids,         \* primary keys of events
  Languages,
  Texts,       \* the texts of a translation, title included
  Forms,       \* what staff submit in the add and change forms
  MaxRequests, \* bound on the number of requests
  None

Statuses == {"draft", "published", "registration_closed", "completed", "archived"}

Content == [Languages -> Texts \cup {None}]

Form == [status: Statuses, languages: SUBSET Languages, default_language: Languages,
         texts: Content]

(* The columns that matter; published says that published_at is set.       *)
Row == [status: Statuses, languages: SUBSET Languages, default_language: Languages,
        published: BOOLEAN]

Actions == {"event_created", "event_updated", "event_published", "registration_closed",
            "event_archived", "event_deleted", "event_content_updated"}

(* _event_content_snapshot, which the log keeps apart from rows.           *)
Snapshot == [translations: Content]

ASSUME ConstantAssumption ==
  /\ Forms \subseteq Form /\ MaxRequests \in Nat
  /\ None \notin Ids /\ None \notin Row /\ None \notin Languages
  /\ None \notin Texts

VARIABLES
  events,   \* the event table: id -> Row, or None
  texts,    \* the translation table: id -> language -> texts, or None
  issued,   \* ids the sequence has handed out
  audit,    \* AuditLog entries about events, with previous and new data
  req,      \* what each worker is doing
  begun     \* number of requests so far

table == <<events, texts, issued>>
vars == <<events, texts, issued, audit, req, begun>>

Stored == {i \in Ids : events[i] # None}

(* The languages each event has a title in.                                *)
titled == [i \in Ids |-> {l \in Languages : texts[i][l] # None}]

Steps == {"idle", "form_loaded", "form_fetched", "bulk", "bulk_saved",
          "delete_loaded", "bulk_delete", "bulk_delete_logged", "page_loaded", "page_shown"}

(* id and row are the event at hand, old what was read of it for           *)
(* previous_data; copies holds the events a bulk action has loaded and     *)
(* still has to treat, to the status it sets; language is what a guest     *)
(* selected and shown the translation the page has; texts are the texts a  *)
(* form was submitted with, read those it was loaded with.                 *)
Request == [at: Steps, id: Ids \cup {None}, row: Row \cup {None}, old: Row \cup {None},
            copies: [Ids -> Row \cup {None}], to: Statuses,
            language: Languages \cup {None}, shown: Languages \cup {None},
            texts: Content, read: Content]

Nothing == [i \in Ids |-> None]
Untitled == [l \in Languages |-> None]

Idle == [at |-> "idle", id |-> None, row |-> None, old |-> None, copies |-> Nothing,
         to |-> "draft", language |-> None, shown |-> None,
         texts |-> Untitled, read |-> Untitled]

Entry(action, i, old, new) == [action |-> action, id |-> i, old |-> old, new |-> new]

(* The entry save_related writes about texts and theme.                    *)
ContentUpdated(i, old, new) ==
  Entry("event_content_updated", i, old, [translations |-> new])

Init ==
  /\ events = Nothing
  /\ texts = [i \in Ids |-> Untitled]
  /\ issued = {}
  /\ audit = {}
  /\ req = [w \in Workers |-> Idle]
  /\ begun = 0

Begin(w) == req[w].at = "idle" /\ begun < MaxRequests /\ begun' = begun + 1

Finish(w) == req' = [req EXCEPT ![w] = Idle]

-----------------------------------------------------------------------------
(* The add and change forms.                                               *)

(* EventAdminForm.clean, and Event.clean on the instance it filled in,     *)
(* which takes the default language where no language is enabled.          *)
FormClean(f) ==
  /\ f.languages # {} /\ f.default_language \in f.languages
  /\ \A l \in f.languages : f.texts[l] # None

EventClean(f) == f.languages = {} \/ f.default_language \in f.languages

Valid(f) == FormClean(f) /\ EventClean(f)

(* Fault: translations of languages that were disabled are removed.        *)
TranslationsOfEnabled(i, languages, submitted) ==
  [l \in Languages |-> IF l \in languages THEN submitted[l] ELSE None]

(* save_translations: enabled languages are written, others are kept.      *)
Translations(i, languages, submitted) ==
  [l \in Languages |-> IF l \in languages THEN submitted[l] ELSE texts[i][l]]

(* Fault: a change is looked for in the default language only.             *)
TranslationChangedInDefault(r) ==
  r.texts[r.row.default_language] # r.read[r.row.default_language]

(* translation_changed: the form compares with what it was loaded with.    *)
TranslationChanged(r) == r.texts # r.read

Columns(f, published) ==
  [status |-> f.status, languages |-> f.languages,
   default_language |-> f.default_language, published |-> published]

Add(w, i, f) ==
  /\ Begin(w)
  /\ i \in Ids \ issued /\ Valid(f)
  /\ LET row == Columns(f, f.status = "published")
         new == Translations(i, f.languages, f.texts) IN
       /\ events' = [events EXCEPT ![i] = row]
       /\ texts' = [texts EXCEPT ![i] = new]
       /\ audit' = audit \cup {Entry("event_created", i, None, row),
                               ContentUpdated(i, None, new)}
  /\ issued' = issued \cup {i}
  /\ UNCHANGED req

(* get_object, and the form on top of it; published_at is not in the form. *)
ChangeLoad(w, i, f) ==
  /\ Begin(w)
  /\ i \in Stored /\ Valid(f)
  /\ req' = [req EXCEPT ![w] =
       [Idle EXCEPT !.at = "form_loaded", !.id = i,
                    !.row = Columns(f, events[i].published),
                    !.texts = f.texts, !.read = texts[i]]]
  /\ UNCHANGED <<table, audit>>

(* published_at is set when the event was not published so far.            *)
Stamped(row, old) ==
  IF row.status = "published" /\ old.status # "published"
  THEN [row EXCEPT !.published = TRUE] ELSE row

(* Fault: previous_data is taken from the object the form has filled in.   *)
ChangeFetchFilledIn(w) ==
  /\ req[w].at = "form_loaded" /\ req[w].id \in Stored
  /\ req' = [req EXCEPT ![w] =
       [req[w] EXCEPT !.at = "form_fetched", !.old = req[w].row,
                      !.row = Stamped(req[w].row, events[req[w].id])]]
  /\ UNCHANGED <<table, audit, begun>>

(* save_model reads the row again, for previous_data and published_at.     *)
ChangeFetch(w) ==
  /\ req[w].at = "form_loaded" /\ req[w].id \in Stored
  /\ req' = [req EXCEPT ![w] =
       [req[w] EXCEPT !.at = "form_fetched", !.old = events[req[w].id],
                      !.row = Stamped(req[w].row, events[req[w].id])]]
  /\ UNCHANGED <<table, audit, begun>>

(* Fault: the new status names the action.                                 *)
ActionOfStatus(old, new) ==
  IF old.status = new.status THEN "event_updated" ELSE new.status

ActionOf(old, new) ==
  IF old.status = new.status THEN "event_updated"
  ELSE CASE new.status = "published" -> "event_published"
         [] new.status = "registration_closed" -> "registration_closed"
         [] new.status = "archived" -> "event_archived"
         [] OTHER -> "event_updated"

(* Model.save() updates the row, or inserts it when it is gone; the entry, *)
(* the translations, and an entry about them if the form changed any, or   *)
(* the theme, are committed with it.                                       *)
ChangeSave(w) ==
  LET i == req[w].id  row == req[w].row  old == req[w].old
      new == Translations(i, row.languages, req[w].texts) IN
  /\ req[w].at = "form_fetched"
  /\ events' = [events EXCEPT ![i] = row]
  /\ texts' = [texts EXCEPT ![i] = new]
  /\ \E content \in SUBSET {ContentUpdated(i, [translations |-> texts[i]], new)} :
       /\ TranslationChanged(req[w]) => content # {}
       /\ audit' = audit \cup {Entry(ActionOf(old, row), i, old, row)} \cup content
  /\ Finish(w)
  /\ UNCHANGED <<issued, begun>>

-----------------------------------------------------------------------------
(* Bulk actions: publish_events, close_registrations, archive_events.      *)
BulkAction(status) ==
  CASE status = "published" -> "event_published"
    [] status = "registration_closed" -> "registration_closed"
    [] status = "archived" -> "event_archived"

(* The for statement loads all selected events at once.                    *)
BulkLoad(w, selected, status) ==
  /\ Begin(w) /\ selected # {} /\ selected \subseteq Stored
  /\ req' = [req EXCEPT ![w] =
       [Idle EXCEPT !.at = "bulk", !.to = status,
                    !.copies = [i \in Ids |-> IF i \in selected THEN events[i] ELSE None]]]
  /\ UNCHANGED <<table, audit>>

(* Fault: published_at is left alone.                                      *)
ChangedWithoutDate(copy, status) == [copy EXCEPT !.status = status]

(* _change_status on one loaded event.                                     *)
Changed(copy, status) ==
  [copy EXCEPT !.status = status, !.published = @ \/ status = "published"]

(* save() writes every column of the copy and makes the row if it is gone. *)
BulkSave(w, i) ==
  /\ req[w].at = "bulk" /\ req[w].copies[i] # None
  /\ events' = [events EXCEPT ![i] = Changed(req[w].copies[i], req[w].to)]
  /\ req' = [req EXCEPT ![w] =
       [at |-> "bulk_saved", id |-> i, row |-> Changed(req[w].copies[i], req[w].to),
        old |-> req[w].copies[i], copies |-> [req[w].copies EXCEPT ![i] = None],
        to |-> req[w].to, language |-> None, shown |-> None,
        texts |-> Untitled, read |-> Untitled]]
  /\ UNCHANGED <<texts, issued, audit, begun>>

(* What follows the treatment of one event: the next one, or the response. *)
Proceed(w, at) ==
  req' = [req EXCEPT ![w] =
    IF req[w].copies = Nothing THEN Idle
    ELSE [at |-> at, id |-> None, row |-> None, old |-> None,
          copies |-> req[w].copies, to |-> req[w].to, language |-> None, shown |-> None,
          texts |-> Untitled, read |-> Untitled]]

(* Fault: the entry is written once for the whole selection, at the end.   *)
BulkLogLast(w) ==
  /\ req[w].at = "bulk_saved" /\ req[w].id \in Stored
  /\ audit' = IF req[w].copies # Nothing THEN audit
              ELSE audit \cup {Entry(BulkAction(req[w].to), req[w].id, req[w].old, req[w].row)}
  /\ Proceed(w, "bulk")
  /\ UNCHANGED <<table, begun>>

(* The entry refers to the event, so it must still be there; otherwise the *)
(* foreign key ends the action (Abandon).                                  *)
BulkLog(w) ==
  /\ req[w].at = "bulk_saved" /\ req[w].id \in Stored
  /\ audit' = audit \cup {Entry(BulkAction(req[w].to), req[w].id, req[w].old, req[w].row)}
  /\ Proceed(w, "bulk")
  /\ UNCHANGED <<table, begun>>

-----------------------------------------------------------------------------
(* Deletion, for administrators: on the event's page, or in bulk.          *)
DeleteLoad(w, i) ==
  /\ Begin(w) /\ i \in Stored
  /\ req' = [req EXCEPT ![w] = [Idle EXCEPT !.at = "delete_loaded", !.id = i,
                                            !.old = events[i]]]
  /\ UNCHANGED <<table, audit>>

Gone(i) ==
  /\ events' = [events EXCEPT ![i] = None]
  /\ texts' = [texts EXCEPT ![i] = Untitled]
  /\ UNCHANGED issued

(* Fault: delete_model does not log.                                       *)
DeleteUnlogged(w) ==
  /\ req[w].at = "delete_loaded"
  /\ Gone(req[w].id) /\ Finish(w)
  /\ UNCHANGED <<audit, begun>>

DeletePage(w) ==
  /\ req[w].at = "delete_loaded"
  /\ audit' = audit \cup {Entry("event_deleted", req[w].id, req[w].old, None)}
  /\ Gone(req[w].id) /\ Finish(w)
  /\ UNCHANGED begun

BulkDeleteLoad(w, selected) ==
  /\ Begin(w) /\ selected # {} /\ selected \subseteq Stored
  /\ req' = [req EXCEPT ![w] =
       [Idle EXCEPT !.at = "bulk_delete",
                    !.copies = [i \in Ids |-> IF i \in selected THEN events[i] ELSE None]]]
  /\ UNCHANGED <<table, audit>>

BulkDeleteLog(w, i) ==
  /\ req[w].at = "bulk_delete" /\ req[w].copies[i] # None /\ i \in Stored
  /\ audit' = audit \cup {Entry("event_deleted", i, req[w].copies[i], None)}
  /\ req' = [req EXCEPT ![w] =
       [at |-> "bulk_delete_logged", id |-> i, row |-> None, old |-> None,
        copies |-> [req[w].copies EXCEPT ![i] = None], to |-> req[w].to,
        language |-> None, shown |-> None,
        texts |-> Untitled, read |-> Untitled]]
  /\ UNCHANGED <<table, begun>>

BulkDeleteRow(w) ==
  /\ req[w].at = "bulk_delete_logged"
  /\ Gone(req[w].id)
  /\ Proceed(w, "bulk_delete")
  /\ UNCHANGED <<audit, begun>>

-----------------------------------------------------------------------------
(* The public page: the event's row is read, and then its translations, as *)
(* the page of thanks does.  What staff preview is shown the same way.     *)

(* Fault: disabled languages can be selected.                              *)
SelectableAny(row) == Languages

(* _select_language: the address, a cookie and the browser each propose a  *)
(* language; the first that is enabled is selected, else the default one.  *)
Selectable(row) == row.languages \cup {row.default_language}

ReadPage(w, i, language) ==
  /\ Begin(w)
  /\ i \in Stored /\ language \in Selectable(events[i])
  /\ req' = [req EXCEPT ![w] = [Idle EXCEPT !.at = "page_loaded", !.id = i,
                                            !.row = events[i], !.language = language]]
  /\ UNCHANGED <<table, audit>>

PageLoad(w, i, language) ==
  events[i].status \notin {"draft", "archived"} /\ ReadPage(w, i, language)

(* registration_thanks asks for an enabled language, whatever the status.  *)
ThanksLoad(w, i, language) ==
  language \in events[i].languages /\ ReadPage(w, i, language)

(* translation_for: the selected language, the default one, or any.        *)
TranslationFor(i, row, language) ==
  IF language \in titled[i] THEN {language}
  ELSE IF row.default_language \in titled[i] THEN {row.default_language}
  ELSE IF titled[i] # {} THEN titled[i] ELSE {None}

PageShow(w) ==
  /\ req[w].at = "page_loaded"
  /\ \E shown \in TranslationFor(req[w].id, req[w].row, req[w].language) :
       req' = [req EXCEPT ![w] =
         [Idle EXCEPT !.at = "page_shown", !.id = req[w].id,
                      !.language = req[w].language, !.shown = shown]]
  /\ UNCHANGED <<table, audit, begun>>

PageSent(w) ==
  /\ req[w].at = "page_shown"
  /\ Finish(w) /\ UNCHANGED <<table, audit, begun>>

-----------------------------------------------------------------------------
(* save_model's query finds nothing, or an entry's foreign key fails: the  *)
(* request ends, and so does the rest of a bulk action.                    *)
Fails(w) ==
  /\ \/ req[w].at \in {"form_loaded", "bulk_saved"} /\ req[w].id \notin Stored
     \/ req[w].at = "bulk_delete" /\ \E i \in Ids \ Stored : req[w].copies[i] # None
  /\ Finish(w) /\ UNCHANGED <<table, audit, begun>>

Crash(w) ==
  /\ req[w].at # "idle"
  /\ Finish(w) /\ UNCHANGED <<table, audit, begun>>

BulkStatuses == {"published", "registration_closed", "archived"}

FormStep(w) ==
  \/ \E i \in Ids, f \in Forms : Add(w, i, f) \/ ChangeLoad(w, i, f)
  \/ ChangeFetch(w) \/ ChangeSave(w)

BulkStep(w) ==
  \/ \E selected \in SUBSET Ids :
       \/ \E status \in BulkStatuses : BulkLoad(w, selected, status)
       \/ BulkDeleteLoad(w, selected)
  \/ \E i \in Ids : BulkSave(w, i) \/ BulkDeleteLog(w, i)
  \/ BulkLog(w) \/ BulkDeleteRow(w)

DeleteStep(w) == \/ \E i \in Ids : DeleteLoad(w, i)
                 \/ DeletePage(w)

PageStep(w) == \/ \E i \in Stored, language \in Languages :
                     PageLoad(w, i, language) \/ ThanksLoad(w, i, language)
               \/ PageShow(w) \/ PageSent(w)

Next ==
  \E w \in Workers :
    FormStep(w) \/ BulkStep(w) \/ DeleteStep(w) \/ PageStep(w) \/ Fails(w) \/ Crash(w)

Spec == Init /\ [][Next]_vars

-----------------------------------------------------------------------------
(* The types of the state.                                                 *)
TypeOK ==
  /\ events \in [Ids -> Row \cup {None}]
  /\ texts \in [Ids -> Content]
  /\ issued \subseteq Ids
  /\ audit \subseteq [action: Actions, id: Ids, old: Row \cup Snapshot \cup {None},
                      new: Row \cup Snapshot \cup {None}]
  /\ req \in [Workers -> Request]
  /\ begun \in 0..MaxRequests

Titled(i, row) == row.languages \subseteq titled[i]

DeletionLogged(i) == \E e \in audit : e.action = "event_deleted" /\ e.id = i

(* Every enabled language of an event has a translation, or the event was  *)
(* deleted once, as the audit log tells: stale copies that overwrite newer *)
(* rows enable no language without a title, since titles are kept.         *)
TitlesKept == \A i \in Stored : Titled(i, events[i]) \/ DeletionLogged(i)

(* A guest is shown the language that was selected, though the event's row *)
(* and its translations are read at different times, unless the event was  *)
(* deleted; registration_thanks relies on there being a translation.       *)
PagesInSelectedLanguage ==
  \A w \in Workers :
     req[w].at = "page_shown" => req[w].shown = req[w].language \/ DeletionLogged(req[w].id)

(* An event that is gone has an entry that says so, whatever crashed.      *)
DeletionsLogged == \A i \in issued \ Stored : DeletionLogged(i)

(* The form of some worker that is saved was loaded with other texts.      *)
OutdatedForm(i) ==
  \E w \in Workers : /\ req[w].at = "form_fetched" /\ req[w].id = i
                     /\ req'[w] # req[w] /\ req[w].read # texts[i]

(* A change of an event's texts is logged with the texts before and after, *)
(* unless the form that is saved was loaded before another changed them:   *)
(* then it may look unchanged to itself and restore the former texts.      *)
TextsLogged ==
  [][\A i \in Stored :
       events'[i] # None /\ texts'[i] # texts[i] =>
         \/ ContentUpdated(i, [translations |-> texts[i]], texts'[i]) \in audit'
         \/ OutdatedForm(i)]_vars
=============================================================================
