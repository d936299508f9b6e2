-------------------------------- MODULE Rsvp --------------------------------
(***************************************************************************)
(* The responses (registrations) of one event: guests answer through the   *)
(* public page, administrators edit and delete answers, and gunicorn runs  *)
(* the handlers in parallel.  No view is wrapped in a transaction          *)
(* (ATOMIC_REQUESTS is not set), so every ORM statement commits on its own *)
(* and handlers interleave between statements.  The change form and the    *)
(* delete page of the admin site are the exception: Django runs each in    *)
(* one transaction, here one committing step.                              *)
(*                                                                         *)
(* One event is enough: every query the handlers make is scoped to it.     *)
(* The admin site moves answers between events; of those that belong to    *)
(* another event only the client is kept, in away.                         *)
(*                                                                         *)
(* E-mail addresses and names stand for their case-insensitive class, as   *)
(* they are lowered or compared with __iexact wherever they are used.      *)
(***************************************************************************)
EXTENDS Naturals

CONSTANTS
  Workers,    \* worker threads, each running one request at a time
  Browsers,   \* guests' browsers, which keep one response cookie each
  Ids,        \* primary keys; each also names the row's unique edit_token
  Names, Emails, Phones,
  Blank,      \* the empty e-mail or phone
  Digits,     \* what clean_phone makes of a phone as typed
  Forms,      \* what guests submit
  Edits,      \* what administrators submit
  EventRows,  \* the contents the event's row takes
  MaxTime,    \* bound on the clock
  None        \* no row, no date, no cookie

Attendance == {"attending", "declined"}

Form == [name: Names, email: Emails, phone: Phones,
         status: Attendance, guests: Nat]

EventRow ==
  [status: {"draft", "published", "registration_closed", "completed", "archived"},
   allow_public_registration: BOOLEAN,
   registration_starts_at: Nat \cup {None},
   registration_ends_at: Nat \cup {None},
   max_guests: Nat, require_email: BOOLEAN, require_phone: BOOLEAN]

ASSUME DataAssumption ==
  /\ Blank \in Emails /\ Blank \in Phones
  /\ Digits \in [Phones -> Phones]
  /\ Digits[Blank] = Blank
  /\ Forms \subseteq Form /\ Edits \subseteq Form
  /\ EventRows \subseteq EventRow

(* A stored response: the answer, and the client it came from (the ip_hash *)
(* and user_agent columns).                                                *)
Row == [answer: Form, agent: Browsers]

ASSUME NoneAssumption ==
  /\ None \notin Ids /\ None \notin Browsers /\ None \notin Nat
  /\ None \notin EventRow /\ None \notin Form /\ None \notin Row

ASSUME TimeAssumption == MaxTime \in Nat

VARIABLES
  event,    \* the event's row, None once it is deleted
  now,      \* timezone.now()
  rows,     \* the event's registrations: id -> Row, or None
  away,     \* other events' registrations: id -> their client, or None
  issued,   \* ids of all those rows so far; the sequence repeats none
  cookie,   \* the event_response_<id> cookie of each browser
  audit,    \* AuditLog entries about registrations
  req,      \* the request each worker is running, with its local variables
  edited,   \* history: ids an administrator has saved
  cascaded, \* history: ids of rows that went with their event
  overlap,  \* history: ids written since the worker's duplicate query
  raced,    \* history: pairs of an id stored so and one in its overlap
  late,     \* history: answers each worker stored since publication ended
  cut       \* history: edits whose worker was killed before it logged them

dbVars == <<event, rows, away, issued, audit>>
history == <<edited, cascaded, overlap, raced, late, cut>>
vars == <<event, now, rows, away, issued, cookie, audit, req,
          edited, cascaded, overlap, raced, late, cut>>

Stored == {i \in Ids : rows[i] # None}
Away == {i \in Ids : away[i] # None}

Steps == {"idle", "posted", "checked", "stored",
          "edit_loaded", "edit_saved", "delete_loaded", "delete_logged",
          "site_loaded", "site_fetched"}

Request == [at: Steps, form: Form \cup {None}, agent: Browsers \cup {None},
            cookie: Ids \cup {None}, event: EventRows \cup {None},
            id: Ids \cup {None}]

Idle == [at |-> "idle", form |-> None, agent |-> None, cookie |-> None,
         event |-> None, id |-> None]

Updated(i, f) == [action |-> "registration_updated", id |-> i, new |-> f]
Moved(i)      == [action |-> "registration_updated", id |-> i, new |-> None]
Deleted(i)    == [action |-> "registration_deleted", id |-> i, new |-> None]

Init ==
  /\ event \in EventRows
  /\ now = 0
  /\ rows = [i \in Ids |-> None]
  /\ away \in [Ids -> Browsers \cup {None}]
  /\ issued = Away
  /\ cookie = [b \in Browsers |-> None]
  /\ audit = {}
  /\ req = [w \in Workers |-> Idle]
  /\ edited = {}
  /\ cascaded = {}
  /\ overlap = [w \in Workers |-> {}]
  /\ raced = {}
  /\ late = [w \in Workers |-> 0]
  /\ cut = {}

-----------------------------------------------------------------------------
(* The public page: event_page with method POST.                           *)

(* Fault: the event's status is not looked at.                             *)
OpenByDate(ev) ==
  /\ ev.allow_public_registration
  /\ ev.registration_starts_at # None => now >= ev.registration_starts_at
  /\ ev.registration_ends_at # None => now <= ev.registration_ends_at

AcceptsRegistrations(ev) ==
  /\ ev.status = "published" /\ ev.allow_public_registration
  /\ ev.registration_starts_at # None => now >= ev.registration_starts_at
  /\ ev.registration_ends_at # None => now <= ev.registration_ends_at

ValidForm(f, ev) ==
  /\ ev.require_email => f.email # Blank
  /\ ev.require_phone => f.phone # Blank
  /\ f.status = "attending" => f.guests <= ev.max_guests

(* Fault: clean_guest_count returns nothing for a declining guest.         *)
CleanGuestsOrNone(f) == IF f.status = "declined" THEN None ELSE f.guests

(* clean_guest_count: declining guests bring nobody.                       *)
CleanGuests(f) == IF f.status = "declined" THEN 0 ELSE f.guests

CleanForm(f) == [f EXCEPT !.phone = Digits[f.phone], !.guests = CleanGuests(f)]

HasContact(f) == f.email # Blank \/ f.phone # Blank

(* The Q object of existing_registration: either contact may match.        *)
SameContact(f, g) ==
  \/ f.email # Blank /\ f.email = g.email
  \/ f.phone # Blank /\ f.phone = g.phone

(* Fault: the phone is consulted only when no e-mail is given.             *)
ExistingByFirstContact(f, token) ==
  \E i \in Stored :
     IF HasContact(f) THEN IF f.email # Blank THEN f.email = rows[i].answer.email
                                              ELSE f.phone = rows[i].answer.phone
                      ELSE i = token /\ rows[i].answer.name = f.name

(* Without contacts only the row the browser's cookie names is looked at.  *)
ExistingRegistration(f, token) ==
  \E i \in Stored :
     IF HasContact(f) THEN SameContact(f, rows[i].answer)
                      ELSE i = token /\ rows[i].answer.name = f.name

(* The view loads the event's row once and uses that copy to the end.      *)
(* Guests get a 404 for a draft or archived event.                         *)
Post(w, b, f) ==
  /\ req[w].at = "idle"
  /\ event # None /\ event.status \notin {"draft", "archived"}
  /\ req' = [req EXCEPT ![w] = [Idle EXCEPT !.at = "posted", !.form = f, !.agent = b,
                                            !.cookie = cookie[b], !.event = event]]
  /\ UNCHANGED <<dbVars, now, cookie, history>>

(* The page is shown again: too many requests, a honeypot or timing-token  *)
(* failure, an invalid field, registration closed, or a duplicate.  The    *)
(* rate limiter and the token do not depend on anything kept here, so any  *)
(* posted form may meet this end.                                          *)
Refuse(w) ==
  /\ req[w].at = "posted"
  /\ req' = [req EXCEPT ![w] = Idle]
  /\ UNCHANGED <<dbVars, now, cookie, history>>

(* is_valid(), accepts_registrations and the duplicate query all pass.     *)
Check(w) ==
  LET f == CleanForm(req[w].form) IN
  /\ req[w].at = "posted"
  /\ ValidForm(req[w].form, req[w].event)
  /\ AcceptsRegistrations(req[w].event)
  /\ ~ExistingRegistration(f, req[w].cookie)
  /\ req' = [req EXCEPT ![w] = [Idle EXCEPT !.at = "checked", !.form = f,
                                !.agent = req[w].agent, !.event = req[w].event]]
  /\ overlap' = [overlap EXCEPT ![w] = {}]
  /\ UNCHANGED <<dbVars, now, cookie, edited, cascaded, raced, late, cut>>

(* Workers whose duplicate query came before the row i was written.        *)
Written(i) ==
  [v \in Workers |-> IF req[v].at = "checked" THEN overlap[v] \cup {i} ELSE overlap[v]]

(* Fault: the id of a deleted row is handed out again.                     *)
StoreReusingIds(w, i) ==
  /\ req[w].at = "checked"
  /\ event # None
  /\ i \in Ids \ Stored
  /\ rows' = [rows EXCEPT ![i] = [answer |-> req[w].form, agent |-> req[w].agent]]
  /\ issued' = issued \cup {i}
  /\ req' = [req EXCEPT ![w] = [Idle EXCEPT !.at = "stored", !.id = i,
                                            !.agent = req[w].agent]]
  /\ UNCHANGED <<event, away, now, cookie, audit, history>>

(* submit_registration: one INSERT, in a transaction of its own.           *)
Store(w, i) ==
  /\ req[w].at = "checked"
  /\ event # None
  /\ i \in Ids \ issued
  /\ rows' = [rows EXCEPT ![i] = [answer |-> req[w].form, agent |-> req[w].agent]]
  /\ issued' = issued \cup {i}
  /\ req' = [req EXCEPT ![w] = [Idle EXCEPT !.at = "stored", !.id = i,
                                            !.agent = req[w].agent]]
  /\ overlap' = [Written(i) EXCEPT ![w] = {}]
  /\ raced' = raced \cup {{i, j} : j \in overlap[w]}
  /\ late' = IF event.status = "published" THEN late
             ELSE [late EXCEPT ![w] = late[w] + 1]
  /\ UNCHANGED <<event, away, now, cookie, audit, edited, cascaded, cut>>

(* The event was deleted meanwhile: the foreign key fails the INSERT.      *)
StoreFails(w) ==
  /\ req[w].at = "checked" /\ event = None
  /\ req' = [req EXCEPT ![w] = Idle]
  /\ UNCHANGED <<dbVars, now, cookie, history>>

(* The redirect reaches the browser, with the new row's token as cookie.   *)
Respond(w) ==
  /\ req[w].at = "stored"
  /\ cookie' = [cookie EXCEPT ![req[w].agent] = req[w].id]
  /\ req' = [req EXCEPT ![w] = Idle]
  /\ UNCHANGED <<dbVars, now, history>>

-----------------------------------------------------------------------------
(* The statistics page: registration_edit and registration_delete.         *)

(* RegistrationAdminEditForm.clean.                                        *)
EditValid(g) == g.status = "attending" => g.guests <= event.max_guests

EditLoad(w, i, g) ==
  /\ req[w].at = "idle"
  /\ i \in Stored /\ EditValid(g)
  /\ req' = [req EXCEPT ![w] =
       [Idle EXCEPT !.at = "edit_loaded", !.id = i, !.agent = rows[i].agent,
                    !.form = [g EXCEPT !.guests = CleanGuests(g)]]]
  /\ UNCHANGED <<dbVars, now, cookie, history>>

(* Model.save() updates the row by primary key, wherever it has gone, and  *)
(* inserts it when no row has that key.                                    *)
SaveRow(w) ==
  /\ rows' = [rows EXCEPT ![req[w].id] = [answer |-> req[w].form, agent |-> req[w].agent]]
  /\ away' = [away EXCEPT ![req[w].id] = None]
  /\ edited' = edited \cup {req[w].id}
  /\ cascaded' = cascaded \ {req[w].id}
  /\ overlap' = Written(req[w].id)

EditSave(w) ==
  /\ req[w].at = "edit_loaded" /\ event # None
  /\ SaveRow(w)
  /\ req' = [req EXCEPT ![w].at = "edit_saved"]
  /\ UNCHANGED <<event, now, issued, cookie, audit, raced, late, cut>>

EditLog(w) ==
  /\ req[w].at = "edit_saved" /\ event # None
  /\ audit' = audit \cup {Updated(req[w].id, req[w].form)}
  /\ req' = [req EXCEPT ![w] = Idle]
  /\ UNCHANGED <<event, rows, away, issued, now, cookie, history>>

(* Also one object of the admin site's bulk deletion, delete_queryset,     *)
(* which calls delete_model outside a transaction.                         *)
DeleteLoad(w, i) ==
  /\ req[w].at = "idle"
  /\ i \in Stored
  /\ req' = [req EXCEPT ![w] = [Idle EXCEPT !.at = "delete_loaded", !.id = i]]
  /\ UNCHANGED <<dbVars, now, cookie, history>>

(* Fault: the row goes first, and its audit entry is forgotten.            *)
DeleteUnlogged(w) ==
  /\ req[w].at = "delete_loaded" /\ event # None
  /\ rows' = [rows EXCEPT ![req[w].id] = None]
  /\ req' = [req EXCEPT ![w].at = "delete_logged"]
  /\ UNCHANGED <<event, away, audit, issued, now, cookie, history>>

DeleteLog(w) ==
  /\ req[w].at = "delete_loaded" /\ event # None
  /\ audit' = audit \cup {Deleted(req[w].id)}
  /\ req' = [req EXCEPT ![w].at = "delete_logged"]
  /\ UNCHANGED <<event, rows, away, issued, now, cookie, history>>

DeleteRow(w) ==
  /\ req[w].at = "delete_logged"
  /\ rows' = [rows EXCEPT ![req[w].id] = None]
  /\ away' = [away EXCEPT ![req[w].id] = None]
  /\ req' = [req EXCEPT ![w] = Idle]
  /\ UNCHANGED <<event, issued, audit, now, cookie, history>>

(* Once the event is gone, what still refers to it fails its foreign key.  *)
AdminFails(w) ==
  /\ event = None
  /\ req[w].at \in {"edit_loaded", "edit_saved", "delete_loaded", "site_loaded", "site_fetched"}
  /\ req' = [req EXCEPT ![w] = Idle]
  /\ UNCHANGED <<dbVars, now, cookie, history>>

-----------------------------------------------------------------------------
(* The admin site: RegistrationAdmin, which shows every event's answers.   *)

(* The default model form checks no guest limit.                           *)
SiteLoad(w, i, g) ==
  /\ req[w].at = "idle"
  /\ i \in Stored \cup Away
  /\ req' = [req EXCEPT ![w] =
       [Idle EXCEPT !.at = "site_loaded", !.id = i, !.form = g,
                    !.agent = IF i \in Stored THEN rows[i].agent ELSE away[i]]]
  /\ UNCHANGED <<dbVars, now, cookie, history>>

(* save_model reads the row again for previous_data; DoesNotExist ends it. *)
SiteFetch(w) ==
  /\ req[w].at = "site_loaded"
  /\ req' = [req EXCEPT ![w] = IF req[w].id \in Stored \cup Away
                               THEN [req[w] EXCEPT !.at = "site_fetched"]
                               ELSE Idle]
  /\ UNCHANGED <<dbVars, now, cookie, history>>

(* Fault: save_model forgets log_action.                                   *)
SiteSaveUnlogged(w) ==
  /\ req[w].at = "site_fetched" /\ event # None
  /\ SaveRow(w)
  /\ req' = [req EXCEPT ![w] = Idle]
  /\ UNCHANGED <<event, now, issued, cookie, audit, raced, late, cut>>

(* The row and its audit entry commit together.                            *)
SiteSave(w) ==
  /\ req[w].at = "site_fetched" /\ event # None
  /\ SaveRow(w)
  /\ audit' = audit \cup {Updated(req[w].id, req[w].form)}
  /\ req' = [req EXCEPT ![w] = Idle]
  /\ UNCHANGED <<event, now, issued, cookie, raced, late, cut>>

(* The form has an event field, too, and another event is chosen.          *)
SiteMove(w) ==
  /\ req[w].at = "site_fetched"
  /\ rows' = [rows EXCEPT ![req[w].id] = None]
  /\ away' = [away EXCEPT ![req[w].id] = req[w].agent]
  /\ edited' = edited \cup {req[w].id}
  /\ cascaded' = cascaded \ {req[w].id}
  /\ audit' = audit \cup {Moved(req[w].id)}
  /\ req' = [req EXCEPT ![w] = Idle]
  /\ UNCHANGED <<event, now, issued, cookie, overlap, raced, late, cut>>

SiteDelete(w, i) ==
  /\ req[w].at = "idle"
  /\ i \in Stored \cup Away
  /\ audit' = audit \cup {Deleted(i)}
  /\ rows' = [rows EXCEPT ![i] = None]
  /\ away' = [away EXCEPT ![i] = None]
  /\ UNCHANGED <<event, issued, now, cookie, req, history>>

-----------------------------------------------------------------------------
(* The rest of the system, as far as responses notice it.                  *)

(* The change form and the bulk actions save a whole row, as it was read:  *)
(* when the event was deleted meanwhile, save() inserts it again under its *)
(* old key, without the answers that went with it.                         *)
SaveEvent(ev) ==
  /\ event' = ev
  /\ late' = IF ev.status = "published" THEN [w \in Workers |-> 0] ELSE late
  /\ UNCHANGED <<now, rows, away, issued, cookie, audit, req,
                 edited, cascaded, overlap, raced, cut>>

(* Deleting an event cascades to its registrations: this one ...           *)
DeleteEvent ==
  /\ event # None /\ event' = None
  /\ rows' = [i \in Ids |-> None]
  /\ cascaded' = cascaded \cup Stored
  /\ UNCHANGED <<away, issued, now, cookie, audit, req, edited, overlap, raced, late, cut>>

(* ... or another one.                                                     *)
DeleteOther(S) ==
  /\ away' = [i \in Ids |-> IF i \in S THEN None ELSE away[i]]
  /\ cascaded' = cascaded \cup S
  /\ UNCHANGED <<event, rows, issued, now, cookie, audit, req, edited, overlap, raced, late, cut>>

Tick ==
  /\ now < MaxTime /\ now' = now + 1
  /\ UNCHANGED <<dbVars, cookie, req, history>>

(* A worker is killed, or its answer never reaches the browser.            *)
Crash(w) ==
  /\ req[w].at # "idle"
  /\ req' = [req EXCEPT ![w] = Idle]
  /\ overlap' = [overlap EXCEPT ![w] = {}]
  /\ cut' = IF req[w].at = "edit_saved" THEN cut \cup {Updated(req[w].id, req[w].form)}
            ELSE cut
  /\ UNCHANGED <<dbVars, now, cookie, edited, cascaded, raced, late>>

GuestStep(w) ==
  \/ \E b \in Browsers, f \in Forms : Post(w, b, f)
  \/ Refuse(w) \/ Check(w)
  \/ \E i \in Ids : Store(w, i)
  \/ StoreFails(w) \/ Respond(w)

AdminStep(w) ==
  \/ \E i \in Ids, g \in Edits : EditLoad(w, i, g)
  \/ EditSave(w) \/ EditLog(w)
  \/ \E i \in Ids : DeleteLoad(w, i)
  \/ DeleteLog(w) \/ DeleteRow(w)
  \/ \E i \in Ids, g \in Edits : SiteLoad(w, i, g)
  \/ SiteFetch(w) \/ SiteSave(w) \/ SiteMove(w)
  \/ \E i \in Ids : SiteDelete(w, i)
  \/ AdminFails(w)

Environment ==
  \/ \E ev \in EventRows : SaveEvent(ev)
  \/ DeleteEvent
  \/ \E S \in SUBSET Away : DeleteOther(S)
  \/ Tick

CrashFreeNext == Environment \/ \E w \in Workers : GuestStep(w) \/ AdminStep(w)

Next == CrashFreeNext \/ \E w \in Workers : Crash(w)

Spec == Init /\ [][Next]_vars
CrashFreeSpec == Init /\ [][CrashFreeNext]_vars

-----------------------------------------------------------------------------
(* The types of the state.                                                 *)
TypeOK ==
  /\ event \in EventRows \cup {None}
  /\ now \in 0..MaxTime
  /\ rows \in [Ids -> Row \cup {None}]
  /\ away \in [Ids -> Browsers \cup {None}]
  /\ issued \subseteq Ids
  /\ cookie \in [Browsers -> Ids \cup {None}]
  /\ audit \subseteq [action: {"registration_updated", "registration_deleted"},
                      id: Ids, new: Form \cup {None}]
  /\ req \in [Workers -> Request]
  /\ edited \subseteq Ids
  /\ cascaded \subseteq Ids
  /\ overlap \in [Workers -> SUBSET Ids]
  /\ raced \subseteq SUBSET Ids
  /\ late \in [Workers -> Nat]
  /\ cut \subseteq [action: {"registration_updated"}, id: Ids, new: Form]

(* Two stored responses share an e-mail address or a phone number only if  *)
(* an administrator edited one of them, or their submissions overlapped:   *)
(* each had passed the query of existing_registration before the other's   *)
(* INSERT.  The query is of no help against the second cause.              *)
DuplicatesOnlyFromRaces ==
  \A i, j \in Stored :
     i # j /\ SameContact(rows[i].answer, rows[j].answer)
       => i \in edited \/ j \in edited \/ {i, j} \in raced

(* event_page trusts the copy of the event it loaded first, so closing     *)
(* registration does not stop requests under way; but each worker stores   *)
(* at most one such answer until the event is published again.             *)
AtMostOneLate == \A w \in Workers : late[w] <= 1

(* A response that is stored no more has an audit entry of its deletion,   *)
(* whatever crashed, or it went with its event: both delete paths log      *)
(* before they delete.  An answer that a stale copy brought back, or that  *)
(* moved between events, is no exception.                                  *)
DeletionsAudited ==
  \A i \in issued \ (Stored \cup Away) : Deleted(i) \in audit \/ i \in cascaded

(* Every answer an administrator wrote and that is stored has an audit     *)
(* entry with its data, or the worker that saved it is about to log it, or *)
(* it was killed between form.save() and log_action: a refusal, an error   *)
(* or another request never costs an edit its entry.                       *)
EditsAudited ==
  \A i \in Stored \cap edited :
     \/ Updated(i, rows[i].answer) \in audit \cup cut
     \/ \E w \in Workers : /\ req[w].at = "edit_saved" /\ req[w].id = i
                           /\ req[w].form = rows[i].answer

(* An answer that a guest adds shares no contact with one that was stored, *)
(* unless that one was written after the answer's own duplicate query.     *)
AnswersAreNew ==
  [][\A i \in issued' \ issued, j \in Stored :
        SameContact(rows'[i].answer, rows[j].answer) => {i, j} \in raced']_vars

(* A response that a guest adds shares no contact, however it is spelled,  *)
(* with a guest's response that was there: what the page promises.         *)
NewResponseIsNew ==
  [][\A i \in issued' \ issued, j \in Stored \ edited :
        ~SameContact(rows'[i].answer, CleanForm(rows[j].answer))]_vars

(* A response that was deleted, or moved to another event, comes back only *)
(* by the hand of an administrator who had opened it before.               *)
NoResurrection ==
  [][\A i \in issued \ Stored :
        rows'[i] # None =>
          \E w \in Workers : req[w].id = i /\ req[w].at \in {"edit_loaded", "site_fetched"}]_vars
=============================================================================
