# Verification of the event registration site

TLA+ models of the Django application under `src/`, TLC runs that check them on
small instances, and TLAPS proofs of their main properties for every instance.

The application publishes event pages in several languages, collects guests'
answers (RSVP), and gives staff an admin site. Almost nothing in it is
concurrent by its text, and almost everything is by its deployment: three
gunicorn workers (`docker-compose.yml:6`), or two with two threads each
(`render.yaml:12-14`), run the views in parallel on one PostgreSQL database and
one Redis cache. `ATOMIC_REQUESTS` is not set, so outside the places that open a
transaction every ORM statement commits on its own, and `Model.save()` writes
every column of a copy that may be old, or inserts the row again when it is
gone. That is what the models are about.

## Inventory

| Component | State | Operations | Talks to |
|---|---|---|---|
| Public RSVP (`events/views.py`, `events/forms.py`, `registrations/services.py`) | registration rows; one `event_response_<id>` cookie per browser | `event_page` POST: load event, limit, validate, look for a duplicate, insert, redirect with cookie | rate limiter, event row, database |
| Response management (`events/views.py`, `registrations/admin.py`) | the same rows, audit entries | `registration_edit`, `registration_delete`; the admin site's change form, delete page and bulk deletion | audit log |
| Rate limiter (`registrations/anti_abuse.py`) | one counter per event, client, level and window in Redis | `registration_rate_limited`, `_increment`: `add`, `incr` (EXISTS, INCR), `set` | Redis |
| Form token (`events/forms.py`) | a signed time in the page | issue on an unbound form, check on POST | rate limiter, asked before it |
| Accounts (`accounts/`) | users: address, username, `is_superuser`, `is_active` | add, change, delete, passwords, `bootstrap_admin`, login | audit log |
| Events (`events/admin.py`, `admin_forms.py`, `models.py`) | event rows, translations, theme | add and change form, publish/close/archive in bulk, delete, bulk delete | audit log, media files |
| Public page (`event_page` GET, `registration_thanks`) | none (reads) | select a language, find its translation | events, analytics |
| Audit log (`audit/`) | append-only entries | `log_action` | all of the above |
| Media (`events/signals.py`, `validators.py`, `config/storage.py`) | files named by columns | re-encode on save, delete after commit when unreferenced | translations, theme |
| Page views (`analytics/services.py`) | page-view rows, deduplication keys in Redis, the visitor's cookie | `visitor_id_for_request`, `record_event_view` | Redis, public page |
| Statistics, response lists, CSV export (`analytics/services.py`, `events/views.py`, `registrations/services.py`) | none (reads) | `event_statistics`: filter, order, pages, six figures; `registrations_export` | answers, page views, audit log |
| Backup and restore (`docker-compose.yml`, `scripts/`) | dump, archive and checksums per name | `pg_dump`, `tar`, `sha256sum`; stop, verify, `pg_restore`, empty and fill the files, start | database, files, the running site |
| Health check, interface texts, templates, commands, migrations, settings | none, or outside the server | see `PROJECT.json` | |

What is hard, and where it bites, is listed under `hazards` in `PROJECT.json`.
In short: check-then-act without a lock (duplicates, the last administrator,
`clean_email`), stale copies saved whole (answers, users, events), two commits
where one was meant (edit and its entry, deletion and its entry, key and view),
a cache that forgets or fails, files outside the transaction, and figures, lists
and backups put together from several moments.

What makes each component correct:

* **RSVP**: no two answers share a contact unless the code could not know;
  closing registration stops all but the requests under way; deletions of
  answers are final and, like edits, audited.
* **Rate limiter**: at most the configured number of posts pass per window
  unless the cache fails or forgets, none is refused while there is room, and counters outlive their window but
  do not stay.
* **Form token**: a guest who keeps trying is accepted, although pages are too
  young, grow too old, and every attempt counts against the limiter.
* **Accounts**: an address identifies one user and logs that user in; there is
  always an active administrator; rights change only as somebody else asks;
  changes are logged.
* **Events**: each enabled language has a title; guests see the language
  selected; published events carry a date; the log tells every change of the
  row and of its texts, and every deletion, with what was there before.
* **Media**: no file that is named is deleted or missing, and none stays for
  good without a name.
* **Page views**: a visitor counts once per period, and is counted.
* **Statistics, lists, export**: who pages to the end has seen everything;
  figures agree up to what changed between them; no row leaves unlogged.
* **Backup**: its files match its rows; a site that is up has its images.

## Modules

| Module | Models | Proofs | Small instances |
|---|---|---|---|
| `Rsvp` | public RSVP and response management of one event | `RsvpProofs` | `MCRsvp` |
| `RateLimit` | the rate limiter for one client and event | `RateLimitProofs` | `MCRateLimit` |
| `Quota` | what a rate limiter promises (abstract) | `RateLimitProofs` | `MCRateLimit` |
| `PublicForm` | one guest, the form token and the limiter, over time | `PublicFormProofs` | `PublicForm` itself |
| `Administrators`, `AdministratorsHistory` | user accounts | `AdministratorsProofs` | `MCAdministrators` |
| `Events`, `EventsHistory` | events, their translations, their log, the public page | `EventsProofs` | `MCEvents` |
| `Media` | image files of events and the columns that name them | `BackupProofs` | `MCMedia` |
| `Backup` | backup and restore, composed with `Media` | `BackupProofs` | `MCBackup` |
| `PageViews` | visitors, deduplication keys, page views of one event | `PageViewsProofs` | `MCPageViews` |
| `Statistics` | statistics pages, response lists, CSV export of one event | `StatisticsProofs` | `MCStatistics` |

Most follow one pattern. `req[w]` is the request worker `w` runs, with the
step it has reached and its local variables: above all the copies of rows it
has read. One action is the code between two points at which other workers can
interleave, that is between two commits or cache commands, or between a read
and what is done with it. A request's copies in `req` are never refreshed by
others' commits, just as a Python object is not. `Crash` (`Abandon` in
`Administrators` and `Media`, `Unreachable` in `RateLimit`) ends a request at any step and
leaves what it has committed. An id is never used again, as with a PostgreSQL
sequence: `issued` remembers those handed out.

What runs in one transaction is one committing step, after one step per row it
read: Django's change, add and delete pages (`changeform_view`, `delete_view`)
are atomic, at READ COMMITTED and without row locks on what they read. Bulk
actions, the statistics page's views and the public page are not.

The `*History` modules extend a module by variables that nothing but properties
reads. A request is *overtaken* when another one writes the table (for events:
the row) during it; what an overtaken request writes is *tainted*; an entry a
killed worker did not get to is *cut*. So the properties hold for any number of
overlapping requests and say exactly which overlap they except, instead of
holding only when nothing overlaps.

Each module also holds operators that a comment marks with "Fault:". They are
deliberately wrong variants of the definition below them, no part of any
specification; replacing the definition by the variant must break the property
that `PROJECT.json` names under `mutants`. They show that no property is empty.

### Rsvp

State: the event's row, `rows` (its registrations), `away` (registrations of
other events: those that were moved there, or may be moved here), `cookie` per
browser, the audit entries, the clock, and history variables `edited`,
`cascaded` (answers that went with their event), `overlap`, `raced`, `late` and
`cut`, which nothing but properties reads. E-mail addresses and
names stand for their case-insensitive class; a phone number is what was typed,
and the constant `Digits` is what `clean_phone` makes of it.

| Action | Code |
|---|---|
| `Post` | `event_page`: the event is loaded, once, and the form bound |
| `Refuse` | the page is shown again (limit, token, validation, closed, duplicate) |
| `Check` | `is_valid()`, `accepts_registrations`, `existing_registration` finds nothing |
| `Store`, `StoreFails` | `submit_registration`'s INSERT, or its foreign key fails |
| `Respond` | redirect and cookie reach the browser (`Crash` instead: they do not) |
| `EditLoad`, `EditSave`, `EditLog` | `registration_edit` |
| `DeleteLoad`, `DeleteLog`, `DeleteRow` | `registration_delete`, one object of `delete_queryset` |
| `SiteLoad`, `SiteFetch`, `SiteSave`, `SiteDelete` | `RegistrationAdmin`, in transactions, on any event's answers |
| `SiteMove` | the same form leaves an answer with another event, or moves it there; `SiteSave` brings one here, also one that was here before |
| `SaveEvent` | the event is changed, or a stale copy of it is saved after its deletion, by the change form or by a bulk action: the row is inserted again, without the answers that went with it |
| `DeleteEvent`, `DeleteOther` | this event, or another one, is deleted, and the answers with it |
| `Tick` | time passes |

One event in detail suffices, since every query is scoped to it. Deleting an
event writes one entry, for the event (see `Events`), and none for its answers.
So `DeletionsAudited` says, whether the event is there, gone or back: an answer
that is in no event was logged as deleted, or went with an event that was
deleted. The limiter and the form
token read nothing of this state, so `Refuse` may follow any `Post`; they are
modelled in `RateLimit` and `PublicForm`.

### RateLimit and Quota

State: value and expiry of each key, and per worker which cache command comes
next for which key. `Present` makes an expired key no key. `Passes` and
`Limited` run the command that yields the value and compare it; `Look` is a
command that changes nothing (SET NX on a taken key, EXISTS); `Unreachable` and
`AnswerLost` are the `except` clause, before or after the cache has counted, and
let the post through;
`Evict` is Redis under `allkeys-lru`, for up to `MaxForgotten` keys.
`Quota` knows only how many posts passed or were refused in each window, how
many a failure let through, counted (`lost`) or not (`spared`), and which
counters were forgotten; the history variables of the same
names map one to the other, and `QuotaKept` is `Quota`'s specification as a
property of `RateLimit`. It lets more posts than the limit pass only on a
counter that was forgotten, and refuses none while there is room, not even then.
Each failure of the cache lets one post more through, however full the window
is, and a failure at the short level lets it past the daily one as well, which
it is then not counted on.

One assumption is not in the code: `StallAssumption`, that no worker is held up
between naming a key and the cache's answer longer than the `+ 5` seconds by
which keys outlive their window. Nothing in the code or its deployment bounds
such a stall: Django's Redis client sets no timeout, and with threaded workers
gunicorn's `--timeout` (`render.yaml:13`) watches the worker's heartbeat, not a
request. A longer stall can bring a key back after its window, for another
window's length; the counters of later windows are other keys and unaffected.

### PublicForm

One guest before the public form: the age of the token in the page, whether the
answers are `correct`, the two counters, and what the last post led to. `Post`
is `event_page` from the limiter to the verdict: the limiter counts the post
first, `any()` stops at the first full level, then `clean` bounds the token's
age on both sides. A bound form keeps the token it was posted with
(`AgeWhenShownAgain`); only `Reload` brings a fresh one, and the guest reloads
only when a page that was old enough was refused all the same (`told`).
`OthersPost` is somebody else behind the same address. A post may go `Uncounted`
because the cache fails, before or after it counted at a level, and is then let
through; `EvictShort` and `EvictDaily` are Redis under memory pressure. Time goes round a day and
ages stop past their limit, so that the state space is finite and behaviours are
endless.

### Administrators

State: the users, the audit entries about them, and `req`, with the acting
administrator as the request saw them when it arrived. `ChangeLoad`,
`ChangeValid`, `ChangeFetch`, `ChangeSave` are the four moments at which the
change form reads or writes; `AddValid`/`AddSave`, `DeleteLoad`/`DeleteUser`
and `BootRead`/`BootCreate` the two of the others. Django's password pages
(external) matter because they save the whole row they loaded. `Abandon` is a
refused form, an error or a crash. `Authenticate` is the login backend's query
by address or username.

### Events

State: `events` (the columns the properties need), `texts` (the translation
table: a title or text per language), `audit` with previous and new data, `req`;
`titled` is the set of languages with a title. `ChangeLoad`, `ChangeFetch`,
`ChangeSave` are the change form: `get_object`, `save_model`'s second read for
`previous_data`, and the commit of row, translations and entries. The POST reads
the translations when it builds the form (`read`), decides by them whether
anything has changed (`TranslationChanged`), and only then writes those of the
enabled languages; a change adds the entry `event_content_updated` with the
snapshot before and after. `BulkLoad`, `BulkSave`, `BulkLog` are
`_change_status`, whose queryset is evaluated once, before its loop.
`BulkDeleteLoad`, `BulkDeleteLog`, `BulkDeleteRow` are `delete_queryset`;
`DeletePage` is the same in a transaction. `PageLoad` (`ThanksLoad` for
`registration_thanks`), `PageShow`, `PageSent` are a guest's visit. The theme's
colours, capacity fields and slugs are left out; images are in `Media`.

### Media

State: `images` (what each event's columns name), `files` (the storage), `alive`
and `issued` events, `req`. A worker's `loaded` is the copy of the columns its
form or its deletion read, `new` the names of files it has put, `todo`, for each
column, the name its `on_commit` callback has still to look at. The storage takes no
part in transactions, so `Put` and `DeleteFile` are seen at once and are not
rolled back.

| Action | Code |
|---|---|
| `Add`, `Load` | the add form up to its INSERT; the change form's initial images |
| `Clean` | `sanitize_image_upload` reads every image that is kept or uploaded |
| `Lock` | `save_model`'s UPDATE of the event's row |
| `Name`, `Put` | the storage finds a free name; the file is stored |
| `Commit` | translations and theme are committed; `on_commit` knows what they replaced |
| `DeleteLoad`, `DeleteCommit` | the collector fetches rows; they are deleted and committed |
| `CheckFile`, `DeleteFile` | `delete_file`: `_is_referenced`, then `storage.delete` |
| `Finish`, `Abandon` | the response; an error, a rollback or a crash instead |

`Init` is a database as migration 0004 leaves it: the banner that an event's
theme used to have is now named by each translation of the event
(`CopiedToTranslations`), so that several columns may name one file and
`_is_referenced` has something to find.

Two things in the code decide how this behaves. `save_model` writes the event's
row before anything is read for the signals, and PostgreSQL keeps that row
locked until the commit: what `remember_replaced_images` reads is therefore
exactly what the commit replaces, and `Commit` may read it as it stands.
And a form's clean methods encode each image anew, those that stay included, so
that each save puts every kept image under a new name and deletes the old file.
The deployed storage (S3, `file_overwrite` off) looks for a free name without
claiming it; local storage does claim it, and has only some of these
behaviours. The history `raced` holds names given out while another request
held them, `left` the files left by requests that ended early or by a deletion
that had fetched older names. A bulk action that puts a deleted event's row back
(see `Events`) is left out: it brings no columns with it.

### Backup

`Backup` extends `Media` and runs beside its requests (`Serve`). `Dump`,
`Archive`, `ArchiveFile`, `SkipFile`, `Checksum` are the service `backup`:
`pg_dump` is one snapshot, while `tar` comes to one file after the other, may
find files that were put after it began, and may not find some that it saw
listed. `BackupFails` is `sh -e`, or the machine. `Stop`, `Verify`,
`CleanDatabase`, `LoadDatabase`, `ClearMedia`, `ExtractFile`, `Up` are
`restore.ps1` and the service `restore`; `RestoreFails` ends it anywhere and
leaves the site down. `Damage` takes a file out of an archive on its way
outside the server. A checksum is what it was computed of (`Sum`), so that it is
right exactly when nothing has changed since. The history `steady` says of a
backup that the site served and no file was deleted while it was made, `tainted`
that the site came up from one of which that is not true.

### PageViews

State: the clock, whether the event is public, each browser's cookie (`jar`),
when the deduplication key of an id expires (`until`), the stored views, `req`.
`Get` takes the cookie's id or a fresh one; `Add` is `cache.add`, `CacheFails`
its `except` clause, after the cache has or has not added the key; `Create` is
the INSERT; `Respond` sends the page and a new visitor's cookie. `Crash` is a
failing INSERT or a killed worker, `Evict` Redis under `allkeys-lru`,
`SetStatus` the staff. `TimeAssumption` says that a worker is not held up for a
whole deduplication period (30 minutes) between key and INSERT; like
`StallAssumption` it is an assumption about the deployment, which no code
enforces. The histories `excused` and `lost` hold the ids whose key the cache
lost or could not check, and those whose view was not stored after the key was
added.

### Statistics

State: the answers (status, guests, name, `created_at`), the stored views, each
as its visitor, the page being made and the file being streamed. Sums of guests
are numbers of persons, one for each place a guest brings somebody. `OpenList`, `OpenNext` ask for
a page; `CountList` and `ReadSlice` are the paginator's count and its slice of
the ordered query, `CountAttending` to `CountUnique` the six queries of
`statistics_for_event`. `OpenExport`, `LogExport`, `QueryExport`, `StreamRow`,
`CloseExport` are `registrations_export`: a generator, whose query runs after
the entry. `Submit`, `Edit`, `Delete`, `View` are what the others do meanwhile
(one commit each; how they come about is in `Rsvp` and `PageViews`).
`Listings` is every order the database may return for an `ORDER BY`, `Slice` the
rows of one page of it. `created_at`
is the clock of the worker that built the answer, and need not follow the ids.

Left out everywhere: Django's own admin history (`LogEntry`), the IP hash and
user agent of audit entries, wording, layout, and sessions.

## Runs

| Run | Instance | Shows |
|---|---|---|
| `rsvp` | 2 workers, 2 ids, 1 browser, dates, edits, moves, deleted and re-created events, crashes; 2 things done (`MaxDone`) | `DuplicatesOnlyFromRaces`, `AnswersAreNew`, `AtMostOneLate`, `DeletionsAudited`, `EditsAudited`, `NoResurrection` |
| `ratelimit` | 2 workers, 4 posts, windows of 2 and 4 s, both limits 2, one key evicted, cache failures | `CounterKept`, `QuotaKept` (refinement of `Quota`) |
| `form` | ages 2 to 12 s, windows of 3 and 12 s with limits 2 and 7, of which others use 1 and 3; patience of 5 s; the cache fails and evicts at any time | `TryingHelps` (liveness) |
| `admins` | 2 workers, 2 users, 2 addresses, crashes | `EmailsUnique`, `LoginFindsOwner`, `RightsLogged`, `LastAdministratorKept`, `OwnRightsKept` |
| `events` | 2 workers, 2 events, 2 languages, 2 texts, 4 requests, crashes | `TitlesKept`, `PagesInSelectedLanguage`, `DeletionsLogged`, `RowsLogged`, `PublishedDated`, `ChangesLogged`, `TextsLogged` |
| `media` | 2 workers, 2 events, banners in 2 languages with 3 names, a logo with 2, 3 requests | `ImagesStored`, `FilesAccounted` |
| `backup` | 1 worker, 1 event, 1 banner with 2 names, 3 requests, 2 backups, 2 restores, 1 damaged archive | `SteadyMatched`, `ServedImages`, `RestoredWhole` |
| `page_views` | 2 workers, 1 browser, 2 visitor ids, a period of 2 s, a stall of 1, 3 seconds | `ViewsSpaced`, `VisitsCounted` |
| `statistics` | up to 4 answers, 2 on a page, 4 orders, 2 filters, 2 changes, 1 export | `WalkComplete`, `FiguresAgree`, `ExportsLogged` |

Each run also checks its module's type invariant. `form`, `page_views` and
`statistics` check for deadlock; the others set `CHECK_DEADLOCK FALSE`, because
their bounds (ids, requests, time) run out, and an idle site may stay idle.

Why the bounds suffice: every race here is between two requests about one row,
so two workers and two ids show each, and the proofs cover more of them. In
`rsvp`, `FewDone` stops exploring once more than `MaxDone` things have
accumulated: entries of staff in the log or cut short, answers gone with an event
or in another one, late answers, seconds of the clock. Two are enough to edit,
move and delete around any guest's posts, to delete an event with its answers
and bring it back, and to pass the end of registration. In `events`, four requests let an event be
added, two overlap on it, and the consequences be seen. The limits of `ratelimit`
are reached, passed and reset by the next window; four seconds hold two windows
of one level and the next of both. In `form`, a token outlives several short
windows and expires within a day, so that the limiter can keep the guest from
posting until the page is too old. In `media`, three names per directory suffice
for one to be freed, given out again and raced for while two banners share
another. In `backup`, the second backup may be made of a site restored from the
first, and the event may be added, get another banner and lose it meanwhile. In
`page_views`, a period may end between a key and the INSERT that follows. In
`statistics`, the first page of two answers is full, and changes may come in
between any two queries. Workers, browsers, ids, backups and the names of one
directory are interchangeable, hence the symmetry sets; `form`, whose property
is about liveness, uses none.

Three further runs expect a violation. Each shows where the program does not do
what a text or a test of the repository says (quoted under `findings`):

| Run | What happens |
|---|---|
| `rsvp_double_submit` | two workers take the same answer, each runs the duplicate query before the other's INSERT, and both store it |
| `admins_last_demoted` | of the last two administrators one demotes the other in the change form while that one disables the first; both forms pass `clean()` before either is saved. `ChangesKeepAdministrator` asks for an administrator only while nobody has been deleted, since two who delete each other are another story |
| `backup_unmatched` | an event is deleted with its banner between `pg_dump` and `tar`: the backup is complete, its checksums are right, and it lacks a file its database names |

### Fairness

Only `PublicForm` states fairness, since its property is the only one that
something eventually happens: weak fairness of `Tick`, `Post`, `Correct` and
`Reload`. Time passes by itself. The other three are the guest's, and they are
what the property is about: *who keeps trying* is accepted. A guest tries within
`Patience` seconds of the last attempt, or later whenever the page allows,
however badly timed; corrects what the form complains about; and reloads a page
that was old enough and was refused. Nothing is asked of the server beyond
answering. That others leave room (`ShortOthers` and `DailyOthers` below the
limits) is needed: the counters are per address, and who shares one with a crowd
may be refused for ever. `TryingHelps` makes one more exception: it asks that from
some time on the short counter is not evicted. Each such eviction lets a guest
who hammers at a young page waste more of the day, and if it happens again and
again, every attempt with a valid token may meet a full day. Evictions of the
daily counter and failures of the cache may go on for ever. No other component promises that something will
eventually happen: requests are ended by the process manager and retried by
people, and nothing waits on anything but the database and the cache.

### Disagreements and remarks

What the properties except is where the code falls short of what one might
expect. Each of the following is a behaviour of the models:

* Saving an edit that was loaded before a deletion inserts the deleted answer
  again, though `views.py:174` says "This action cannot be undone."
  (`NoResurrection` allows for it.)
* A stale copy of an event that is saved after its deletion brings the event
  back, and its answers, which went with it, are gone without entries of their
  own (`cascaded` in `DeletionsAudited`).
* A crash between `form.save()` and `log_action` leaves an edit without a trace
  (`cut` in `EditsAudited`; likewise `RowsLogged` for bulk actions).
* The edit form keeps a phone number as typed (`registrations/admin_forms.py:11`),
  which the query for digits does not find (`AnswersAreNew` compares as the query
  does, `NewResponseIsNew` in all spellings).
* Answers A, B, A without contacts from one browser store A twice: the cookie
  names the last answer only.
* Saving one's own account, or a password, while being demoted writes the old
  rights back (`StaleWrite` in `OwnRightsKept`).
* A bulk action that loaded an event before its deletion puts the row back,
  without translations (`TitlesKept` and `PagesInSelectedLanguage` except events
  whose deletion was logged).
* A bulk publication between the change form's load and `save_model`'s second
  read leaves a published event without a date (`tainted` in `PublishedDated`).
* A status committed after the row was read is overwritten, and the entry's
  previous data names another one (`StaleWrite` in `ChangesLogged`).
* Two change forms that overlap may restore texts the other has just replaced
  without an `event_content_updated` entry, because the second looks unchanged
  to itself (`OutdatedForm` in `TextsLogged`).
* After a deletion's `_is_referenced` found a name free, a form may put a file
  of that name and commit before `storage.delete` removes it
  (`events/signals.py:26`; `raced` in `ImagesStored`).
* A deletion that fetched its rows before a form replaced a banner leaves the
  new file behind (`left` in `FilesAccounted`).
* An answer that comes in between the count and the slice of a list's last page
  pushes another one out of that page (`spoiled` in `WalkComplete`).
* A restore that fails leaves the site down until somebody runs it again.

Four more need no run. `required` is checked on a phone number as typed, and
`clean_phone` then drops what is no digit, so an event that requires a phone
number accepts "-" and stores none (`events/forms.py:59`). An expired page is
answered "Please complete the form and try submitting it again."
(`events/i18n.py:40`), but submitting it again never succeeds: it keeps its
token (`PublicForm` has the guest reload). The slug helper
(`events/services.py:12`) may exceed the column's 50 characters, but only tests
call it. And after a cache failure or an eviction a visitor counts twice within
a period (`excused` in `ViewsSpaced`).

## Proofs

`tlapm` checks each `*Proofs` module from nothing; there are no assumptions but
the named `ASSUME`s of the modules, about the types of constants and, in
`RateLimit` and `PageViews`, `StallAssumption` and `TimeAssumption`. The theorems
hold for any number of workers, ids, browsers, languages, forms, backups, and
any limits, periods and page sizes.

Most properties except requests that overlap. What is left of the exceptions
when none do is a second theorem (`Serial`: no two requests at once; in `Events`,
`OneAtATime`: none begins while another is under way; for answers, no two
submissions between query and INSERT):

| Theorem | Without overlaps |
|---|---|
| `SerialSubmissionsAreNew` | answers of guests share no contact; only what an administrator edited does |
| `SerialAdministratorKept`, `SerialOwnRights` | there is an active administrator; nobody changes their own rights; no exceptions |
| `SerialEventsLogged` | published events have a date; every change of a status or text is logged with what it was before, or, in a bulk action, about to be (a crash right there is `cut` in `RowsLogged`) |
| `SerialImagesStay`, `SerialRequestsCleanUp` | named images are stored; only what ends early (`Abandon`) leaves a file behind |
| `SerialBackupsWhole` | a steady, intact backup is matched, and a site that is up has its images unless it was restored from an unsteady backup: one during which a file was deleted, or made of such a site |

So these exceptions are about overlaps, and a lock around each request would
remove them. The one that stays is that of backups: a file that is deleted while
a backup is made may be missing from it, and from what is restored from it,
however requests are ordered (`backup_unmatched` has only one worker). `SerialSubmissionsAreNew` and `SerialAdministratorKept`
are the counterparts of the runs `rsvp_double_submit` and `admins_last_demoted`,
which show the same promises broken as soon as two requests do overlap.

* **RsvpProofs**: `TypeCorrect`; `DuplicatesExplained`, `NewAnswersAreNew`,
  `LateBounded`, `DeletionsLeaveATrace`, `EditsLeaveATrace`, `DeletionsLast`.
  `DeletionsLeaveATrace` holds of answers and events however often they are
  moved, deleted or brought back: an answer leaves the table only by a deletion
  that is logged first or commits with its entry, or with an event.
  `DuplicatesOnlyFromRaces` is not inductive: between `Check` and `Store` a
  worker knows only that no *other* row shares a contact unless it was stored
  since (`overlap`) or edited; the invariant says so. `LateBounded` rests on
  each worker's copy of the event: after publication ends, only a request that
  loaded the event before can still store, and each worker runs one.
  `SerialSubmissionsAreNew`: while no two submissions are between query and
  INSERT, whatever a query missed is an administrator's edit.
  `CookiesLeadHome`: a browser's cookie leads only to an answer this browser
  sent, so that a guest without contacts is never refused for another of the
  same name. Its invariant is about every id a browser holds, posts or is about
  to be sent (`Holds`): such an id was issued, its row and every copy of it that
  an edit may still save are that browser's (`Leads`), since ids are used once
  and edits keep the `agent`.
* **RateLimitProofs**: `Invariance`, then `CountersSurvive` and `KeepsQuota`.
  The invariant says that the counter of a key that is present and was never
  evicted equals the posts that passed, were refused or got lost on it, that a
  key present expires after its window plus whatever stall is left, and that a
  key gone within that time never was. `KeepsQuota` maps every step to one of
  `Quota`'s or a stutter; evictions only make counters smaller, which is why
  nobody is refused early even then (`CoverInv`). `LimitsHold` puts the promise
  in figures, for windows whose key was not evicted: at most the limit and one
  more for each failure of the cache. It rests on `StallAssumption`, and is proved of `Quota` (`PromiseInFigures`), and the limiter
  inherits it by the refinement.
* **AdministratorsProofs**: `AddressesIdentify` and `LoginReachesOwner` from
  "username is the address" in all rows and all copies, which makes the unique
  column enough; `RightsLeaveATrace`. `AdministratorKept` and `RightsKept` are
  about `SpecH`: what a request that nobody overtook holds is as the table has
  it (`Fresh`), so either the actor or the one the query found remains.
  `SerialAdministratorKept`, `SerialOwnRights`: without overlaps nobody is
  overtaken, and nothing is excepted.
* **EventsProofs**: `TitlesStay`, `PagesMatch`, `DeletionsLeaveATrace` from one
  invariant: a copy anybody holds is as good as a stored row, that is its
  languages have titles or its event was deleted, since titles only grow
  until then. For `SpecH`, `RowsAreLogged`, `PublishedHasDate` and
  `ChangesLeaveATrace`, from what is known of a copy nobody overtook
  (`CopyIn`). `TextsLeaveATrace` because the texts before and after are both
  of the commit; only the decision whether any changed rests on an older read.
  `SerialEventsLogged`: a step belongs to the only request under way (`Shape`,
  `Alone`), so that no row is overtaken and a form holds the texts there are.
* **BackupProofs**, first part, on `Media`: `FilesStayAccounted` from the types of requests: a file that
  is put is pending until its request commits or ends, and `Replaced` accounts
  for each name a commit drops. `ImagesStay` needs an invariant for each name
  that was not raced for (`Exclusive`): if a column names it, its file is
  there, whoever has put it is the only request that holds it, and whoever is
  about to delete it finds it unnamed. That the rows the migration
  left satisfy it is the lemma `MigratedRows`. `SerialImagesStay`: without
  overlaps no name is raced for, so every named image is stored.
  `SerialRequestsCleanUp`: then the copy of the columns a request works from is
  what they hold (`CopiesAreFresh`), so what it removes is all that was named.
* **BackupProofs**, second part, on `Backup`: `SteadyBackupsMatch`,
  `ImagesServed`, `WholeRestores` from `BackupInv`, which uses the first part for
  every step of a request while the site is up. A dump's names are in the storage and stay there while the backup
  is steady, then are in the archive or still to come to; while a restore runs
  there is no request, and the database is the dump's.
* **PublicFormProofs**: `TypeCorrect`; `WindowsSpareTheDay`: while no short
  counter is evicted (daily ones may be, and the cache may fail), the daily counter
  is never ahead of one full short limit for each short window so far, since
  `any()` does not come to it once the short window is full. So hammering at a
  full window costs nothing of the day. The counters restart together, and what
  a second adds is the lemma `NextSecond`.
* **PageViewsProofs**: `ViewsAreSpaced` and `VisitorsAreCounted` from an
  invariant that says who holds the key of an id (`KeyHolders`), and that every
  view was stored under a key that lasts a period (`ViewsUnderKeys`). Two views
  of a visitor are then `Spacing` (a period less the stall) apart, so that each
  falls into a slice of time of its own: `ViewsAreBounded` is the injection of
  views into these slices.
* **StatisticsProofs**: `TypeCorrect`; then an invariant each for the export,
  the figures and the list.
  `ExportsAreLogged` from `ExportInv`: what is past the entry is in the log.
  `FiguresDoAgree` from `FigureInv`: after every query, the figures read so far
  are at most `drift` away from the table, since a commit changes one row and
  with it each count by one (`CountDrifts`); that both kinds of answers make up
  the table is `StoredInTwoParts`.
  `ListsHaveOneOrder`: the id at the end of every `ORDER BY` makes its order
  total, so an answer's place is one more than the number of those before it
  (`PlacesOfListing`, `OneListing`). `ListsArePaged`: the pages of that list
  partition it.
  `WalksAreComplete` from `WalkInv`: before every page, each answer of the start
  that was not seen yet has at least all earlier pages' places before it
  (`Ahead`). A new answer only pushes others back (`SubmitPushesBack`), an edit
  or a deletion spoils the walk, and so does a new answer between the count and
  the slice of the last page; after that page there is no place left to be at.

Only model-checked: `TryingHelps` of `PublicForm`, which is liveness under
fairness and out of the prover's reach; and the violations, which are
behaviours, not theorems. Every other property of a passing run is the statement
of a theorem. The `Serial*` theorems, `CookiesLeadHome`, `WindowsSpareTheDay` and
`ViewsAreBounded` go the other way: no run states them.

## Plan

1. Done: `Rsvp`, `RateLimit` and `Quota`, `Administrators`, `Events`, with
   their proofs.
2. Done: `Media`; `Backup` on top of it; `PageViews`; `Statistics`;
   `PublicForm`, which composes the token, the limiter's verdict and the form.
   The properties that needed one worker hold for several, with their
   exceptions named (`*History`), and are proved so.
3. Done: proofs of `Statistics`, its order and its pages; what the properties
   become when requests do not overlap; the limiter's promise in figures; how
   many views a visitor can cause; where a browser's cookie leads; what the short
   window spares the daily one.
4. Left: pure algorithms against reference
   definitions (CSV cells, language selection as an ordered choice); the theme's
   colours in the audit log.

## Not modelled

Rendering and wording, and the escaping of CSV cells, which keep no state. The
health check makes one query and one cache round trip. `seed_demo` refuses to
run in production and `release_preflight` only reports. Migrations run outside
the server: that of the events' banners (`0004`) gives `Media` its initial rows,
the others change no state the models keep. `create_event` and `Event.publish`
are called by tests only. Django's `LogEntry`, sessions and settings: what the
settings decide (transactions, workers, cache, limits) is in the models'
assumptions and constants.
