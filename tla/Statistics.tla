----------------------------- MODULE Statistics -----------------------------
(***************************************************************************)
(* What staff read of one event: the pages of event_statistics, each made  *)
(* of a count, a slice of the list and six figures, and the CSV file of    *)
(* registrations_export.  Every query sees the answers of its own moment,  *)
(* while guests and administrators change them.  One member of staff reads *)
(* one thing at a time: readers change nothing but the audit log.          *)
(***************************************************************************)
EXTENDS Integers, Sequences, FiniteSets, FiniteSetsExt

CONSTANTS
  N,           \* bound on the primary keys of answers, 1..N
  Answers,     \* values of answers that guests send
  Edits,       \* what administrators make of an answer
  Tables,      \* tables of answers that staff may find
  Visitors,    \* keys of visitors
  PerPage,     \* answers on a page: 25
  Filters, Sorts,   \* the lists that staff ask for
  MaxChanges,  \* bound on the number of changes
  MaxExports,  \* bound on the number of entries of exports
  None

Ids == 1..N
Attending == 0   \* Attendance, in the order the database sorts it
Declined == 1
All == 2         \* "all", the filter's other value

Answer == [status: {Attending, Declined}, guests: Nat, name: Nat, created: Nat]
Table == [Ids -> Answer \cup {None}]
Options == [filter: Filters, sort: Sorts]

ASSUME DataAssumption ==
  /\ N \in Nat /\ PerPage \in Nat \ {0} /\ MaxChanges \in Nat /\ MaxExports \in Nat
  /\ Answers \subseteq Answer /\ Edits \subseteq Answer /\ Tables \subseteq Table
  /\ Filters \subseteq {Attending, Declined, All}
  /\ Sorts \subseteq {"newest", "name", "attending", "declined", "guests_asc", "guests_desc"}
ASSUME NoneAssumption == None \notin Answer

VARIABLES
  answers,  \* the registration table, for this event
  issued,   \* how many primary keys were given out
  views,    \* page views, a visitor for each row
  page,     \* the page of event_statistics that is being made
  file,     \* the export that is being streamed
  log,      \* registrations_exported entries of the audit log
  changes,  \* number of changes so far
  walk,     \* history: what the pages read so far have shown
  drift,    \* history: changes of answers since the first figure
  arrived   \* history: page views since they were counted

pageVars == <<page, walk, drift, arrived>>
vars == <<answers, issued, views, page, file, log, changes, walk, drift, arrived>>

Figures == [attending |-> 0, guests |-> 0, total |-> 0, declined |-> 0, views |-> 0, unique |-> 0]
NoPage == [at |-> "idle", number |-> 1, count |-> 0, rows |-> {}, stats |-> Figures]
NoWalk == [options |-> None, start |-> {}, seen |-> {}, spoiled |-> FALSE]
NoFile == [at |-> "idle", options |-> None, rows |-> {}, sent |-> {}]

Stored == {i \in Ids : answers[i] # None}

(* Keys above those stored may have been given out: their rows are gone.   *)
Init ==
  /\ answers \in Tables
  /\ issued \in {n \in 0..N : \A i \in Stored : i <= n}
  /\ views = <<>>
  /\ page = NoPage /\ file = NoFile /\ log = {}
  /\ changes = 0
  /\ walk = NoWalk
  /\ drift = 0 /\ arrived = 0

-----------------------------------------------------------------------------
(* The list: _response_options and _response_queryset.                     *)

WithStatus(status) == {i \in Stored : answers[i].status = status}
Filtered(o) == IF o.filter = All THEN Stored ELSE WithStatus(o.filter)

(* Fault: nothing decides between answers of the same name or time.        *)
SortKeyTied(i, sort) ==
  LET a == answers[i] IN
  CASE sort = "name"        -> <<a.name>>
    [] sort = "attending"   -> <<a.status, a.name>>
    [] sort = "declined"    -> <<-a.status, a.name>>
    [] sort = "guests_asc"  -> <<a.guests, a.name>>
    [] sort = "guests_desc" -> <<-a.guests, a.name>>
    [] sort = "newest"      -> <<-a.created>>

(* What the order goes by, the id last, so that no two answers tie.        *)
SortKey(i, sort) ==
  LET a == answers[i] IN
  CASE sort = "name"        -> <<a.name, i>>
    [] sort = "attending"   -> <<a.status, a.name, i>>
    [] sort = "declined"    -> <<-a.status, a.name, i>>
    [] sort = "guests_asc"  -> <<a.guests, a.name, i>>
    [] sort = "guests_desc" -> <<-a.guests, a.name, i>>
    [] sort = "newest"      -> <<-a.created, -i>>

Precedes(s, t) ==
  \E k \in DOMAIN s : s[k] < t[k] /\ \A j \in 1..k-1 : s[j] = t[j]

(* The orders the database may return: answers that tie come in any order. *)
Listings(o) ==
  LET rows == Filtered(o) IN
  {list \in [1..Cardinality(rows) -> rows] :
     \A j, k \in DOMAIN list : j < k =>
        /\ list[j] # list[k]
        /\ ~Precedes(SortKey(list[k], o.sort), SortKey(list[j], o.sort))}

Pages(count) == IF count = 0 THEN 1 ELSE (count + PerPage - 1) \div PerPage
LastPage == page.number = Pages(page.count)

(* The rows of one page; the last one ends where the count did.            *)
Slice(list, number, count) ==
  LET top == IF number = Pages(count) THEN count ELSE number * PerPage
  IN {list[k] : k \in {k \in DOMAIN list : (number - 1) * PerPage < k /\ k <= top}}

-----------------------------------------------------------------------------
(* event_statistics, query by query.                                       *)

Read(at, stats) == page' = [page EXCEPT !.at = at, !.stats = stats]

PageOnly == UNCHANGED <<answers, issued, views, file, log, changes, walk>>

(* The first page of a list.                                               *)
OpenList(o) ==
  /\ page.at = "idle" /\ file.at = "idle"
  /\ page' = [NoPage EXCEPT !.at = "count"]
  /\ walk' = [NoWalk EXCEPT !.options = o, !.start = Filtered(o)]
  /\ UNCHANGED <<answers, issued, views, file, log, changes, drift, arrived>>

(* The link to the next page.                                              *)
OpenNext ==
  /\ page.at = "shown" /\ ~LastPage
  /\ page' = [NoPage EXCEPT !.at = "count", !.number = page.number + 1]
  /\ UNCHANGED <<answers, issued, views, file, log, changes, walk, drift, arrived>>

(* paginator.count; get_page goes no further than the last page.           *)
CountList ==
  LET count == Cardinality(Filtered(walk.options)) IN
  /\ page.at = "count"
  /\ page' = [page EXCEPT !.at = "slice", !.count = count,
                          !.number = Min({page.number, Pages(count)})]
  /\ PageOnly /\ UNCHANGED <<drift, arrived>>

(* The page's object_list; the count is an older one.                      *)
ReadSlice ==
  /\ page.at = "slice"
  /\ \E list \in Listings(walk.options) :
       LET rows == Slice(list, page.number, page.count)
       IN /\ page' = [page EXCEPT !.at = "attending", !.rows = rows]
          /\ walk' = [walk EXCEPT !.seen = walk.seen \cup rows]
  /\ UNCHANGED <<answers, issued, views, file, log, changes, drift, arrived>>

(* statistics_for_event: six queries, one after the other.                 *)
CountAttending ==
  /\ page.at = "attending"
  /\ Read("guests", [page.stats EXCEPT !.attending = Cardinality(WithStatus(Attending))])
  /\ drift' = 0
  /\ PageOnly /\ UNCHANGED arrived

(* The sum of their guests counts the persons that these answers bring.    *)
Brought(ids) == UNION {{i} \X (1..answers[i].guests) : i \in ids}

(* Fault: the guests of those who decline are added, too.                  *)
SumOfAll == Cardinality(Brought(Stored))

SumGuests == Cardinality(Brought(WithStatus(Attending)))

AddGuests ==
  /\ page.at = "guests"
  /\ Read("total", [page.stats EXCEPT !.guests = SumGuests])
  /\ PageOnly /\ UNCHANGED <<drift, arrived>>

CountAll ==
  /\ page.at = "total"
  /\ Read("declined", [page.stats EXCEPT !.total = Cardinality(Stored)])
  /\ PageOnly /\ UNCHANGED <<drift, arrived>>

CountDeclined ==
  /\ page.at = "declined"
  /\ Read("views", [page.stats EXCEPT !.declined = Cardinality(WithStatus(Declined))])
  /\ PageOnly /\ UNCHANGED <<drift, arrived>>

CountViews ==
  /\ page.at = "views"
  /\ Read("unique", [page.stats EXCEPT !.views = Len(views)])
  /\ arrived' = 0
  /\ PageOnly /\ UNCHANGED drift

CountUnique ==
  /\ page.at = "unique"
  /\ Read("shown", [page.stats EXCEPT !.unique = Cardinality(Range(views))])
  /\ PageOnly /\ UNCHANGED <<drift, arrived>>

(* The page is left, or was never sent.                                    *)
ClosePage ==
  /\ page.at # "idle"
  /\ page' = NoPage /\ walk' = NoWalk /\ drift' = 0 /\ arrived' = 0
  /\ UNCHANGED <<answers, issued, views, file, log, changes>>

-----------------------------------------------------------------------------
(* registrations_export: iter_registrations_csv is a generator, so that the *)
(* query is made when the response is streamed.                            *)

FileOnly == UNCHANGED <<answers, issued, views, changes, pageVars>>

OpenExport(o) ==
  /\ page.at = "idle" /\ file.at = "idle" /\ Cardinality(log) < MaxExports
  /\ file' = [NoFile EXCEPT !.at = "log", !.options = o]
  /\ FileOnly /\ UNCHANGED log

(* Fault: the entry does not say which list was exported.                  *)
LogExportOnly ==
  /\ file.at = "log"
  /\ log' = log \cup {None}
  /\ file' = [file EXCEPT !.at = "query"]
  /\ FileOnly

LogExport ==
  /\ file.at = "log"
  /\ log' = log \cup {file.options}
  /\ file' = [file EXCEPT !.at = "query"]
  /\ FileOnly

(* One cursor: the rows are those of one moment.                           *)
QueryExport ==
  /\ file.at = "query"
  /\ file' = [file EXCEPT !.at = "stream", !.rows = Filtered(file.options)]
  /\ FileOnly /\ UNCHANGED log

(* Fault: rows are sent before the export is logged.                       *)
StreamUnlogged ==
  /\ file.at = "log"
  /\ \E i \in Filtered(file.options) : file' = [file EXCEPT !.sent = {i}]
  /\ FileOnly /\ UNCHANGED log

StreamRow ==
  /\ file.at = "stream"
  /\ \E i \in file.rows \ file.sent : file' = [file EXCEPT !.sent = file.sent \cup {i}]
  /\ FileOnly /\ UNCHANGED log

(* The file is complete, or the connection or the worker is lost.          *)
CloseExport ==
  /\ file.at # "idle"
  /\ file' = NoFile
  /\ FileOnly /\ UNCHANGED log

-----------------------------------------------------------------------------
(* Meanwhile: submit_registration, the forms and deletions of the staff,   *)
(* the cascade of a deletion, and record_event_view.  auto_now_add reads   *)
(* the clock before the INSERT, so created need not follow the ids.        *)

Change(table, spoils) ==
  /\ changes < MaxChanges
  /\ answers' = table
  /\ changes' = changes + 1
  /\ drift' = IF page.at = "idle" THEN 0 ELSE drift + 1
  /\ walk' = IF page.at # "idle" /\ spoils THEN [walk EXCEPT !.spoiled = TRUE] ELSE walk
  /\ UNCHANGED <<views, page, file, log, arrived>>

Submit(a) ==
  /\ issued < N
  /\ issued' = issued + 1
  /\ Change([answers EXCEPT ![issued + 1] = a], page.at = "slice" /\ LastPage)

Edit(i, a) ==
  /\ i \in Stored
  /\ Change([answers EXCEPT ![i] = [a EXCEPT !.created = answers[i].created]], TRUE)
  /\ UNCHANGED issued

Delete(i) ==
  /\ i \in Stored
  /\ Change([answers EXCEPT ![i] = None], TRUE)
  /\ UNCHANGED issued

View(v) ==
  /\ changes < MaxChanges
  /\ views' = Append(views, v)
  /\ changes' = changes + 1
  /\ arrived' = IF page.at = "idle" THEN 0 ELSE arrived + 1
  /\ UNCHANGED <<answers, issued, page, file, log, walk, drift>>

Next ==
  \/ \E o \in Options : OpenList(o) \/ OpenExport(o)
  \/ OpenNext \/ CountList \/ ReadSlice
  \/ CountAttending \/ AddGuests \/ CountAll \/ CountDeclined
  \/ CountViews \/ CountUnique \/ ClosePage
  \/ LogExport \/ QueryExport \/ StreamRow \/ CloseExport
  \/ \E a \in Answers : Submit(a)
  \/ \E i \in Ids : Delete(i) \/ \E a \in Edits : Edit(i, a)
  \/ \E v \in Visitors : View(v)

Spec == Init /\ [][Next]_vars

-----------------------------------------------------------------------------
(* The types of the state.                                                 *)
Steps == {"idle", "count", "slice", "attending", "guests", "total", "declined",
          "views", "unique", "shown"}
FigureTypes == [attending: 0..N, guests: Nat, total: 0..N, declined: 0..N,
                views: Nat, unique: Nat]
Page == [at: Steps, number: Nat \ {0}, count: 0..N, rows: SUBSET Ids, stats: FigureTypes]
Walk == [options: Options \cup {None}, start: SUBSET Ids, seen: SUBSET Ids, spoiled: BOOLEAN]
File == [at: {"idle", "log", "query", "stream"}, options: Options \cup {None},
         rows: SUBSET Ids, sent: SUBSET Ids]

TypeOK ==
  /\ answers \in Table /\ issued \in 0..N /\ views \in Seq(Visitors)
  /\ page \in Page /\ walk \in Walk /\ file \in File /\ log \subseteq Options
  /\ changes \in 0..MaxChanges /\ drift \in 0..changes /\ arrived \in 0..changes

(* Who reads a list to its last page has seen every answer that was in it  *)
(* at the start, in whatever order and though guests go on answering,      *)
(* unless an answer was edited or deleted meanwhile, or one came in        *)
(* between the two queries of the last page, which its count cuts off.     *)
WalkComplete ==
  page.at = "shown" /\ LastPage /\ ~walk.spoiled => walk.start \subseteq walk.seen

(* The figures of a page are from different moments, but they disagree by  *)
(* no more than the answers and views that changed in between; if none     *)
(* did, the guests expected are those who come and whom they bring.        *)
FiguresAgree ==
  page.at = "shown" =>
    LET f == page.stats
        odd == f.total - f.attending - f.declined
    IN /\ -drift <= odd /\ odd <= drift
       /\ drift = 0 => f.attending + f.guests =
            Cardinality(UNION {{i} \X (0..answers[i].guests) : i \in WithStatus(Attending)})
       /\ f.unique <= f.views + arrived

(* Nobody gets a row of an export that is not in the audit log, though the *)
(* query is made only when the response is streamed.                       *)
ExportsLogged == file.sent # {} => file.options \in log
=============================================================================
