----------------------------- MODULE PageViews ------------------------------
(***************************************************************************)
(* Page views of one event: event_page gives a browser without a cookie a  *)
(* visitor id, and record_event_view counts a visitor once per             *)
(* PAGE_VIEW_DEDUP_SECONDS, by a key in the shared cache.  The key is added *)
(* before the view is stored; cache, database and the answer may each fail. *)
(***************************************************************************)
EXTENDS Integers, FiniteSets

CONSTANTS
  Workers,
  Browsers,
  Ids,        \* visitor ids, secrets.token_urlsafe
  Dedup,      \* PAGE_VIEW_DEDUP_SECONDS
  MaxStall,   \* longest time from the cache's answer to the INSERT
  MaxTime,    \* bound on the clock
  None

(* A worker is not held up for a whole deduplication period.               *)
ASSUME TimeAssumption ==
  Dedup \in Nat /\ MaxStall \in Nat /\ MaxTime \in Nat /\ MaxStall < Dedup
ASSUME NoneAssumption == None \notin Ids /\ None \notin Browsers /\ None \notin Nat

VARIABLES
  now,      \* time.time(), and Redis' clock
  visible,  \* the event is there, neither a draft nor archived
  jar,      \* each browser's visitor cookie
  issued,   \* visitor ids given out
  until,    \* when the deduplication key of an id expires
  views,    \* the stored views: who and when
  req,      \* what each worker is doing
  excused,  \* history: ids whose key the cache lost or could not check
  lost      \* history: ids whose view was not stored after the key was added

vars == <<now, visible, jar, issued, until, views, req, excused, lost>>

Times == 0..MaxTime
Steps == {"idle", "add", "create", "render"}
Request == [at: Steps, browser: Browsers \cup {None}, id: Ids \cup {None},
            new: BOOLEAN, since: Times]   \* since: when the cache answered
Idle == [at |-> "idle", browser |-> None, id |-> None, new |-> FALSE, since |-> 0]

Init ==
  /\ now = 0
  /\ visible = TRUE
  /\ jar = [b \in Browsers |-> None]
  /\ issued = {}
  /\ until = [v \in Ids |-> 0]
  /\ views = {}
  /\ req = [w \in Workers |-> Idle]
  /\ excused = {} /\ lost = {}

-----------------------------------------------------------------------------
Present(v) == until[v] > now

(* visitor_id_for_request: the cookie's id, else a new one.                *)
VisitorId(b, v) == IF jar[b] # None THEN v = jar[b] ELSE v \in Ids \ issued

(* A guest's GET: hidden events are not found, staff are not counted.      *)
Get(w, b, v) ==
  /\ req[w].at = "idle"
  /\ visible
  /\ VisitorId(b, v)
  /\ issued' = issued \cup {v}
  /\ req' = [req EXCEPT ![w] = [at |-> "add", browser |-> b, id |-> v,
                                new |-> jar[b] = None, since |-> 0]]
  /\ UNCHANGED <<now, visible, jar, until, views, excused, lost>>

(* Fault: the timeout is taken for minutes.                                *)
KeyAddedForMinutes(v) ==
  [until EXCEPT ![v] = IF Present(v) THEN until[v] ELSE now + 60 * Dedup]

(* What the cache makes of the key, whoever asks for it.                   *)
KeyAdded(v) == [until EXCEPT ![v] = IF Present(v) THEN until[v] ELSE now + Dedup]

(* Fault: the answer of cache.add is ignored.                              *)
AddEitherWay(w) ==
  LET v == req[w].id IN
  /\ req[w].at = "add"
  /\ until' = KeyAdded(v)
  /\ req' = [req EXCEPT ![w] = [@ EXCEPT !.at = "create", !.since = now]]
  /\ lost' = IF Present(v) THEN lost ELSE lost \ {v}
  /\ UNCHANGED <<now, visible, jar, issued, views, excused>>

(* cache.add: only who added the key goes on to store the view.            *)
Add(w) ==
  LET v == req[w].id IN
  /\ req[w].at = "add"
  /\ until' = KeyAdded(v)
  /\ req' = [req EXCEPT ![w] = IF Present(v) THEN [@ EXCEPT !.at = "render"]
                               ELSE [@ EXCEPT !.at = "create", !.since = now]]
  /\ lost' = IF Present(v) THEN lost ELSE lost \ {v}
  /\ UNCHANGED <<now, visible, jar, issued, views, excused>>

(* Fault: without an answer of the cache the view is dropped.              *)
CacheFailsSilently(w) ==
  LET v == req[w].id IN
  /\ req[w].at = "add"
  /\ until' \in {until, KeyAdded(v)}
  /\ req' = [req EXCEPT ![w].at = "render"]
  /\ excused' = excused \cup {v}
  /\ UNCHANGED <<now, visible, jar, issued, views, lost>>

(* The cache does not answer, before or after it added the key: the view   *)
(* is stored all the same.                                                 *)
CacheFails(w) ==
  LET v == req[w].id IN
  /\ req[w].at = "add"
  /\ until' \in {until, KeyAdded(v)}
  /\ req' = [req EXCEPT ![w] = [@ EXCEPT !.at = "create", !.since = now]]
  /\ excused' = excused \cup {v}
  /\ UNCHANGED <<now, visible, jar, issued, views, lost>>

(* EventPageView.objects.create.                                           *)
Create(w) ==
  /\ req[w].at = "create"
  /\ views' = views \cup {[id |-> req[w].id, at |-> now]}
  /\ req' = [req EXCEPT ![w] = [@ EXCEPT !.at = "render", !.since = 0]]
  /\ UNCHANGED <<now, visible, jar, issued, until, excused, lost>>

(* The INSERT fails, or the worker is killed: the key stays.               *)
Crash(w) ==
  /\ req[w].at # "idle"
  /\ req' = [req EXCEPT ![w] = Idle]
  /\ lost' = IF req[w].at = "create" THEN lost \cup {req[w].id} ELSE lost
  /\ UNCHANGED <<now, visible, jar, issued, until, views, excused>>

(* The page is sent, and a new visitor's cookie with it.                   *)
Respond(w) ==
  /\ req[w].at = "render"
  /\ jar' = IF req[w].new THEN [jar EXCEPT ![req[w].browser] = req[w].id] ELSE jar
  /\ req' = [req EXCEPT ![w] = Idle]
  /\ UNCHANGED <<now, visible, issued, until, views, excused, lost>>

(* Staff publish the event, or hide it.                                    *)
SetStatus ==
  /\ visible' = ~visible
  /\ UNCHANGED <<now, jar, issued, until, views, req, excused, lost>>

(* Redis drops a key when memory runs out.                                 *)
Evict(v) ==
  /\ Present(v)
  /\ until' = [until EXCEPT ![v] = 0]
  /\ excused' = excused \cup {v}
  /\ UNCHANGED <<now, visible, jar, issued, views, req, lost>>

Tick ==
  /\ now < MaxTime
  /\ \A w \in Workers : req[w].at = "create" => now - req[w].since < MaxStall
  /\ now' = now + 1
  /\ UNCHANGED <<visible, jar, issued, until, views, req, excused, lost>>

Next ==
  \/ SetStatus \/ Tick
  \/ \E v \in Ids : Evict(v)
  \/ \E w \in Workers :
       \/ \E b \in Browsers, v \in Ids : Get(w, b, v)
       \/ Add(w) \/ CacheFails(w) \/ Create(w) \/ Crash(w) \/ Respond(w)

Spec == Init /\ [][Next]_vars

-----------------------------------------------------------------------------
(* The types of the state.                                                 *)
TypeOK ==
  /\ now \in Times /\ visible \in BOOLEAN
  /\ jar \in [Browsers -> Ids \cup {None}]
  /\ issued \subseteq Ids
  /\ until \in [Ids -> 0..(MaxTime + Dedup)]
  /\ views \subseteq [id: Ids, at: Times]
  /\ req \in [Workers -> Request]
  /\ excused \subseteq Ids /\ lost \subseteq Ids

(* However the requests of a visitor interleave, only one of them stores a *)
(* view, and the last one is then at least a period old, but for the time  *)
(* from the cache's answer to the INSERT; unless the cache failed.         *)
ViewsSpaced ==
  \A w \in Workers : req[w].at = "create" /\ req[w].id \notin excused =>
    /\ \A u \in Workers \ {w} : req[u].at = "create" => req[u].id # req[w].id
    /\ \A x \in views : x.id = req[w].id => now - x.at >= Dedup - MaxStall

(* A visitor whom the key keeps from being counted was counted within the  *)
(* period, or is about to be: a crash before the INSERT loses one period   *)
(* of one visitor, and a cache that does not answer loses none.            *)
VisitsCounted ==
  \A v \in Ids \ lost : Present(v) =>
    \/ \E x \in views : x.id = v /\ x.at >= until[v] - Dedup
    \/ \E w \in Workers : req[w].at = "create" /\ req[w].id = v
=============================================================================
