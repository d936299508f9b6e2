--------------------------- MODULE PageViewsProofs --------------------------
(***************************************************************************)
(* Proofs about PageViews, for any number of workers, browsers and visitor *)
(* ids and any period, given that no worker stalls for a whole period.     *)
(***************************************************************************)
EXTENDS PageViews, FiniteSetTheorems, TLAPS

(* A worker about to store a view set the key itself, recently; no other   *)
(* worker is about to store one of the same visitor.                       *)
KeyHolders ==
  \A w \in Workers : req[w].at = "create" =>
    /\ req[w].id \in Ids
    /\ req[w].since <= now /\ now - req[w].since <= MaxStall
    /\ req[w].id \notin excused =>
         /\ until[req[w].id] = req[w].since + Dedup
         /\ \A u \in Workers \ {w} : req[u].at = "create" => req[u].id # req[w].id

(* A view is younger than its visitor's last key, but for the stall.       *)
ViewsUnderKeys ==
  \A x \in views : x.id \notin excused => until[x.id] >= x.at + Dedup - MaxStall

Keys == \A v \in Ids : until[v] <= now + Dedup

Adding == \A w \in Workers : req[w].at = "add" => req[w].id \in Ids

IInv == TypeOK /\ KeyHolders /\ ViewsUnderKeys /\ Keys /\ Adding
        /\ VisitsCounted /\ ViewsSpaced

-----------------------------------------------------------------------------
LEMMA Start == Init => IInv
  BY TimeAssumption, NoneAssumption
  DEF Init, IInv, TypeOK, KeyHolders, ViewsUnderKeys, Keys, Adding, VisitsCounted,
      ViewsSpaced, Present, Times, Request, Steps, Idle

LEMMA Records ==
  ASSUME TypeOK, NEW w \in Workers
  PROVE  /\ [req EXCEPT ![w] = [req[w] EXCEPT !.at = "render"]] \in [Workers -> Request]
         /\ [req EXCEPT ![w] = [req[w] EXCEPT !.at = "render", !.since = 0]]
              \in [Workers -> Request]
         /\ [req EXCEPT ![w] = [req[w] EXCEPT !.at = "create", !.since = now]]
              \in [Workers -> Request]
<1>1. req[w] \in Request BY DEF TypeOK
<1>2. [req[w] EXCEPT !.at = "render"] \in Request
  BY <1>1 DEF Request, Steps
<1>3. 0 \in Times /\ now \in Times BY TimeAssumption DEF TypeOK, Times
<1>4. \A t \in Times : [req[w] EXCEPT !.at = "render", !.since = t] \in Request
  BY <1>1 DEF Request, Steps
<1>5. \A t \in Times : [req[w] EXCEPT !.at = "create", !.since = t] \in Request
  BY <1>1 DEF Request, Steps
<1> QED BY <1>2, <1>3, <1>4, <1>5 DEF TypeOK

LEMMA CreateTypes == ASSUME IInv, NEW w \in Workers, Create(w) PROVE TypeOK'
<1>0. TypeOK BY DEF IInv
<1>1. req' = [req EXCEPT ![w] = [req[w] EXCEPT !.at = "render", !.since = 0]]
  BY DEF Create
<1>2. req' \in [Workers -> Request] BY <1>0, <1>1, Records
<1>3. req[w].id \in Ids BY DEF Create, IInv, KeyHolders
<1>4. views' \subseteq [id: Ids, at: Times] BY <1>0, <1>3 DEF Create, TypeOK
<1> QED BY <1>0, <1>2, <1>4 DEF Create, TypeOK, Times

LEMMA KeyTypes ==
  ASSUME IInv, NEW w \in Workers, req[w].at = "add"
  PROVE  req[w].id \in Ids /\ KeyAdded(req[w].id) \in [Ids -> 0..(MaxTime + Dedup)]
<1>1. req[w].id \in Ids BY DEF IInv, Adding
<1>2. now + Dedup \in 0..(MaxTime + Dedup)
  BY TimeAssumption DEF IInv, TypeOK, Times
<1> QED BY <1>1, <1>2 DEF KeyAdded, IInv, TypeOK

LEMMA AddTypes == ASSUME IInv, NEW w \in Workers, Add(w) PROVE TypeOK'
<1>0. TypeOK BY DEF IInv
<1>1. until' \in [Ids -> 0..(MaxTime + Dedup)] BY KeyTypes DEF Add
<1>2. lost' \subseteq Ids BY <1>0 DEF Add, TypeOK
<1>3. \/ req' = [req EXCEPT ![w] = [req[w] EXCEPT !.at = "render"]]
      \/ req' = [req EXCEPT ![w] = [req[w] EXCEPT !.at = "create", !.since = now]]
  BY DEF Add
<1>4. req' \in [Workers -> Request] BY <1>0, <1>3, Records
<1> QED BY <1>0, <1>1, <1>2, <1>4 DEF Add, TypeOK, Times

LEMMA CacheFailsTypes == ASSUME IInv, NEW w \in Workers, CacheFails(w) PROVE TypeOK'
<1>0. TypeOK BY DEF IInv
<1>1. until' \in [Ids -> 0..(MaxTime + Dedup)]
  BY <1>0, KeyTypes DEF CacheFails, TypeOK
<1>2. excused' \subseteq Ids BY <1>0, KeyTypes DEF CacheFails, TypeOK
<1>3. req' = [req EXCEPT ![w] = [req[w] EXCEPT !.at = "create", !.since = now]]
  BY DEF CacheFails
<1>4. req' \in [Workers -> Request] BY <1>0, <1>3, Records
<1> QED BY <1>0, <1>1, <1>2, <1>4 DEF CacheFails, TypeOK, Times

LEMMA CrashTypes == ASSUME IInv, NEW w \in Workers, Crash(w) PROVE TypeOK'
<1>0. TypeOK BY DEF IInv
<1>1. Idle \in Request
  BY TimeAssumption DEF Idle, Request, Steps, Times
<1>2. req' \in [Workers -> Request] BY <1>0, <1>1 DEF Crash, TypeOK
<1>3. lost' \subseteq Ids BY <1>0 DEF Crash, TypeOK, IInv, KeyHolders
<1> QED BY <1>0, <1>2, <1>3 DEF Crash, TypeOK, Times

LEMMA RespondTypes == ASSUME IInv, NEW w \in Workers, Respond(w) PROVE TypeOK'
<1>0. TypeOK BY DEF IInv
<1>1. Idle \in Request
  BY TimeAssumption DEF Idle, Request, Steps, Times
<1>2. req' \in [Workers -> Request] BY <1>0, <1>1 DEF Respond, TypeOK
<1>3. req[w].id \in Ids \cup {None} BY <1>0 DEF TypeOK, Request
<1>4. jar' \in [Browsers -> Ids \cup {None}] BY <1>0, <1>3 DEF Respond, TypeOK
<1> QED BY <1>0, <1>2, <1>4 DEF Respond, TypeOK, Times

(* Every step keeps the types.                                             *)
LEMMA Types == ASSUME IInv, [Next]_vars PROVE TypeOK'
<1> USE TimeAssumption, NoneAssumption DEF IInv, TypeOK, Times, Request, Steps
<1>1. CASE SetStatus BY <1>1 DEF SetStatus
<1>2. CASE Tick BY <1>2 DEF Tick
<1>3. ASSUME NEW v \in Ids, Evict(v) PROVE TypeOK' BY <1>3 DEF Evict
<1>4. ASSUME NEW w \in Workers PROVE
        /\ (\E b \in Browsers, v \in Ids : Get(w, b, v)) => TypeOK'
        /\ Add(w) => TypeOK'
        /\ CacheFails(w) => TypeOK'
        /\ Create(w) => TypeOK'
        /\ Crash(w) => TypeOK'
        /\ Respond(w) => TypeOK'
  <2>1. ASSUME NEW b \in Browsers, NEW v \in Ids, Get(w, b, v) PROVE TypeOK'
    BY <2>1 DEF Get
  <2>3. CASE Add(w) BY <2>3, AddTypes
  <2>4. CASE CacheFails(w) BY <2>4, CacheFailsTypes
  <2>5. CASE Create(w) BY <2>5, CreateTypes
  <2>6. CASE Crash(w) BY <2>6, CrashTypes
  <2>7. CASE Respond(w) BY <2>7, RespondTypes
  <2> QED BY <2>1, <2>3, <2>4, <2>5, <2>6, <2>7
<1>5. CASE UNCHANGED vars BY <1>5 DEF vars
<1> QED BY <1>1, <1>2, <1>3, <1>4, <1>5 DEF Next

(* cache.add sets the key of the one visitor, and only when there is none. *)
LEMMA AddedKey ==
  ASSUME TypeOK, NEW v \in Ids
  PROVE  /\ KeyAdded(v) \in [Ids -> Nat]
         /\ \A u \in Ids \ {v} : KeyAdded(v)[u] = until[u]
         /\ Present(v) => KeyAdded(v)[v] = until[v]
         /\ ~Present(v) => KeyAdded(v)[v] = now + Dedup
         /\ KeyAdded(v)[v] >= until[v]
  BY TimeAssumption DEF KeyAdded, Present, TypeOK, Times

(* Every step but those below changes no key, no view and no excuse, and   *)
(* lets no worker store a view that could not before.                      *)
LEMMA QuietStep ==
  ASSUME IInv, now' = now, views' = views, until' = until,
         excused' = excused, lost \subseteq lost',
         \A w \in Workers : req'[w].at = "create" => req'[w] = req[w],
         \A w \in Workers : req[w].at = "create" =>
           req'[w] = req[w] \/ req[w].id \in lost',
         \A w \in Workers : req'[w].at = "add" => req'[w].id \in Ids
  PROVE  KeyHolders' /\ ViewsUnderKeys' /\ Keys' /\ Adding'
         /\ VisitsCounted' /\ ViewsSpaced'
<1>1. KeyHolders' BY DEF IInv, KeyHolders
<1>2. VisitsCounted' BY DEF IInv, VisitsCounted, Present
<1>3. ViewsSpaced' BY DEF IInv, ViewsSpaced
<1> QED BY <1>1, <1>2, <1>3 DEF IInv, ViewsUnderKeys, Keys, Adding

(* The parts of the invariant, step by step.                               *)
LEMMA Steady ==
  ASSUME IInv, [Next]_vars
  PROVE  KeyHolders' /\ ViewsUnderKeys' /\ Keys' /\ Adding'
         /\ VisitsCounted' /\ ViewsSpaced'
<1> DEFINE Goal == KeyHolders' /\ ViewsUnderKeys' /\ Keys' /\ Adding'
                   /\ VisitsCounted' /\ ViewsSpaced'
<1>0. TypeOK BY DEF IInv
<1>1. CASE SetStatus
  BY <1>1, QuietStep DEF SetStatus, IInv, Adding
<1>2. CASE Tick
  <2>1. now \in Nat /\ now' = now + 1 BY <1>0, <1>2, TimeAssumption DEF Tick, TypeOK, Times
  <2>2. \A w \in Workers : req[w].at = "create" => req[w].since \in Nat
    BY <1>0 DEF TypeOK, Request, Times
  <2>3. KeyHolders' BY <1>2, <2>1, <2>2, TimeAssumption DEF Tick, IInv, KeyHolders
  <2>4. \A v \in Ids : until[v] \in Nat
    BY <1>0, TimeAssumption DEF TypeOK
  <2>5. Keys' BY <1>2, <2>1, <2>4, TimeAssumption DEF Tick, IInv, Keys
  <2>6. VisitsCounted' BY <1>2, <2>1, <2>4 DEF Tick, IInv, VisitsCounted, Present
  <2>7. \A y \in views : y.at \in Nat BY <1>0 DEF TypeOK, Times
  <2>8. ViewsSpaced' BY <1>2, <2>1, <2>7, TimeAssumption DEF Tick, IInv, ViewsSpaced
  <2> QED BY <1>2, <2>3, <2>5, <2>6, <2>8 DEF Tick, IInv, ViewsUnderKeys, Adding
<1>3. ASSUME NEW v \in Ids, Evict(v) PROVE Goal
  <2>1. /\ \A u \in Ids \ {v} : until'[u] = until[u]
        /\ until'[v] = 0
        /\ excused' = excused \cup {v}
    BY <1>0, <1>3 DEF Evict, TypeOK
  <2>2. KeyHolders' BY <1>3, <2>1 DEF Evict, IInv, KeyHolders
  <2>3. \A y \in views : y.id \in Ids BY <1>0 DEF TypeOK
  <2>4. ViewsUnderKeys' BY <1>3, <2>1, <2>3 DEF Evict, IInv, ViewsUnderKeys
  <2>5. now \in Nat BY <1>0, TimeAssumption DEF TypeOK, Times
  <2>6. Keys' BY <1>3, <2>1, <2>5, TimeAssumption DEF Evict, IInv, Keys
  <2>7. VisitsCounted' BY <1>3, <2>1, <2>5 DEF Evict, IInv, VisitsCounted, Present
  <2>8. ViewsSpaced' BY <1>3, <2>1 DEF Evict, IInv, ViewsSpaced
  <2> QED BY <1>3, <2>2, <2>4, <2>6, <2>7, <2>8 DEF Evict, IInv, Adding
<1>4. ASSUME NEW w \in Workers, NEW b \in Browsers, NEW v \in Ids, Get(w, b, v) PROVE Goal
  <2>1. req' = [req EXCEPT ![w] = [at |-> "add", browser |-> b, id |-> v,
                                   new |-> jar[b] = None, since |-> 0]]
    BY <1>4 DEF Get
  <2>2. /\ req[w].at = "idle"
        /\ \A u \in Workers \ {w} : req'[u] = req[u]
        /\ req'[w].at = "add" /\ req'[w].id = v
    BY <1>0, <1>4, <2>1 DEF Get, TypeOK
  <2> QED BY <1>4, <2>2, QuietStep DEF Get, IInv, Adding
<1>5. ASSUME NEW w \in Workers, Crash(w) PROVE Goal
  <2>1. /\ req'[w].at = "idle"
        /\ \A u \in Workers \ {w} : req'[u] = req[u]
        /\ lost \subseteq lost'
        /\ req[w].at = "create" => req[w].id \in lost'
    BY <1>0, <1>5 DEF Crash, Idle, TypeOK
  <2> QED BY <1>5, <2>1, QuietStep DEF Crash, IInv, Adding
<1>6. ASSUME NEW w \in Workers, Respond(w) PROVE Goal
  <2>1. /\ req[w].at = "render" /\ req'[w].at = "idle"
        /\ \A u \in Workers \ {w} : req'[u] = req[u]
    BY <1>0, <1>6 DEF Respond, Idle, TypeOK
  <2> QED BY <1>6, <2>1, QuietStep DEF Respond, IInv, Adding
<1>7. ASSUME NEW w \in Workers, Create(w) PROVE Goal
  <2> DEFINE v == req[w].id
  <2>1. /\ req[w].at = "create" /\ req'[w].at = "render" /\ v \in Ids
        /\ \A u \in Workers \ {w} : req'[u] = req[u]
        /\ views' = views \cup {[id |-> v, at |-> now]}
        /\ until' = until /\ now' = now /\ excused' = excused /\ lost' = lost
    BY <1>0, <1>7 DEF Create, TypeOK, IInv, KeyHolders
  <2>2. now \in Nat /\ until[v] \in Nat /\ req[w].since \in Nat
    BY <1>0, <2>1, TimeAssumption DEF TypeOK, Times, Request
  <2>3. KeyHolders' BY <2>1 DEF IInv, KeyHolders
  <2>4. v \notin excused => until[v] >= now + Dedup - MaxStall
    BY <2>1, <2>2, TimeAssumption DEF IInv, KeyHolders
  <2>5. ViewsUnderKeys' BY <2>1, <2>4 DEF IInv, ViewsUnderKeys
  <2>6. now >= until[v] - Dedup BY <2>1, <2>2, TimeAssumption DEF IInv, Keys
  <2>7. VisitsCounted'
    <3> SUFFICES ASSUME NEW u \in Ids \ lost', Present(u)'
                 PROVE  \/ \E y \in views' : y.id = u /\ y.at >= until'[u] - Dedup
                        \/ \E h \in Workers : req'[h].at = "create" /\ req'[h].id = u
      BY DEF VisitsCounted
    <3>1. CASE u = v
      <4> DEFINE y == [id |-> v, at |-> now]
      <4>1. y \in views' /\ y.id = u /\ y.at = now BY <3>1, <2>1
      <4>2. y.at >= until'[u] - Dedup BY <3>1, <4>1, <2>1, <2>6
      <4> QED BY <4>1, <4>2
    <3>2. CASE u # v BY <3>2, <2>1 DEF IInv, VisitsCounted, Present
    <3> QED BY <3>1, <3>2
  <2>8. ViewsSpaced' BY <2>1 DEF IInv, ViewsSpaced
  <2> QED BY <2>1, <2>3, <2>5, <2>7, <2>8 DEF IInv, Keys, Adding
<1>8. ASSUME NEW w \in Workers, Add(w) PROVE Goal
  <2> DEFINE v == req[w].id
  <2>1. v \in Ids /\ req[w].at = "add" /\ until' = KeyAdded(v)
    BY <1>8 DEF Add, IInv, Adding
  <2>2. /\ \A u \in Workers \ {w} : req'[u] = req[u]
        /\ req'[w].id = v
        /\ views' = views /\ now' = now /\ excused' = excused
    BY <1>0, <1>8 DEF Add, TypeOK, Request
  <2>3. now \in Nat /\ \A u \in Ids : until[u] \in Nat
    BY <1>0, TimeAssumption DEF TypeOK, Times
  <2>4. CASE Present(v)
    <3>1. until' = until
      BY <1>0, <2>1, <2>4 DEF KeyAdded, TypeOK
    <3>2. req'[w].at = "render" /\ lost' = lost
      BY <1>0, <1>8, <2>4 DEF Add, TypeOK
    <3> QED BY <2>1, <2>2, <3>1, <3>2, QuietStep DEF IInv, Adding
  <2>5. CASE ~Present(v)
    <3>1. /\ \A u \in Ids \ {v} : until'[u] = until[u]
          /\ until'[v] = now + Dedup
          /\ until[v] <= now
      BY <1>0, <2>1, <2>3, <2>5, AddedKey DEF Present
    <3>2. /\ req'[w].at = "create" /\ req'[w].since = now
          /\ lost' = lost \ {v}
      BY <1>0, <1>8, <2>5 DEF Add, TypeOK
    <3>3. \A u \in Workers \ {w} : req[u].at = "create" =>
             req[u].id \in excused \/ req[u].id # v
      <4> SUFFICES ASSUME NEW u \in Workers, req[u].at = "create",
                          req[u].id \notin excused, req[u].id = v
                   PROVE  FALSE
        OBVIOUS
      <4>1. until[v] = req[u].since + Dedup /\ now - req[u].since <= MaxStall
        BY DEF IInv, KeyHolders
      <4>2. req[u].since \in Nat BY <1>0 DEF TypeOK, Request, Times
      <4> QED BY <4>1, <4>2, <3>1, <2>3, TimeAssumption
    <3>4. KeyHolders'
      <4> SUFFICES ASSUME NEW u \in Workers, req'[u].at = "create"
                   PROVE  /\ req'[u].id \in Ids
                          /\ req'[u].since <= now /\ now - req'[u].since <= MaxStall
                          /\ req'[u].id \notin excused =>
                             /\ until'[req'[u].id] = req'[u].since + Dedup
                             /\ \A h \in Workers \ {u} :
                                   req'[h].at = "create" => req'[h].id # req'[u].id
        BY <2>2 DEF KeyHolders
      <4>1. CASE u = w BY <4>1, <2>1, <2>2, <2>3, <3>1, <3>2, <3>3, TimeAssumption
      <4>2. CASE u # w BY <4>2, <2>1, <2>2, <3>1, <3>2, <3>3 DEF IInv, KeyHolders
      <4> QED BY <4>1, <4>2
    <3>5. ViewsUnderKeys'
      <4> SUFFICES ASSUME NEW y \in views, y.id \notin excused
                   PROVE  until'[y.id] >= y.at + Dedup - MaxStall
        BY <2>2 DEF ViewsUnderKeys
      <4>1. y.id \in Ids /\ y.at \in Nat BY <1>0 DEF TypeOK, Times
      <4>2. until[y.id] >= y.at + Dedup - MaxStall BY DEF IInv, ViewsUnderKeys
      <4> QED BY <4>1, <4>2, <3>1, <2>1, <2>3, TimeAssumption
    <3>6. Keys' BY <2>2, <2>3, <3>1, TimeAssumption DEF IInv, Keys
    <3>7. VisitsCounted'
      <4> SUFFICES ASSUME NEW u \in Ids \ lost', Present(u)'
                   PROVE  \/ \E y \in views' : y.id = u /\ y.at >= until'[u] - Dedup
                          \/ \E h \in Workers : req'[h].at = "create" /\ req'[h].id = u
        BY DEF VisitsCounted
      <4>1. CASE u = v BY <4>1, <2>2, <3>2
      <4>2. CASE u # v
        <5>1. u \in Ids \ lost /\ until'[u] = until[u] /\ Present(u)
          BY <4>2, <2>1, <2>2, <3>1, <3>2 DEF Present
        <5>2. \/ \E y \in views : y.id = u /\ y.at >= until[u] - Dedup
              \/ \E h \in Workers : req[h].at = "create" /\ req[h].id = u
          BY <5>1 DEF IInv, VisitsCounted
        <5>3. \A h \in Workers : req[h].at = "create" => h # w BY <2>1
        <5> QED BY <5>1, <5>2, <5>3, <2>2
      <4> QED BY <4>1, <4>2
    <3>8. ViewsSpaced'
      <4> SUFFICES ASSUME NEW u \in Workers, req'[u].at = "create", req'[u].id \notin excused
                   PROVE  /\ \A h \in Workers \ {u} :
                               req'[h].at = "create" => req'[h].id # req'[u].id
                          /\ \A y \in views :
                               y.id = req'[u].id => now - y.at >= Dedup - MaxStall
        BY <2>2 DEF ViewsSpaced
      <4>1. CASE u = w
        <5> SUFFICES ASSUME NEW y \in views, y.id = v
                     PROVE  now - y.at >= Dedup - MaxStall
          BY <4>1, <2>1, <2>2, <3>3
        <5>1. until[v] >= y.at + Dedup - MaxStall
          BY <4>1, <2>2 DEF IInv, ViewsUnderKeys
        <5>2. y.at \in Nat BY <1>0 DEF TypeOK, Times
        <5> QED BY <5>1, <5>2, <2>1, <2>3, <3>1, TimeAssumption
      <4>2. CASE u # w BY <4>2, <2>1, <2>2, <3>2, <3>3 DEF IInv, ViewsSpaced
      <4> QED BY <4>1, <4>2
    <3> QED BY <3>2, <3>4, <3>5, <3>6, <3>7, <3>8, <2>2 DEF IInv, Adding
  <2> QED BY <2>4, <2>5
<1>9. ASSUME NEW w \in Workers, CacheFails(w) PROVE Goal
  <2> DEFINE v == req[w].id
  <2>1. v \in Ids /\ req[w].at = "add"
    BY <1>9 DEF CacheFails, IInv, Adding
  <2>2. /\ \A u \in Workers \ {w} : req'[u] = req[u]
        /\ req'[w].id = v /\ req'[w].at = "create" /\ req'[w].since = now
        /\ views' = views /\ now' = now /\ lost' = lost
        /\ excused' = excused \cup {v}
    BY <1>0, <1>9 DEF CacheFails, TypeOK, Request
  <2>3. now \in Nat /\ \A u \in Ids : until[u] \in Nat
    BY <1>0, TimeAssumption DEF TypeOK, Times
  <2>4. /\ \A u \in Ids \ {v} : until'[u] = until[u]
        /\ until'[v] = until[v] \/ until'[v] = now + Dedup
    BY <1>0, <1>9, <2>1, AddedKey DEF CacheFails
  <2>5. KeyHolders' BY <2>1, <2>2, <2>3, <2>4, TimeAssumption DEF IInv, KeyHolders
  <2>6. \A y \in views : y.id \in Ids BY <1>0 DEF TypeOK
  <2>7. ViewsUnderKeys' BY <2>2, <2>4, <2>6 DEF IInv, ViewsUnderKeys
  <2>8. Keys' BY <2>1, <2>2, <2>3, <2>4, TimeAssumption DEF IInv, Keys
  <2>9. VisitsCounted'
    <3> SUFFICES ASSUME NEW u \in Ids \ lost', Present(u)'
                 PROVE  \/ \E y \in views' : y.id = u /\ y.at >= until'[u] - Dedup
                        \/ \E h \in Workers : req'[h].at = "create" /\ req'[h].id = u
      BY DEF VisitsCounted
    <3>1. CASE u = v BY <3>1, <2>2
    <3>2. CASE u # v
      <4>1. u \in Ids \ lost /\ until'[u] = until[u] /\ Present(u)
        BY <3>2, <2>2, <2>4 DEF Present
      <4>2. \/ \E y \in views : y.id = u /\ y.at >= until[u] - Dedup
            \/ \E h \in Workers : req[h].at = "create" /\ req[h].id = u
        BY <4>1 DEF IInv, VisitsCounted
      <4>3. \A h \in Workers : req[h].at = "create" => h # w BY <2>1
      <4> QED BY <4>1, <4>2, <4>3, <2>2
    <3> QED BY <3>1, <3>2
  <2>10. ViewsSpaced' BY <2>2 DEF IInv, ViewsSpaced
  <2> QED BY <2>2, <2>5, <2>7, <2>8, <2>9, <2>10 DEF IInv, Adding
<1>10. CASE UNCHANGED vars
  BY <1>10, QuietStep DEF vars, IInv, Adding
<1> QED BY <1>1, <1>2, <1>3, <1>4, <1>5, <1>6, <1>7, <1>8, <1>9, <1>10 DEF Next

-----------------------------------------------------------------------------
(* The views of PageViews keep their invariant.                            *)
THEOREM PageViewsInvariant == Spec => []IInv
<1>1. IInv /\ [Next]_vars => IInv' BY Types, Steady DEF IInv
<1> QED BY Start, <1>1, PTL DEF Spec

(* Every variable keeps its type.                                          *)
THEOREM TypeCorrect == Spec => []TypeOK
<1>1. IInv => TypeOK BY DEF IInv
<1> QED BY PageViewsInvariant, <1>1, PTL

(* Of the requests that overlap, one stores a view of a visitor, and only  *)
(* a period after the last, but for the stall; unless the cache failed.    *)
THEOREM ViewsAreSpaced == Spec => []ViewsSpaced
<1>1. IInv => ViewsSpaced BY DEF IInv
<1> QED BY PageViewsInvariant, <1>1, PTL

(* Whom the key keeps from being counted was counted within the period, or *)
(* a request was cut short.                                                *)
THEOREM VisitorsAreCounted == Spec => []VisitsCounted
<1>1. IInv => VisitsCounted BY DEF IInv
<1> QED BY PageViewsInvariant, <1>1, PTL

-----------------------------------------------------------------------------
(* What the figures of the statistics page may rely on.                    *)

(* Two views of one visitor are a period apart, but for the stall.         *)
Spacing == Dedup - MaxStall

Apart ==
  \A x, y \in views :
    x # y /\ x.id = y.id /\ x.id \notin excused =>
      x.at - y.at >= Spacing \/ y.at - x.at >= Spacing

LEMMA ViewFacts ==
  ASSUME TypeOK
  PROVE  /\ now \in Nat /\ Spacing \in Nat \ {0}
         /\ \A x \in views : x.id \in Ids /\ x.at \in Nat /\ x = [id |-> x.id, at |-> x.at]
BY TimeAssumption DEF TypeOK, Times, Spacing

(* No view is from the future.                                             *)
SoFar == \A x \in views : x.at <= now

LEMMA ApartStep ==
  ASSUME IInv, Apart, SoFar, [Next]_vars
  PROVE  (Apart /\ SoFar)'
<1>0. TypeOK /\ ViewsSpaced
  BY DEF IInv
<1>1. ASSUME NEW w \in Workers, Create(w) PROVE (Apart /\ SoFar)'
  <2> DEFINE new == [id |-> req[w].id, at |-> now]
  <2>1. /\ views' = views \cup {new} /\ now' = now /\ excused' = excused
        /\ req[w].at = "create"
    BY <1>1 DEF Create
  <2>2. ASSUME NEW x \in views, x.id = req[w].id, x.id \notin excused
        PROVE  now - x.at >= Spacing
    BY <1>0, <2>1, <2>2 DEF ViewsSpaced, Spacing
  <2>3. new.id = req[w].id /\ new.at = now
    OBVIOUS
  <2> HIDE DEF new
  <2>4. SoFar'
    BY <1>0, <2>1, <2>3, ViewFacts DEF SoFar
  <2>5. Apart'
    BY <2>1, <2>2, <2>3 DEF Apart
  <2> QED BY <2>4, <2>5
<1>2. ASSUME UNCHANGED views, now <= now', excused \subseteq excused' PROVE (Apart /\ SoFar)'
  <2>1. now' \in Nat \/ now' = now
    BY <1>0, Types, ViewFacts DEF TypeOK, Times
  <2> QED BY <1>0, <1>2, <2>1, ViewFacts DEF Apart, SoFar
<1>3. ASSUME NEW w \in Workers,
             \/ \E b \in Browsers, v \in Ids : Get(w, b, v)
             \/ Add(w) \/ CacheFails(w) \/ Crash(w) \/ Respond(w)
      PROVE  (Apart /\ SoFar)'
  BY <1>0, <1>2, <1>3, ViewFacts DEF Get, Add, CacheFails, Crash, Respond
<1>4. ASSUME SetStatus \/ Tick \/ \E v \in Ids : Evict(v) PROVE (Apart /\ SoFar)'
  BY <1>0, <1>2, <1>4, ViewFacts DEF SetStatus, Tick, Evict
<1>5. ASSUME UNCHANGED vars PROVE (Apart /\ SoFar)'
  BY <1>0, <1>2, <1>5, ViewFacts DEF vars
<1> QED BY <1>1, <1>3, <1>4, <1>5 DEF Next

LEMMA ViewsApart == Spec => [](IInv /\ Apart /\ SoFar)
<1>1. Init => Apart /\ SoFar
  BY DEF Init, Apart, SoFar
<1>2. IInv /\ Apart /\ SoFar /\ [Next]_vars => (Apart /\ SoFar)'
  BY ApartStep
<1> QED BY <1>1, <1>2, PageViewsInvariant, PTL DEF Spec

(* record_event_view: whatever requests of a visitor overlap, the event    *)
(* has at most one view of them for each period that has begun, the stall  *)
(* taken off it, unless the cache lost a key or did not answer.            *)
ViewsBounded ==
  \A v \in Ids \ excused :
    Cardinality({x \in views : x.id = v}) <= now \div Spacing + 1

LEMMA Quotients ==
  ASSUME NEW s \in Nat \ {0}, NEW a \in Nat, NEW b \in Nat
  PROVE  /\ a \div s \in Nat
         /\ a <= b => a \div s <= b \div s
         /\ b - a >= s => a \div s # b \div s
OBVIOUS

(* record_event_view's cache.add bounds the rows a visitor can cause: at   *)
(* most one in every Spacing seconds since the clock began.                *)
THEOREM ViewsAreBounded == Spec => []ViewsBounded
<1>1. IInv /\ Apart /\ SoFar => ViewsBounded
  <2> SUFFICES ASSUME IInv, Apart, SoFar, NEW v \in Ids \ excused
               PROVE  Cardinality({x \in views : x.id = v}) <= now \div Spacing + 1
    BY DEF ViewsBounded
  <2> DEFINE mine == {x \in views : x.id = v}
             last == now \div Spacing
             period == [x \in mine |-> x.at \div Spacing]
  <2>0. now \in Nat /\ Spacing \in Nat \ {0} /\ \A x \in mine : x.at \in Nat
    BY ViewFacts DEF IInv
  <2>1. last \in Nat /\ \A x \in mine : x.at \div Spacing \in 0..last
    BY <2>0, Quotients DEF SoFar
  <2>2. \A x, y \in mine : x # y => x.at \div Spacing # y.at \div Spacing
    BY <2>0, Quotients DEF Apart
  <2> HIDE DEF last, mine
  <2>3. period \in Injection(mine, 0..last)
    BY <2>1, <2>2 DEF Injection, IsInjective
  <2>4. IsFiniteSet(0..last) /\ Cardinality(0..last) = last + 1
    <3>1. 0 \in Int /\ last \in Int /\ 0 <= last
      BY <2>1
    <3> QED BY <3>1, FS_Interval
  <2>5. Cardinality(mine) <= last + 1
    BY <2>3, <2>4, FS_Injection
  <2> QED BY <2>5 DEF last, mine
<1> QED BY <1>1, ViewsApart, PTL
=============================================================================
