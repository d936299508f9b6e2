----------------------------- MODULE RateLimit ------------------------------
(***************************************************************************)
(* registration_rate_limited for the posts of one client to one event: two *)
(* counters in the shared cache, one per ten minutes and one per day, keyed *)
(* by the number of the window.  Workers run it in parallel; each cache    *)
(* command is atomic, and commands of different workers interleave.        *)
(*                                                                         *)
(* The cache is Redis through django.core.cache.backends.redis: add is SET *)
(* NX EX, incr is EXISTS then INCR, and an expired key is no key.          *)
(***************************************************************************)
EXTENDS Naturals, FiniteSets

CONSTANTS
  Workers,
  Length,       \* seconds in a window of each level
  Limit,        \* requests a window admits
  Slack,        \* what the key's timeout adds to the window: 5 seconds
  MaxStall,     \* longest time from naming the key to the cache's answer
  MaxTime,      \* bound on the clock
  MaxRequests,  \* bound on the number of posts
  MaxForgotten  \* bound on the number of keys the cache evicts

(* The generator in any() tries the short window first.                    *)
Levels == {"short", "daily"}
Windows == 0..MaxTime
Keys == Levels \X Windows

ASSUME ParameterAssumption ==
  /\ Length \in [Levels -> Nat \ {0}] /\ Limit \in [Levels -> Nat]
  /\ Slack \in Nat /\ MaxStall \in Nat
  /\ MaxTime \in Nat /\ MaxRequests \in Nat /\ MaxForgotten \in Nat

(* No worker is held up, between time.time() and the cache's answer, for   *)
(* longer than keys outlive their window.                                  *)
ASSUME StallAssumption == MaxStall <= Slack

VARIABLES
  now,      \* time.time(), and Redis' clock
  count,    \* the value of each key
  expires,  \* when each key goes; 0 while there never was one
  req,      \* what each worker is doing
  begun,    \* number of posts so far
  passed, refused,  \* history: posts under and over the limit, by key
  lost, spared,     \* history: posts let through by the except clause, by key,
                    \*   the cache having counted them or not
  forgotten         \* history: keys evicted before their time

history == <<passed, refused, lost, spared, forgotten>>
vars == <<now, count, expires, req, begun, passed, refused, lost, spared, forgotten>>

(* An INCR on a key gone since EXISTS makes one that never expires.        *)
Never == MaxTime + Length["short"] + Length["daily"] + Slack + 1

Request == [at: {"idle", "add", "exists", "incr", "set"}, key: Keys, since: 0..MaxTime]

Idle == [at |-> "idle", key |-> <<"short", 0>>, since |-> 0]

Init ==
  /\ now = 0
  /\ count = [x \in Keys |-> 0]
  /\ expires = count
  /\ req = [w \in Workers |-> Idle]
  /\ begun = 0
  /\ passed = count /\ refused = count /\ lost = count /\ spared = count
  /\ forgotten = {}

-----------------------------------------------------------------------------
WindowStart(x) == x[2] * Length[x[1]]

(* The window's number is int(time.time() // window_seconds).              *)
InWindow(x, t) == WindowStart(x) <= t /\ t < WindowStart(x) + Length[x[1]]

Present(x) == expires[x] > now

(* Fault: the key goes with its window.                                    *)
DeadlineOfWindow(x) == now + Length[x[1]]

Deadline(x) == now + Length[x[1]] + Slack

(* _rate_key: the worker names the key of the current window.              *)
RateKey(w, level, window) ==
  /\ InWindow(<<level, window>>, now)
  /\ req' = [req EXCEPT ![w] = [at |-> "add", key |-> <<level, window>>, since |-> now]]

Begin(w, window) ==
  /\ req[w].at = "idle" /\ begun < MaxRequests
  /\ RateKey(w, "short", window)
  /\ begun' = begun + 1
  /\ UNCHANGED <<now, count, expires, history>>

(* What the cache commands that write do to a key: SET with a timeout, and *)
(* INCR, which makes a key without a timeout when there is none.           *)
Put(x) ==
  /\ count' = [count EXCEPT ![x] = 1]
  /\ expires' = [expires EXCEPT ![x] = Deadline(x)]

(* Fault: the counter counts down.                                         *)
IncrementDown(x) ==
  /\ count' = [count EXCEPT ![x] = IF Present(x) THEN count[x] - 1 ELSE 1]
  /\ expires' = [expires EXCEPT ![x] = IF Present(x) THEN expires[x] ELSE Never]

Increment(x) ==
  /\ count' = [count EXCEPT ![x] = IF Present(x) THEN count[x] + 1 ELSE 1]
  /\ expires' = [expires EXCEPT ![x] = IF Present(x) THEN expires[x] ELSE Never]

(* The command of _increment that yields a value, by step of the worker.   *)
Command(w) ==
  LET x == req[w].key IN
  \/ req[w].at = "add" /\ ~Present(x) /\ Put(x)
  \/ req[w].at = "incr" /\ Increment(x)
  \/ req[w].at = "set" /\ Put(x)

(* The commands that only look: SET NX finds the key, or EXISTS answers.   *)
(* Without a key, cache.incr raises the ValueError that leads to set.      *)
Look(w) ==
  LET x == req[w].key IN
  /\ \/ /\ req[w].at = "add" /\ Present(x)
        /\ req' = [req EXCEPT ![w].at = "exists"]
     \/ /\ req[w].at = "exists"
        /\ req' = [req EXCEPT ![w].at = IF Present(x) THEN "incr" ELSE "set"]
  /\ UNCHANGED <<now, count, expires, begun, history>>

(* Fault: >= for >.                                                        *)
TooManyAt(x, value) == value >= Limit[x[1]]

TooMany(x, value) == value > Limit[x[1]]

(* any() stops at the first level that is full.                            *)
Limited(w) ==
  LET x == req[w].key IN
  /\ Command(w)
  /\ TooMany(x, count'[x])
  /\ refused' = [refused EXCEPT ![x] = refused[x] + 1]
  /\ req' = [req EXCEPT ![w] = Idle]
  /\ UNCHANGED <<now, begun, passed, lost, spared, forgotten>>

(* Otherwise the daily key is named next, and after it the view goes on.   *)
Passes(w, window) ==
  LET x == req[w].key IN
  /\ Command(w)
  /\ ~TooMany(x, count'[x])
  /\ passed' = [passed EXCEPT ![x] = passed[x] + 1]
  /\ IF x[1] = "short" THEN RateKey(w, "daily", window)
                       ELSE req' = [req EXCEPT ![w] = Idle]
  /\ UNCHANGED <<now, begun, lost, spared, refused, forgotten>>

(* The cache cannot be reached: the except clause lets the post through,   *)
(* and no counter knows of it.  A post whose worker is killed there is     *)
(* taken for one that was let through, too.                                *)
Unreachable(w) ==
  LET x == req[w].key IN
  /\ req[w].at # "idle"
  /\ spared' = [spared EXCEPT ![x] = spared[x] + 1]
  /\ req' = [req EXCEPT ![w] = Idle]
  /\ UNCHANGED <<now, count, expires, begun, passed, refused, lost, forgotten>>

(* The cache fails after it ran the command: let through, and counted.     *)
AnswerLost(w) ==
  LET x == req[w].key IN
  /\ Command(w)
  /\ lost' = [lost EXCEPT ![x] = lost[x] + 1]
  /\ req' = [req EXCEPT ![w] = Idle]
  /\ UNCHANGED <<now, begun, passed, refused, spared, forgotten>>

Tick ==
  /\ now < MaxTime
  /\ \A w \in Workers : req[w].at # "idle" => now - req[w].since < MaxStall
  /\ now' = now + 1
  /\ UNCHANGED <<count, expires, req, begun, history>>

(* Redis drops any key when memory runs out (allkeys-lru).                 *)
Evict(x) ==
  /\ Present(x)
  /\ Cardinality(forgotten \union {x}) <= MaxForgotten
  /\ forgotten' = forgotten \union {x}
  /\ expires' = [expires EXCEPT ![x] = 0]
  /\ UNCHANGED <<now, count, req, begun, passed, refused, lost, spared>>

Next ==
  \/ Tick
  \/ \E x \in Keys : Evict(x)
  \/ \E w \in Workers :
       \/ \E window \in Windows : Begin(w, window) \/ Passes(w, window)
       \/ Look(w) \/ Limited(w) \/ Unreachable(w) \/ AnswerLost(w)

Spec == Init /\ [][Next]_vars

-----------------------------------------------------------------------------
(* The types of the state.                                                 *)
TypeOK ==
  /\ now \in 0..MaxTime
  /\ count \in [Keys -> Nat]
  /\ expires \in [Keys -> Nat]
  /\ req \in [Workers -> Request]
  /\ begun \in 0..MaxRequests
  /\ passed \in [Keys -> Nat] /\ refused \in [Keys -> Nat]
  /\ lost \in [Keys -> Nat] /\ spared \in [Keys -> Nat]
  /\ forgotten \subseteq Keys

(* A counter the cache does not evict is never lost within its window: a   *)
(* worker that found its key taken finds it again, so the ValueError branch *)
(* is not run, and INCR never makes a key that stays for good.             *)
CounterKept ==
  /\ \A w \in Workers : req[w].key \notin forgotten =>
       /\ req[w].at # "set"
       /\ req[w].at \in {"exists", "incr"} => Present(req[w].key)
  /\ \A x \in Keys \ forgotten : expires[x] # Never

(* The limiter keeps the promise of Quota, for each level and window:      *)
(* unless the key is evicted, it admits no more than Limit posts beside    *)
(* those it let through because the cache failed, and evicted or not it    *)
(* refuses none while there is room.                                       *)
Promise == INSTANCE Quota WITH
  Levels <- Levels, Windows <- Windows, Limit <- Limit, passed <- passed,
  refused <- refused, lost <- lost, spared <- spared, forgotten <- forgotten
QuotaKept == Promise!Spec
=============================================================================
