--------------------------- MODULE RateLimitProofs ---------------------------
(***************************************************************************)
(* The limiter implements Quota for any windows, limits and workers, if no *)
(* worker stalls longer than keys outlive their window, whatever keys the  *)
(* cache evicts.                                                           *)
(***************************************************************************)
EXTENDS RateLimit, TLAPS

LEMMA KeyFacts ==
  ASSUME NEW x \in Keys
  PROVE  Limit[x[1]] \in Nat /\ Length[x[1]] \in Nat /\ WindowStart(x) \in Nat
BY ParameterAssumption DEF Keys, Levels, Windows, WindowStart

(* A request under way is still in time: its key, if ever made, is there,  *)
(* unless it was evicted.                                                  *)
RequestInv ==
  \A w \in Workers : req[w].at # "idle" =>
    /\ InWindow(req[w].key, req[w].since)
    /\ req[w].since <= now /\ now <= req[w].since + MaxStall
    /\ req[w].key \notin forgotten =>
         /\ req[w].at \in {"exists", "incr"} => count[req[w].key] > 0
         /\ req[w].at # "set"

KeyInv ==
  \A x \in Keys : x \notin forgotten =>
    /\ count[x] > 0 => expires[x] >= WindowStart(x) + Length[x[1]] + Slack
    /\ expires[x] > now => count[x] > 0
    /\ expires[x] # Never

(* The counter counts requests, until the window is full.                  *)
CountInv ==
  \A x \in Keys : x \notin forgotten =>
    /\ count[x] <= Limit[x[1]] => passed[x] + lost[x] = count[x]
    /\ count[x] > Limit[x[1]] => passed[x] <= Limit[x[1]]

(* Evicted or not, it is at most too low.                                  *)
CoverInv ==
  \A x \in Keys : passed[x] + lost[x] >= count[x] \/ passed[x] + lost[x] >= Limit[x[1]]

Inv == TypeOK /\ RequestInv /\ KeyInv /\ CountInv /\ CoverInv

LEMMA InTime ==
  ASSUME Inv, NEW w \in Workers, req[w].at # "idle", count[req[w].key] > 0,
         req[w].key \notin forgotten
  PROVE  Present(req[w].key)
<1> DEFINE x == req[w].key
<1>1. x \in Keys /\ req[w].since \in Nat /\ now \in Nat /\ expires[x] \in Nat
  BY ParameterAssumption DEF Inv, TypeOK, Request
<1>2. /\ req[w].since < WindowStart(x) + Length[x[1]]
      /\ now <= req[w].since + MaxStall
      /\ expires[x] >= WindowStart(x) + Length[x[1]] + Slack
  BY <1>1 DEF Inv, RequestInv, KeyInv, InWindow
<1>3. WindowStart(x) \in Nat /\ Length[x[1]] \in Nat
  BY <1>1, KeyFacts
<1> HIDE DEF x
<1>4. expires[x] > now
  BY <1>1, <1>2, <1>3, ParameterAssumption, StallAssumption
<1> QED BY <1>4 DEF Present, x

-----------------------------------------------------------------------------
(* Types.                                                                  *)
LEMMA CommandTypes ==
  ASSUME TypeOK, NEW w \in Workers, Command(w)
  PROVE  count' \in [Keys -> Nat] /\ expires' \in [Keys -> Nat] /\ req[w].key \in Keys
<1>1. req[w].key \in Keys /\ Deadline(req[w].key) \in Nat /\ Never \in Nat
  <2>1. req[w].key \in Keys /\ now \in Nat
    BY ParameterAssumption DEF TypeOK, Request
  <2>2. Length["short"] \in Nat /\ Length["daily"] \in Nat
    BY ParameterAssumption DEF Levels
  <2> QED BY <2>1, <2>2, KeyFacts, ParameterAssumption DEF Deadline, Never
<1> QED BY <1>1 DEF TypeOK, Command, Put, Increment

LEMMA NewKeys ==
  ASSUME TypeOK, NEW window \in Windows
  PROVE  <<"short", window>> \in Keys /\ <<"daily", window>> \in Keys /\ now \in 0..MaxTime
BY DEF Keys, Levels, TypeOK

LEMMA TypeStep ==
  ASSUME TypeOK, [Next]_vars
  PROVE  TypeOK'
<1> USE DEF history
<1>0. Idle \in Request
  BY ParameterAssumption DEF Idle, Request, Keys, Levels, Windows
<1>1. ASSUME Tick PROVE TypeOK'
  BY <1>1, ParameterAssumption DEF Tick, TypeOK
<1>2. ASSUME NEW w \in Workers, NEW window \in Windows, Begin(w, window) PROVE TypeOK'
  <2>1. req' \in [Workers -> Request]
    BY <1>2, NewKeys DEF Begin, RateKey, TypeOK, Request
  <2>2. begun' \in 0..MaxRequests
    BY <1>2, ParameterAssumption DEF Begin, TypeOK
  <2> QED BY <1>2, <2>1, <2>2 DEF Begin, TypeOK
<1>3. ASSUME NEW w \in Workers, NEW window \in Windows, Passes(w, window) PROVE TypeOK'
  <2>2. ASSUME RateKey(w, "daily", window) PROVE req' \in [Workers -> Request]
    BY <2>2, NewKeys DEF RateKey, TypeOK, Request
  <2>3. ASSUME req' = [req EXCEPT ![w] = Idle] PROVE req' \in [Workers -> Request]
    BY <1>0, <2>3 DEF TypeOK
  <2>1. req' \in [Workers -> Request]
    BY <1>3, <2>2, <2>3 DEF Passes
  <2> QED BY <1>3, <2>1, CommandTypes DEF Passes, TypeOK
<1>4. ASSUME NEW w \in Workers, Look(w) PROVE TypeOK'
  BY <1>4 DEF Look, TypeOK, Request
<1>6. ASSUME NEW w \in Workers, Limited(w) PROVE TypeOK'
  BY <1>0, <1>6, CommandTypes DEF Limited, TypeOK
<1>7. ASSUME NEW w \in Workers, Unreachable(w) PROVE TypeOK'
  <2>1. req[w].key \in Keys
    BY DEF TypeOK, Request
  <2> QED BY <1>0, <1>7, <2>1 DEF Unreachable, TypeOK
<1>8. ASSUME NEW w \in Workers, AnswerLost(w) PROVE TypeOK'
  BY <1>0, <1>8, CommandTypes DEF AnswerLost, TypeOK
<1>9. ASSUME NEW x \in Keys, Evict(x) PROVE TypeOK'
  BY <1>9 DEF Evict, TypeOK
<1>10. ASSUME UNCHANGED vars PROVE TypeOK'
  BY <1>10 DEF vars, TypeOK
<1> QED
  BY <1>1, <1>2, <1>3, <1>4, <1>6, <1>7, <1>8, <1>9, <1>10 DEF Next

LEMMA TypeInit == Init => TypeOK
BY ParameterAssumption DEF Init, TypeOK, Request, Idle, Keys, Levels, Windows

(* Every variable keeps its type.                                          *)
THEOREM TypeCorrect == Spec => []TypeOK
<1>1. TypeOK /\ [Next]_vars => TypeOK' BY TypeStep
<1> QED BY <1>1, TypeInit, PTL DEF Spec

-----------------------------------------------------------------------------
(* Of a key that is kept, a command that yields a value adds one to the    *)
(* counter.                                                                *)
LEMMA CommandCounts ==
  ASSUME Inv, NEW w \in Workers, Command(w), NEW x, x = req[w].key, x \notin forgotten
  PROVE  /\ x \in Keys /\ req[w].at # "idle"
         /\ count' = [count EXCEPT ![x] = count[x] + 1]
         /\ \/ expires' = expires /\ count[x] > 0
            \/ expires' = [expires EXCEPT ![x] = Deadline(x)]
<1>1. x \in Keys /\ count[x] \in Nat
  BY DEF Inv, TypeOK, Request
<1>2. CASE req[w].at = "add" /\ ~Present(x) /\ Put(x)
  <2>1. count[x] = 0
    BY <1>1, <1>2, InTime
  <2> QED BY <1>1, <1>2, <2>1 DEF Put
<1>3. CASE req[w].at = "incr" /\ Increment(x)
  <2>1. count[x] > 0
    BY <1>3 DEF Inv, RequestInv
  <2>2. Present(x)
    BY <1>3, <2>1, InTime
  <2> QED BY <1>1, <1>3, <2>1, <2>2 DEF Increment, Inv, TypeOK
<1>4. CASE req[w].at = "set" /\ Put(x)
  BY <1>4 DEF Inv, RequestInv
<1> QED BY <1>2, <1>3, <1>4 DEF Command

(* The deadline of a key that is in use covers its window, and the slack.  *)
LEMMA DeadlineCovers ==
  ASSUME Inv, NEW w \in Workers, req[w].at # "idle", NEW x, x = req[w].key
  PROVE  /\ Deadline(x) \in Nat /\ Deadline(x) # Never
         /\ Deadline(x) >= WindowStart(x) + Length[x[1]] + Slack
<1>1. /\ x \in Keys /\ now \in Nat /\ now <= MaxTime /\ req[w].since \in Nat
  BY ParameterAssumption DEF Inv, TypeOK, Request
<1>2. WindowStart(x) <= now
  BY <1>1, KeyFacts DEF Inv, RequestInv, InWindow
<1>3. Length[x[1]] <= Length["short"] + Length["daily"]
  BY <1>1, ParameterAssumption DEF Keys, Levels
<1>4. Length["short"] \in Nat /\ Length["daily"] \in Nat
  BY ParameterAssumption DEF Levels
<1> QED BY <1>1, <1>2, <1>3, <1>4, KeyFacts, ParameterAssumption DEF Deadline, Never

(* A command touches no key but the worker's, and its count goes up by at  *)
(* most one.                                                               *)
LEMMA CommandCovered ==
  ASSUME TypeOK, NEW w \in Workers, Command(w), NEW x, x = req[w].key
  PROVE  /\ x \in Keys /\ req[w].at # "idle" /\ count'[x] \in Nat
         /\ count'[x] = count[x] + 1 \/ count'[x] = 1
         /\ \A y \in Keys : y # x => count'[y] = count[y] /\ expires'[y] = expires[y]
<1>1. x \in Keys BY DEF TypeOK, Request
<1> QED BY <1>1 DEF TypeOK, Command, Put, Increment

LEMMA KeyStepOfCommand ==
  ASSUME Inv, NEW w \in Workers, Command(w), now' = now, forgotten' = forgotten
  PROVE  KeyInv'
<1> DEFINE x == req[w].key
           Good(y) == /\ count[y] > 0 => expires[y] >= WindowStart(y) + Length[y[1]] + Slack
                      /\ expires[y] > now => count[y] > 0
                      /\ expires[y] # Never
<1> SUFFICES ASSUME NEW y \in Keys, y \notin forgotten PROVE Good(y)'
  BY DEF KeyInv
<1>1. Good(y)
  BY DEF Inv, KeyInv
<1>2. CASE y # x
  <2>1. count'[y] = count[y] /\ expires'[y] = expires[y]
    BY <1>2, CommandCovered DEF Inv
  <2> QED BY <1>1, <2>1 DEF WindowStart, Never
<1>3. CASE y = x
  <2>1. /\ req[w].at # "idle"
        /\ count' = [count EXCEPT ![y] = count[y] + 1]
        /\ \/ expires' = expires /\ count[y] > 0
           \/ expires' = [expires EXCEPT ![y] = Deadline(y)]
    BY <1>3, CommandCounts
  <2>2. /\ Deadline(y) # Never
        /\ Deadline(y) >= WindowStart(y) + Length[y[1]] + Slack
    BY <1>3, <2>1, DeadlineCovers
  <2>3. count'[y] > 0 /\ expires'[y] \in {expires[y], Deadline(y)} /\ count[y] \in Nat
    BY <2>1 DEF Inv, TypeOK
  <2>4. expires'[y] = expires[y] => count[y] > 0 \/ expires[y] = Deadline(y)
    BY <2>1 DEF Inv, TypeOK
  <2> HIDE DEF x
  <2> QED BY <1>1, <2>2, <2>3, <2>4 DEF WindowStart, Never
<1> QED BY <1>2, <1>3

LEMMA StillCounted ==
  ASSUME Inv, NEW w \in Workers, Command(w)
  PROVE  \A y \in Keys : y \notin forgotten /\ count[y] > 0 => count'[y] > 0
<1> SUFFICES ASSUME NEW y \in Keys, count[y] > 0 PROVE count'[y] > 0
  OBVIOUS
<1>1. count[y] \in Nat BY DEF Inv, TypeOK
<1> QED BY <1>1, CommandCovered DEF Inv

LEMMA RequestStep ==
  ASSUME Inv, [Next]_vars
  PROVE  RequestInv'
<1> USE DEF history, Inv, TypeOK, Request, InWindow, WindowStart
<1>1. ASSUME Tick PROVE RequestInv'
  BY <1>1, ParameterAssumption DEF Tick, RequestInv
<1>2. ASSUME NEW w \in Workers, NEW window \in Windows, Begin(w, window)
      PROVE  RequestInv'
  BY <1>2, ParameterAssumption DEF Begin, RateKey, RequestInv
<1>3. ASSUME NEW w \in Workers, Command(w), now' = now, forgotten' = forgotten,
             req' = [req EXCEPT ![w] = Idle]
      PROVE  RequestInv'
  <2>1. \A y \in Keys : y \notin forgotten /\ count[y] > 0 => count'[y] > 0
    BY <1>3, StillCounted
  <2> QED BY <1>3, <2>1 DEF RequestInv, Idle
<1>4. ASSUME NEW w \in Workers, NEW window \in Windows, Passes(w, window)
      PROVE  RequestInv'
  <2>1. \A y \in Keys : y \notin forgotten /\ count[y] > 0 => count'[y] > 0
    BY <1>4, StillCounted DEF Passes
  <2>2. CASE RateKey(w, "daily", window)
    BY <1>4, <2>1, <2>2, ParameterAssumption DEF Passes, RateKey, RequestInv
  <2>3. CASE req' = [req EXCEPT ![w] = Idle]
    BY <1>3, <1>4, <2>3 DEF Passes
  <2> QED BY <1>4, <2>2, <2>3 DEF Passes
<1>5. ASSUME NEW w \in Workers, Look(w) PROVE RequestInv'
  <2> DEFINE x == req[w].key
  <2>1. /\ req[w].at \in {"add", "exists"} /\ x \in Keys
        /\ x \notin forgotten /\ Present(x) => count[x] > 0
    BY <1>5 DEF Look, KeyInv, Present
  <2>2. x \notin forgotten /\ req[w].at = "exists" => Present(x)
    BY <2>1, InTime DEF RequestInv
  <2>3. PICK next \in {"exists", "incr", "set"} : req' = [req EXCEPT ![w].at = next]
    BY <1>5 DEF Look
  <2>4. x \notin forgotten => count[x] > 0 /\ next # "set"
    BY <1>5, <2>1, <2>2, <2>3 DEF Look
  <2>5. UNCHANGED <<now, count, forgotten>>
    BY <1>5 DEF Look
  <2> QED BY <2>1, <2>3, <2>4, <2>5 DEF RequestInv
<1>6. ASSUME NEW w \in Workers, Limited(w) PROVE RequestInv'
  BY <1>3, <1>6 DEF Limited
<1>7. ASSUME NEW w \in Workers, Unreachable(w) PROVE RequestInv'
  BY <1>7 DEF Unreachable, Idle, RequestInv
<1>8. ASSUME NEW w \in Workers, AnswerLost(w) PROVE RequestInv'
  BY <1>3, <1>8 DEF AnswerLost
<1>9. ASSUME UNCHANGED vars PROVE RequestInv'
  BY <1>9 DEF vars, RequestInv
<1>10. ASSUME NEW x \in Keys, Evict(x) PROVE RequestInv'
  BY <1>10 DEF Evict, RequestInv
<1> QED
  BY <1>1, <1>2, <1>4, <1>5, <1>6, <1>7, <1>8, <1>9, <1>10 DEF Next

LEMMA KeyStep ==
  ASSUME Inv, [Next]_vars
  PROVE  KeyInv'
<1> USE DEF history
<1>1. ASSUME Tick PROVE KeyInv'
  BY <1>1, ParameterAssumption DEF Tick, Inv, TypeOK, KeyInv, WindowStart, Never
<1>2. ASSUME UNCHANGED <<now, count, expires, forgotten>> PROVE KeyInv'
  BY <1>2 DEF Inv, KeyInv, WindowStart, Never
<1>3. ASSUME NEW w \in Workers, Command(w), now' = now, forgotten' = forgotten PROVE KeyInv'
  BY <1>3, KeyStepOfCommand
<1>4. ASSUME NEW x \in Keys, Evict(x) PROVE KeyInv'
  <2>1. \A y \in Keys : y # x => expires'[y] = expires[y]
    BY <1>4 DEF Evict, Inv, TypeOK
  <2>2. UNCHANGED <<now, count>> /\ forgotten' = forgotten \union {x}
    BY <1>4 DEF Evict
  <2> QED BY <2>1, <2>2 DEF Inv, KeyInv, WindowStart, Never
<1> QED
  BY <1>1, <1>2, <1>3, <1>4
     DEF Next, vars, Begin, Passes, Look, Limited, Unreachable, AnswerLost

(* What each outcome of a command makes of the counts, and that Quota      *)
(* allows it.                                                              *)
LEMMA Outcomes ==
  ASSUME Inv, NEW w \in Workers, NEW x, x = req[w].key, Command(w)
  PROVE  /\ x \in Keys
         /\ \A y \in Keys : y # x => count'[y] = count[y]
         /\ x \notin forgotten => count'[x] = count[x] + 1
         /\ x \notin forgotten /\ ~TooMany(x, count'[x]) => passed[x] < Limit[x[1]]
         /\ TooMany(x, count'[x]) => passed[x] + lost[x] >= Limit[x[1]]
<1>1. /\ x \in Keys /\ count'[x] \in Nat
      /\ count'[x] = count[x] + 1 \/ count'[x] = 1
      /\ \A y \in Keys : y # x => count'[y] = count[y]
  BY CommandCovered DEF Inv
<1>2. /\ count[x] \in Nat /\ passed[x] \in Nat /\ lost[x] \in Nat /\ Limit[x[1]] \in Nat
  BY <1>1, KeyFacts DEF Inv, TypeOK
<1>3. x \notin forgotten => count'[x] = count[x] + 1
  BY <1>2, CommandCounts DEF Inv, TypeOK
<1>4. x \notin forgotten /\ count[x] <= Limit[x[1]] => passed[x] + lost[x] = count[x]
  BY <1>1 DEF Inv, CountInv
<1>5. x \notin forgotten /\ ~TooMany(x, count'[x]) => passed[x] < Limit[x[1]]
  BY <1>2, <1>3, <1>4 DEF TooMany
<1>6. passed[x] + lost[x] >= count[x] \/ passed[x] + lost[x] >= Limit[x[1]]
  BY <1>1 DEF Inv, CoverInv
<1>7. TooMany(x, count'[x]) => passed[x] + lost[x] >= Limit[x[1]]
  BY <1>1, <1>2, <1>6 DEF TooMany
<1> QED BY <1>1, <1>3, <1>5, <1>7

(* What the three outcomes do to the history of a key.                     *)
LEMMA Fates ==
  ASSUME Inv, NEW y \in Keys, NEW w \in Workers, NEW window \in Windows
  PROVE  /\ Passes(w, window) => /\ lost'[y] = lost[y]
                                 /\ passed'[y] = IF y = req[w].key THEN passed[y] + 1
                                                                   ELSE passed[y]
         /\ AnswerLost(w) => /\ passed'[y] = passed[y]
                             /\ lost'[y] = IF y = req[w].key THEN lost[y] + 1 ELSE lost[y]
         /\ Limited(w) => passed'[y] = passed[y] /\ lost'[y] = lost[y]
BY DEF Passes, AnswerLost, Limited, Inv, TypeOK

LEMMA CountStep ==
  ASSUME Inv, [Next]_vars
  PROVE  CountInv' /\ CoverInv'
<1> USE DEF history
<1> DEFINE Good(y) == y \notin forgotten =>
             /\ count[y] <= Limit[y[1]] => passed[y] + lost[y] = count[y]
             /\ count[y] > Limit[y[1]] => passed[y] <= Limit[y[1]]
           Cover(y) == passed[y] + lost[y] >= count[y] \/ passed[y] + lost[y] >= Limit[y[1]]
<1> SUFFICES ASSUME NEW y \in Keys PROVE Good(y)' /\ Cover(y)'
  BY DEF CountInv, CoverInv
<1>1. Good(y) /\ Cover(y)
  BY DEF Inv, CountInv, CoverInv
<1>2. /\ count[y] \in Nat /\ passed[y] \in Nat /\ lost[y] \in Nat
      /\ Limit[y[1]] \in Nat
  BY KeyFacts DEF Inv, TypeOK
<1>3. ASSUME UNCHANGED <<count, passed, lost>>, y \in forgotten => y \in forgotten'
      PROVE  Good(y)' /\ Cover(y)'
  BY <1>1, <1>3
<1>4. ASSUME NEW w \in Workers, Command(w), y = req[w].key, forgotten' = forgotten,
             \/ passed'[y] = passed[y] + 1 /\ lost'[y] = lost[y] /\ ~TooMany(y, count'[y])
             \/ passed'[y] = passed[y] /\ lost'[y] = lost[y] + 1
             \/ passed'[y] = passed[y] /\ lost'[y] = lost[y] /\ TooMany(y, count'[y])
      PROVE  Good(y)' /\ Cover(y)'
  <2>1. /\ count'[y] \in Nat
        /\ count'[y] = count[y] + 1 \/ count'[y] = 1
        /\ y \notin forgotten => count'[y] = count[y] + 1
        /\ TooMany(y, count'[y]) => passed[y] + lost[y] >= Limit[y[1]]
    BY <1>4, Outcomes, CommandCovered DEF Inv
  <2>2. Good(y)'
    BY <1>1, <1>2, <1>4, <2>1 DEF TooMany
  <2>3. Cover(y)'
    BY <1>1, <1>2, <1>4, <2>1
  <2> QED BY <2>2, <2>3
<1>5. ASSUME NEW w \in Workers, Command(w), y # req[w].key, forgotten' = forgotten,
             passed'[y] = passed[y], lost'[y] = lost[y]
      PROVE  Good(y)' /\ Cover(y)'
  <2>1. count'[y] = count[y]
    BY <1>5, Outcomes
  <2> QED BY <1>1, <1>5, <2>1
<1> HIDE DEF Good, Cover
<1>6. ASSUME NEW w \in Workers, NEW window \in Windows, Passes(w, window)
      PROVE  Good(y)' /\ Cover(y)'
  <2>1. Command(w) /\ forgotten' = forgotten /\ ~TooMany(req[w].key, count'[req[w].key])
    BY <1>6 DEF Passes
  <2> QED BY <1>4, <1>5, <1>6, <2>1, Fates
<1>7. ASSUME NEW w \in Workers, Limited(w) PROVE Good(y)' /\ Cover(y)'
  <2>1. Command(w) /\ forgotten' = forgotten /\ TooMany(req[w].key, count'[req[w].key])
    BY <1>7 DEF Limited
  <2>2. PICK window \in Windows : TRUE
    BY ParameterAssumption DEF Windows
  <2> QED BY <1>4, <1>5, <1>7, <2>1, <2>2, Fates
<1>8. ASSUME NEW w \in Workers, AnswerLost(w) PROVE Good(y)' /\ Cover(y)'
  <2>1. Command(w) /\ forgotten' = forgotten
    BY <1>8 DEF AnswerLost
  <2>2. PICK window \in Windows : TRUE
    BY ParameterAssumption DEF Windows
  <2> QED BY <1>4, <1>5, <1>8, <2>1, <2>2, Fates
<1>9. ASSUME NEW x \in Keys, Evict(x) PROVE Good(y)' /\ Cover(y)'
  BY <1>3, <1>9 DEF Evict
<1> QED
  BY <1>3, <1>6, <1>7, <1>8, <1>9 DEF Next, vars, Tick, Begin, Look, Unreachable

LEMMA InvInit == Init => Inv
<1> SUFFICES ASSUME Init PROVE Inv
  OBVIOUS
<1>1. \A x \in Keys : count[x] = 0 /\ expires[x] = 0 /\ passed[x] = 0 /\ lost[x] = 0
  BY DEF Init
<1>2. Never > 0
  BY ParameterAssumption DEF Never, Levels
<1>3. CountInv /\ CoverInv
  <2> SUFFICES ASSUME NEW x \in Keys
               PROVE  count[x] <= Limit[x[1]] /\ passed[x] + lost[x] = count[x] /\ count[x] = 0
    BY <1>1, KeyFacts DEF CountInv, CoverInv
  <2> QED BY <1>1, KeyFacts
<1>4. KeyInv
  BY <1>1, <1>2 DEF KeyInv, Init
<1>5. RequestInv
  BY DEF Init, RequestInv, Idle
<1> QED BY <1>3, <1>4, <1>5, TypeInit DEF Inv

LEMMA InvStep == Inv /\ [Next]_vars => Inv'
BY TypeStep, RequestStep, KeyStep, CountStep DEF Inv

(* Requests, keys and counters fit together in every reachable state.      *)
THEOREM Invariance == Spec => []Inv
BY InvInit, InvStep, PTL DEF Spec

(* The ValueError branch is dead code, and no key stays for good, as long  *)
(* as the cache does not evict the key.                                    *)
THEOREM CountersSurvive == Spec => []CounterKept
<1>1. Inv => CounterKept
  <2> SUFFICES ASSUME Inv PROVE CounterKept
    OBVIOUS
  <2>1. \A w \in Workers : req[w].key \notin forgotten =>
                             /\ req[w].at # "set"
                             /\ req[w].at \in {"exists", "incr"} => Present(req[w].key)
    BY InTime DEF Inv, RequestInv
  <2> QED BY <2>1 DEF CounterKept, Inv, KeyInv
<1> QED BY <1>1, Invariance, PTL

-----------------------------------------------------------------------------
(* Refinement.                                                             *)
LEMMA Implements ==
  ASSUME Inv, [Next]_vars
  PROVE  [Promise!Next]_history
<1> USE DEF history
<1>1. ASSUME NEW w \in Workers, NEW window \in Windows, Passes(w, window)
      PROVE  Promise!Next
  <2>1. req[w].key \in Keys /\ Promise!Pass(req[w].key)
    BY <1>1, Outcomes DEF Passes, Promise!Pass
  <2> QED BY <2>1 DEF Promise!Next, Keys
<1>2. ASSUME NEW w \in Workers, Limited(w) PROVE Promise!Next
  <2>1. req[w].key \in Keys /\ Promise!Refuse(req[w].key)
    BY <1>2, Outcomes DEF Limited, Promise!Refuse
  <2> QED BY <2>1 DEF Promise!Next, Keys
<1>3. ASSUME NEW w \in Workers, AnswerLost(w) PROVE Promise!Next
  <2>1. req[w].key \in Keys /\ Promise!Lose(req[w].key)
    BY <1>3, Outcomes DEF AnswerLost, Promise!Lose
  <2> QED BY <2>1 DEF Promise!Next, Keys
<1>4. ASSUME NEW x \in Keys, Evict(x) PROVE Promise!Next
  <2>1. Promise!Forget(x)
    BY <1>4 DEF Evict, Promise!Forget
  <2> QED BY <2>1 DEF Promise!Next, Keys
<1>5. ASSUME NEW w \in Workers, Unreachable(w) PROVE Promise!Next
  <2>1. req[w].key \in Keys /\ Promise!Spare(req[w].key)
    BY <1>5 DEF Unreachable, Promise!Spare, Inv, TypeOK, Request
  <2> QED BY <2>1 DEF Promise!Next, Keys
<1> QED
  BY <1>1, <1>2, <1>3, <1>4, <1>5
     DEF Next, vars, Tick, Begin, Look

(* The limiter implements Quota: at most Limit pass in each window that is *)
(* not evicted, and none is refused while there is room in any.            *)
THEOREM KeepsQuota == Spec => QuotaKept
<1>1. Init => Promise!Init
  BY DEF Init, Promise!Init, Keys
<1>2. Inv /\ [Next]_vars => [Promise!Next]_Promise!vars
  BY Implements DEF Promise!vars, history
<1> QED BY <1>1, <1>2, Invariance, PTL DEF Spec, QuotaKept, Promise!Spec

(* The promise in figures: unless the key of a window was evicted, no more *)
(* posts get past its level than its limit and one for each failure of the *)
(* cache; and posts are refused only in a window whose limit was used up.  *)
(* (A failure at the short level lets the post past the daily one, too,    *)
(* which it never reaches: it is the short window's failure.)              *)
LetThrough(x) == passed[x] + lost[x] + spared[x]
Failures(x) == lost[x] + spared[x]

WithinLimits ==
  \A x \in Keys :
    /\ x \notin forgotten => LetThrough(x) <= Limit[x[1]] + Failures(x)
    /\ refused[x] > 0 => passed[x] + lost[x] >= Limit[x[1]]

PromiseTypes ==
  /\ passed \in [Keys -> Nat] /\ refused \in [Keys -> Nat]
  /\ lost \in [Keys -> Nat] /\ spared \in [Keys -> Nat]

LEMMA PromiseInit == Promise!Init => PromiseTypes /\ WithinLimits
<1>. SUFFICES ASSUME Promise!Init PROVE PromiseTypes /\ WithinLimits
  OBVIOUS
<1>1. PromiseTypes
  BY DEF Promise!Init, PromiseTypes, Keys
<1>2. \A x \in Keys : /\ passed[x] = 0 /\ lost[x] = 0 /\ spared[x] = 0 /\ refused[x] = 0
                     /\ Limit[x[1]] \in Nat
  BY ParameterAssumption DEF Promise!Init, Keys
<1>. QED BY <1>1, <1>2 DEF WithinLimits, LetThrough, Failures

LEMMA PromiseStep ==
  PromiseTypes /\ WithinLimits /\ [Promise!Next]_Promise!vars => (PromiseTypes /\ WithinLimits)'
<1>. SUFFICES ASSUME PromiseTypes, WithinLimits, [Promise!Next]_Promise!vars
              PROVE  PromiseTypes' /\ WithinLimits'
  OBVIOUS
<1>. USE DEF PromiseTypes, WithinLimits, LetThrough, Failures
<1>0. \A x \in Keys : Limit[x[1]] \in Nat
  BY ParameterAssumption DEF Keys
<1>1. ASSUME NEW x \in Keys, Promise!Pass(x) PROVE PromiseTypes' /\ WithinLimits'
  BY <1>0, <1>1 DEF Promise!Pass
<1>2. ASSUME NEW x \in Keys, Promise!Refuse(x) PROVE PromiseTypes' /\ WithinLimits'
  BY <1>0, <1>2 DEF Promise!Refuse
<1>3. ASSUME NEW x \in Keys, Promise!Lose(x) PROVE PromiseTypes' /\ WithinLimits'
  BY <1>0, <1>3 DEF Promise!Lose
<1>4. ASSUME NEW x \in Keys, Promise!Spare(x) PROVE PromiseTypes' /\ WithinLimits'
  BY <1>0, <1>4 DEF Promise!Spare
<1>5. ASSUME NEW x \in Keys, Promise!Forget(x) PROVE PromiseTypes' /\ WithinLimits'
  BY <1>5 DEF Promise!Forget
<1>6. ASSUME UNCHANGED Promise!vars PROVE PromiseTypes' /\ WithinLimits'
  BY <1>6 DEF Promise!vars
<1>. QED BY <1>1, <1>2, <1>3, <1>4, <1>5, <1>6 DEF Promise!Next, Keys

(* Whatever keeps the promise of Quota stays within its limits.            *)
THEOREM PromiseInFigures == Promise!Spec => []WithinLimits
BY PromiseInit, PromiseStep, PTL DEF Promise!Spec

(* registration_rate_limited, however posts, evictions and failures of the *)
(* cache interleave, if no worker stalls for longer than keys outlive      *)
(* their window (StallAssumption): past each level of a window come at     *)
(* most Limit posts and one for each failure of the cache, unless its key  *)
(* was evicted, and nobody is refused in a window with room.               *)
THEOREM LimitsHold == Spec => []WithinLimits
BY KeepsQuota, PromiseInFigures, PTL DEF QuotaKept
=============================================================================
