-------------------------- MODULE PublicFormProofs --------------------------
(***************************************************************************)
(* Proofs about PublicForm, for any ages, windows, limits and patience.    *)
(* What a guest eventually gets is liveness and left to TLC.               *)
(***************************************************************************)
EXTENDS PublicForm, TLAPS

LEMMA LesserOfTwo ==
  ASSUME NEW a \in Int, NEW b \in Int
  PROVE  Min({a, b}) = IF a <= b THEN a ELSE b
BY DEF Min

LEMMA ParametersAreNat ==
  /\ MinAge \in Nat \ {0} /\ MaxAge \in Nat \ {0} /\ Window \in Nat \ {0}
  /\ Day \in Nat \ {0} /\ Patience \in Nat \ {0}
  /\ ShortLimit \in Nat /\ DailyLimit \in Nat /\ ShortOthers \in Nat /\ DailyOthers \in Nat
BY TimeAssumption, LimitAssumption

(* What a post makes of the counters.                                      *)
LEMMA CountersAfterPost ==
  ASSUME TypeOK
  PROVE  /\ ShortNow = IF short <= ShortLimit THEN short + 1 ELSE ShortLimit + 1
         /\ ShortNow \in 0..ShortLimit+1
         /\ DailyNow \in 0..DailyLimit+1 /\ daily <= DailyNow /\ DailyNow <= daily + 1
         /\ ShortNow > ShortLimit => DailyNow = daily
<1>1. short \in Nat /\ daily \in Nat /\ short <= ShortLimit + 1 /\ daily <= DailyLimit + 1
  BY ParametersAreNat DEF TypeOK
<1>2. ShortNow = IF short + 1 <= ShortLimit + 1 THEN short + 1 ELSE ShortLimit + 1
  BY <1>1, ParametersAreNat, LesserOfTwo DEF ShortNow
<1>3. Min({daily + 1, DailyLimit + 1}) =
        IF daily + 1 <= DailyLimit + 1 THEN daily + 1 ELSE DailyLimit + 1
  BY <1>1, ParametersAreNat, LesserOfTwo
<1>. QED BY <1>1, <1>2, <1>3, ParametersAreNat DEF DailyNow

(* The second after: midnight, or of the same window, or of the next.      *)
LEMMA NextSecond ==
  ASSUME NEW t \in 0..Day-1
  PROVE  /\ (t + 1) % Day \in 0..Day-1
         /\ (t + 1) % Day # 0 => (t + 1) % Day = t + 1
         /\ t \div Window \in Nat
         /\ (t + 1) % Window # 0 => (t + 1) \div Window = t \div Window
         /\ (t + 1) % Window = 0 => (t + 1) \div Window = t \div Window + 1
<1>1. t \in Nat /\ t + 1 <= Day
  BY ParametersAreNat
<1>2. /\ t + 1 = Day => (t + 1) % Day = 0
      /\ t + 1 # Day => (t + 1) % Day = t + 1
  BY <1>1, ParametersAreNat
<1>3. /\ t \div Window \in Nat
      /\ (t + 1) % Window # 0 => (t + 1) \div Window = t \div Window
      /\ (t + 1) % Window = 0 => (t + 1) \div Window = t \div Window + 1
  BY <1>1, ParametersAreNat
<1>4. (t + 1) % Day \in 0..Day-1
  BY <1>1, <1>2, ParametersAreNat
<1>. QED BY <1>1, <1>2, <1>3, <1>4

(* A post, counted or not, moves the day's counter only with the short one. *)
LEMMA CountersMoveTogether ==
  ASSUME TypeOK, Counted \/ Uncounted
  PROVE  /\ short' \in 0..ShortLimit+1 /\ daily' \in 0..DailyLimit+1
         /\ \/ daily' = daily /\ short <= short'
            \/ short' = short + 1 /\ short' <= ShortLimit /\ daily' <= daily + 1
<1>1. /\ short \in 0..ShortLimit+1 /\ daily \in 0..DailyLimit+1
  BY DEF TypeOK
<1>2. CASE short' = ShortNow /\ daily' = DailyNow
  BY <1>1, <1>2, CountersAfterPost, ParametersAreNat
<1>3. CASE short' = ShortNow /\ daily' = daily
  BY <1>1, <1>3, CountersAfterPost, ParametersAreNat
<1>4. CASE short' = short /\ daily' = daily
  BY <1>1, <1>4, ParametersAreNat
<1>. QED BY <1>2, <1>3, <1>4 DEF Counted, Uncounted

(* Counting one more post keeps the day within what its windows admit.     *)
LEMMA OneMoreWithin ==
  ASSUME NEW before \in Nat, NEW limit \in Nat,
         NEW s \in 0..limit+1, NEW t \in 0..limit+1, NEW d \in Nat, NEW e \in Nat,
         d <= before + (IF s <= limit THEN s ELSE limit),
         \/ e = d /\ s <= t
         \/ t = s + 1 /\ t <= limit /\ e <= d + 1
  PROVE  e <= before + (IF t <= limit THEN t ELSE limit)
<1>1. s \in Int /\ t \in Int /\ s <= limit + 1 /\ t <= limit + 1
  OBVIOUS
<1>2. CASE s <= limit
  <2>1. d <= before + s
    BY <1>2
  <2>2. CASE e = d /\ s <= t
    BY <1>1, <1>2, <2>1, <2>2
  <2>3. CASE t = s + 1 /\ t <= limit /\ e <= d + 1
    BY <1>1, <2>1, <2>3
  <2>. QED BY <2>2, <2>3
<1>3. CASE s > limit
  <2>1. d <= before + limit /\ e = d /\ t > limit
    BY <1>1, <1>3
  <2>. QED BY <1>1, <2>1
<1>. QED BY <1>1, <1>2, <1>3

-----------------------------------------------------------------------------
LEMMA TypeStep == TypeOK /\ [Next]_vars => TypeOK'
<1>. SUFFICES ASSUME TypeOK, [Next]_vars PROVE TypeOK'
  OBVIOUS
<1>0. /\ Counted \/ Uncounted => short' \in 0..ShortLimit+1 /\ daily' \in 0..DailyLimit+1
      /\ others.short \in 0..ShortOthers /\ others.daily \in 0..DailyOthers
  BY CountersMoveTogether DEF TypeOK
<1>1. CASE Post
  <2>1. PICK limited \in BOOLEAN : Submit(limited) /\ (Counted \/ Uncounted)
    <3>1. Limited \in BOOLEAN
      BY DEF Limited
    <3>. QED BY <1>1, <3>1 DEF Post
  <2>2. answer' \in Answers /\ told' \in BOOLEAN /\ age' \in 0..MaxAge+1 /\ quiet' \in 0..Patience
    <3>1. answer' \in Answers
      BY <2>1 DEF Submit, Answers
    <3>2. told' \in BOOLEAN
      BY <2>1 DEF Submit, TypeOK
    <3>3. age' = age /\ quiet' = 0
      BY <2>1 DEF Submit, AgeWhenShownAgain
    <3>. QED BY <3>1, <3>2, <3>3, ParametersAreNat DEF TypeOK
  <2>. QED BY <1>0, <2>1, <2>2 DEF Submit, TypeOK
<1>2. CASE Correct \/ Reload
  <2>1. 0 \in 0..MaxAge+1
    BY ParametersAreNat
  <2>2. age' \in 0..MaxAge+1
    BY <1>2, <2>1 DEF Correct, Reload, TypeOK
  <2>3. correct' \in BOOLEAN /\ told' \in BOOLEAN
    BY <1>2 DEF Correct, Reload, TypeOK
  <2>4. UNCHANGED <<time, answer, quiet, short, daily, others>>
    BY <1>2 DEF Correct, Reload
  <2>. QED BY <2>2, <2>3, <2>4 DEF TypeOK
<1>3. CASE OthersPost
  <2>1. others.short + 1 \in 0..ShortOthers /\ others.daily + 1 \in 0..DailyOthers
    BY <1>0, <1>3, ParametersAreNat DEF OthersPost
  <2>. QED BY <1>0, <1>3, <2>1 DEF OthersPost, TypeOK
<1>5. CASE EvictShort \/ EvictDaily
  BY <1>5, ParametersAreNat DEF EvictShort, EvictDaily, TypeOK
<1>4. CASE Tick
  <2>1. time' \in 0..Day-1
    BY <1>4, NextSecond DEF Tick, TypeOK
  <2>2. age' \in 0..MaxAge+1
    <3>1. age + 1 \in Int /\ MaxAge + 1 \in Int /\ age' = Min({age + 1, MaxAge + 1})
      BY <1>4, ParametersAreNat DEF Tick, TypeOK
    <3>. QED BY <3>1, LesserOfTwo, ParametersAreNat DEF TypeOK
  <2>3. quiet' \in 0..Patience
    BY <1>4, ParametersAreNat DEF Tick, TypeOK
  <2>4. /\ short' \in 0..ShortLimit+1 /\ daily' \in 0..DailyLimit+1
        /\ others' \in [short: 0..ShortOthers, daily: 0..DailyOthers]
    BY <1>0, <1>4, ParametersAreNat DEF Tick, TypeOK
  <2>. QED BY <1>4, <2>1, <2>2, <2>3, <2>4 DEF Tick, TypeOK
<1>6. CASE UNCHANGED vars
  BY <1>6 DEF vars, TypeOK
<1>. QED BY <1>1, <1>2, <1>3, <1>4, <1>5, <1>6 DEF Next

(* The counters of the limiter and the guest's page keep their types: the  *)
(* token's age, the time since the last post, and what others use of a     *)
(* window stay within their bounds.                                        *)
THEOREM TypeCorrect == Spec => []TypeOK
<1>1. Init => TypeOK
  <2>1. 0 \in 0..Day-1 /\ 0 \in 0..MaxAge+1 /\ 0 \in 0..Patience
    BY ParametersAreNat
  <2>2. 0 \in 0..ShortLimit+1 /\ 0 \in 0..DailyLimit+1 /\ 0 \in 0..ShortOthers /\ 0 \in 0..DailyOthers
    BY ParametersAreNat
  <2>3. ASSUME Init PROVE correct \in BOOLEAN /\ told \in BOOLEAN /\ time \in 0..Day-1
    BY <2>3 DEF Init
  <2>4. ASSUME Init
        PROVE  /\ age \in 0..MaxAge+1 /\ quiet \in 0..Patience /\ answer \in Answers
               /\ short \in 0..ShortLimit+1 /\ daily \in 0..DailyLimit+1
               /\ others \in [short: 0..ShortOthers, daily: 0..DailyOthers]
    BY <2>1, <2>2, <2>4 DEF Init, Answers
  <2>. QED BY <2>3, <2>4 DEF TypeOK
<1>. QED BY <1>1, TypeStep, PTL DEF Spec

-----------------------------------------------------------------------------
(* registration_rate_limited: any() asks for the daily counter only after  *)
(* the short one has let the post through, so that those whom it refuses   *)
(* use up nothing of the day: in each of its windows at most ShortLimit.   *)
DayOutlastsWindows ==
  daily <= ShortLimit * (time \div Window) + (IF short <= ShortLimit THEN short ELSE ShortLimit)

(* Guests who hammer at a full window are not refused for the whole day:   *)
(* the day's counter never gets ahead of the windows that have begun,      *)
(* whatever posts the cache fails to count.  The one exception: a window   *)
(* whose counter was evicted begins anew, and may cost the day more.       *)
THEOREM WindowsSpareTheDay == Spec /\ [][~EvictShort]_vars => []DayOutlastsWindows
<1>1. Init => DayOutlastsWindows
  <2>. SUFFICES ASSUME Init PROVE DayOutlastsWindows
    OBVIOUS
  <2>1. time \div Window \in Nat
    BY NextSecond DEF Init
  <2>2. ShortLimit * (time \div Window) \in Nat
    BY <2>1, ParametersAreNat
  <2>. QED BY <2>2, ParametersAreNat DEF Init, DayOutlastsWindows
<1>2. TypeOK /\ DayOutlastsWindows /\ [Next]_vars /\ [~EvictShort]_vars => DayOutlastsWindows'
  <2>. SUFFICES ASSUME TypeOK, DayOutlastsWindows, [Next]_vars, [~EvictShort]_vars
                PROVE  DayOutlastsWindows'
    OBVIOUS
  <2>. DEFINE before == ShortLimit * (time \div Window)
  <2>0. /\ before \in Nat /\ short \in 0..ShortLimit+1 /\ daily \in 0..DailyLimit+1
        /\ time \in 0..Day-1 /\ time \div Window \in Nat
    <3>1. time \div Window \in Nat
      BY NextSecond DEF TypeOK
    <3>2. before \in Nat
      BY <3>1, ParametersAreNat
    <3>. QED BY <3>1, <3>2 DEF TypeOK
  <2>1. CASE Post \/ OthersPost
    <3>1. time' = time /\ (Counted \/ Uncounted)
      BY <2>1 DEF Post, Submit, OthersPost
    <3>2. /\ before' = before
          /\ daily <= before + (IF short <= ShortLimit THEN short ELSE ShortLimit)
      BY <3>1 DEF DayOutlastsWindows
    <3>. HIDE DEF before
    <3>3. /\ short' \in 0..ShortLimit+1 /\ daily' \in 0..DailyLimit+1
          /\ \/ daily' = daily /\ short <= short'
             \/ short' = short + 1 /\ short' <= ShortLimit /\ daily' <= daily + 1
      BY <3>1, CountersMoveTogether
    <3>4. daily' <= before + (IF short' <= ShortLimit THEN short' ELSE ShortLimit)
      <4>1. daily \in Nat /\ daily' \in Nat /\ before \in Nat /\ ShortLimit \in Nat
        BY <2>0, <3>3, ParametersAreNat
      <4>2. short \in 0..ShortLimit+1 /\ short' \in 0..ShortLimit+1
        BY <2>0, <3>3
      <4>. QED BY <3>2, <3>3, <4>1, <4>2, OneMoreWithin
    <3>. QED BY <3>2, <3>4 DEF DayOutlastsWindows, before
  <2>2. CASE Tick
    <3>1. CASE time' = 0
      <4>1. daily' = 0 /\ short' \in 0..ShortLimit+1 /\ 0 \div Window \in Nat
        BY <2>0, <2>2, <3>1, NextSecond, ParametersAreNat DEF Tick
      <4>2. ShortLimit * (0 \div Window) \in Nat
        BY <4>1, ParametersAreNat
      <4>. QED BY <3>1, <4>1, <4>2, ParametersAreNat DEF DayOutlastsWindows
    <3>2. CASE time' # 0
      <4>1. /\ time' = time + 1 /\ daily' = daily
            /\ short' = IF (time + 1) % Window = 0 THEN 0 ELSE short
        BY <2>0, <2>2, <3>2, NextSecond DEF Tick
      <4>2. CASE (time + 1) % Window = 0
        <5>1. time' \div Window = time \div Window + 1 /\ short' = 0
          BY <2>0, <4>1, <4>2, NextSecond
        <5>2. ShortLimit * (time \div Window + 1) = before + ShortLimit
          BY <2>0, ParametersAreNat
        <5>. QED BY <2>0, <4>1, <5>1, <5>2, ParametersAreNat DEF DayOutlastsWindows
      <4>3. CASE (time + 1) % Window # 0
        <5>1. time' \div Window = time \div Window /\ short' = short
          BY <2>0, <4>1, <4>3, NextSecond
        <5>. QED BY <4>1, <5>1 DEF DayOutlastsWindows
      <4>. QED BY <4>2, <4>3
    <3>. QED BY <3>1, <3>2
  <2>3. CASE Correct \/ Reload \/ UNCHANGED vars
    BY <2>3 DEF Correct, Reload, vars, DayOutlastsWindows
  <2>4. CASE EvictDaily
    <3>1. /\ before' = before /\ short' = short /\ daily' = 0
      BY <2>4 DEF EvictDaily
    <3>. HIDE DEF before
    <3>2. daily' <= before' + (IF short' <= ShortLimit THEN short' ELSE ShortLimit)
      BY <2>0, <3>1, ParametersAreNat
    <3>. QED BY <3>2 DEF DayOutlastsWindows, before
  <2>5. ~EvictShort \/ UNCHANGED vars
    OBVIOUS
  <2>. QED BY <2>1, <2>2, <2>3, <2>4, <2>5 DEF Next
<1>. QED BY <1>1, <1>2, TypeCorrect, PTL DEF Spec
=============================================================================
