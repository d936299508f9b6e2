----------------------------- MODULE PublicForm -----------------------------
(***************************************************************************)
(* The way of one guest through the public form: RegistrationForm signs the *)
(* time a page was fetched into a token that is good from                  *)
(* REGISTRATION_MIN_FORM_SECONDS until REGISTRATION_FORM_TOKEN_MAX_AGE, and *)
(* event_page asks the rate limiter before it looks at the form.  A page    *)
(* that is shown again holds the token it was posted with.  Others post     *)
(* from the guest's address, and the limiter's cache fails and evicts keys *)
(* at will.  Time is counted within a day, and a token's age up to its     *)
(* limit, so that the behaviours go round.                                 *)
(***************************************************************************)
EXTENDS Naturals, FiniteSetsExt

CONSTANTS
  MinAge, MaxAge,          \* bounds on the age of a token
  Window, Day,             \* lengths of the limiter's windows
  ShortLimit, DailyLimit,  \* what a window admits
  ShortOthers, DailyOthers,  \* what others use of a window, at most
  Patience                 \* the guest waits no longer before trying again

ASSUME TimeAssumption ==
  /\ {MinAge, MaxAge, Window, Day, Patience} \subseteq Nat \ {0}
  /\ MinAge <= MaxAge /\ Day % Window = 0
ASSUME LimitAssumption ==
  {ShortLimit, DailyLimit, ShortOthers, DailyOthers} \subseteq Nat

VARIABLES
  time,     \* time.time(), within the day
  age,      \* of the token in the guest's page; MaxAge + 1 when older
  correct,  \* the guest's answers pass the form's other checks
  answer,   \* what the last post led to
  told,     \* the page was old enough and was not accepted
  quiet,    \* time since the guest's last post
  short, daily,    \* the limiter's counters, up to one over their limits
  others           \* how many posts of others the windows have seen

vars == <<time, age, correct, answer, told, quiet, short, daily, others>>

Answers == {"none", "too_many", "refused", "accepted"}

Init ==
  /\ time \in 0..Day-1
  /\ age = 0
  /\ correct \in BOOLEAN
  /\ answer = "none" /\ told = FALSE
  /\ quiet = 0
  /\ short = 0 /\ daily = 0
  /\ others = [short |-> 0, daily |-> 0]

-----------------------------------------------------------------------------
(* Fault: a post counts backwards.                                         *)
ShortNowDown == short - 1

(* registration_rate_limited counts the post and any() stops at the first  *)
(* level that is full: the new values of the counters.                     *)
ShortNow == Min({short + 1, ShortLimit + 1})
DailyNow == IF ShortNow > ShortLimit THEN daily ELSE Min({daily + 1, DailyLimit + 1})
Limited == ShortNow > ShortLimit \/ DailyNow > DailyLimit

(* RegistrationForm.clean: signing.loads bounds the age of the token.      *)
ValidToken == MinAge <= age /\ age <= MaxAge

(* Fault: a page that is shown again has a token of its own.               *)
PostedAgain == 0

(* The bound form shows the token it was posted with.                      *)
AgeWhenShownAgain == age

(* event_page: the limiter comes first, the form second.                   *)
Submit(limited) ==
  /\ answer # "accepted"
  /\ answer' = IF limited THEN "too_many"
               ELSE IF ValidToken /\ correct THEN "accepted" ELSE "refused"
  /\ told' = (told \/ (answer' = "refused" /\ MinAge <= age))
  /\ age' = AgeWhenShownAgain
  /\ quiet' = 0
  /\ UNCHANGED <<time, correct, others>>

Counted == short' = ShortNow /\ daily' = DailyNow

(* The cache fails, before or after it counted at a level, and the except  *)
(* clause lets the post through.                                           *)
Uncounted ==
  \/ short' = short /\ daily' = daily
  \/ short' = ShortNow /\ daily' \in {daily, DailyNow}

Post == (Submit(Limited) /\ Counted) \/ (Submit(FALSE) /\ Uncounted)

(* The guest corrects what the form complained about.                      *)
Correct ==
  /\ ~correct /\ correct' = TRUE
  /\ UNCHANGED <<time, age, answer, told, quiet, short, daily, others>>

(* RegistrationForm.__init__: only a fresh page has a fresh token.  The    *)
(* guest asks for one when an old enough page was not accepted.            *)
Reload ==
  /\ answer # "accepted" /\ told
  /\ age' = 0 /\ told' = FALSE
  /\ UNCHANGED <<time, correct, answer, quiet, short, daily, others>>

(* Somebody else posts from the same address; they leave room.             *)
OthersPost ==
  /\ others.short < ShortOthers /\ others.daily < DailyOthers
  /\ Counted \/ Uncounted
  /\ others' = [short |-> others.short + 1, daily |-> others.daily + 1]
  /\ UNCHANGED <<time, age, correct, answer, told, quiet>>

(* Redis drops a counter when memory runs out (allkeys-lru).               *)
EvictShort ==
  /\ short > 0 /\ short' = 0
  /\ UNCHANGED <<time, age, correct, answer, told, quiet, daily, others>>

EvictDaily ==
  /\ daily > 0 /\ daily' = 0
  /\ UNCHANGED <<time, age, correct, answer, told, quiet, short, others>>

(* A second passes, and with it perhaps a window.                          *)
Tick ==
  LET next == (time + 1) % Day IN
  /\ answer # "accepted" => quiet < Patience
  /\ time' = next
  /\ age' = Min({age + 1, MaxAge + 1})
  /\ quiet' = IF answer = "accepted" THEN 0 ELSE quiet + 1
  /\ short' = IF next % Window = 0 THEN 0 ELSE short
  /\ daily' = IF next = 0 THEN 0 ELSE daily
  /\ others' = [short |-> IF next % Window = 0 THEN 0 ELSE others.short,
                daily |-> IF next = 0 THEN 0 ELSE others.daily]
  /\ UNCHANGED <<correct, answer, told>>

Next == Post \/ Correct \/ Reload \/ OthersPost \/ EvictShort \/ EvictDaily \/ Tick

Spec ==
  /\ Init /\ [][Next]_vars
  /\ WF_vars(Tick) /\ WF_vars(Post) /\ WF_vars(Correct) /\ WF_vars(Reload)

-----------------------------------------------------------------------------
(* The types of the state.                                                 *)
TypeOK ==
  /\ time \in 0..Day-1 /\ age \in 0..MaxAge+1 /\ quiet \in 0..Patience
  /\ correct \in BOOLEAN /\ told \in BOOLEAN
  /\ answer \in Answers
  /\ short \in 0..ShortLimit+1 /\ daily \in 0..DailyLimit+1
  /\ others \in [short: 0..ShortOthers, daily: 0..DailyOthers]

(* A guest who keeps trying is accepted, however badly the attempts are    *)
(* timed, though they are counted and pages grow too old, and whatever the *)
(* cache fails to count or forgets of the day.  The exception: each short  *)
(* counter that is evicted lets a guest who hammers waste more of the day, *)
(* and if that goes on for ever no attempt need come in time.              *)
TryingHelps == <>[][~EvictShort]_vars => <>(answer = "accepted")
=============================================================================
