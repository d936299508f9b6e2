-------------------------------- MODULE Quota --------------------------------
(***************************************************************************)
(* What a rate limiter promises: of the requests that fall into a window   *)
(* it admits at most Limit.  A failure may let one more through, its count *)
(* kept or not.  A request is refused only when Limit requests have been   *)
(* counted.  A window whose count is forgotten may admit more, but never   *)
(* fewer.                                                                  *)
(***************************************************************************)
EXTENDS Naturals

CONSTANTS Levels,   \* the windows' sizes, each with a limit of its own
          Windows,  \* the windows of each size, by number
          Limit     \* how many requests a window of a level admits

VARIABLES
  passed, refused,  \* numbers of requests admitted and not, by level and window
  lost, spared,     \* numbers of those let through by a failure, counted or not
  forgotten         \* windows whose count was lost

vars == <<passed, refused, lost, spared, forgotten>>

Counters == [Levels \X Windows -> Nat]

Init ==
  /\ passed = [x \in Levels \X Windows |-> 0]
  /\ refused = passed /\ lost = passed /\ spared = passed
  /\ forgotten = {}

Pass(x) ==
  /\ passed[x] < Limit[x[1]] \/ x \in forgotten
  /\ passed' = [passed EXCEPT ![x] = passed[x] + 1]
  /\ UNCHANGED <<refused, lost, spared, forgotten>>

Refuse(x) ==
  /\ passed[x] + lost[x] >= Limit[x[1]]
  /\ refused' = [refused EXCEPT ![x] = refused[x] + 1]
  /\ UNCHANGED <<passed, lost, spared, forgotten>>

Lose(x) ==
  /\ lost' = [lost EXCEPT ![x] = lost[x] + 1]
  /\ UNCHANGED <<passed, refused, spared, forgotten>>

Spare(x) ==
  /\ spared' = [spared EXCEPT ![x] = spared[x] + 1]
  /\ UNCHANGED <<passed, refused, lost, forgotten>>

Forget(x) ==
  /\ forgotten' = forgotten \union {x}
  /\ UNCHANGED <<passed, refused, lost, spared>>

Next ==
  \E x \in Levels \X Windows : Pass(x) \/ Refuse(x) \/ Lose(x) \/ Spare(x) \/ Forget(x)

Spec == Init /\ [][Next]_vars
=============================================================================
