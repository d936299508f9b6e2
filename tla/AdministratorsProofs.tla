------------------------ MODULE AdministratorsProofs ------------------------
(***************************************************************************)
(* E-mail addresses stay unique and rights stay logged however requests    *)
(* overlap; an administrator is left unless a request that another had     *)
(* overtaken wrote.                                                        *)
(***************************************************************************)
EXTENDS AdministratorsHistory, TLAPS

(* What a request has loaded, by step.                                     *)
RequestOK(r) ==
  /\ r.at \in {"change_loaded", "change_valid", "change_fetched", "delete_loaded",
               "password_loaded"} => r.id \in issued
  /\ r.at \in {"change_loaded", "change_valid", "change_fetched", "add_valid",
               "password_loaded"} => r.row \in User /\ r.row.username = r.row.email
  /\ r.at = "password_loaded" => Logged(r.id, r.row) \in audit \/ r.row = AdminRow

Inv ==
  /\ TypeOK
  /\ Stored \subseteq issued
  /\ \A w \in Workers : RequestOK(req[w])
  /\ \A u \in Stored : users[u].username = users[u].email
  /\ \A u, v \in Stored : u # v => users[u].username # users[v].username
  /\ RightsLogged

LEMMA InvInit == Init => Inv
BY ConstantAssumption
   DEF Init, Inv, TypeOK, RequestOK, Request, Idle, Steps, Stored, RightsLogged

LEMMA RowFacts ==
  /\ AdminRow \in User /\ AdminRow.username = AdminRow.email
  /\ \A old \in User, f \in Forms, own \in BOOLEAN :
       /\ FilledIn(old, f, own) \in User
       /\ FilledIn(old, f, own).username = FilledIn(old, f, own).email
  /\ \A r \in User : r # None
BY ConstantAssumption DEF AdminRow, User, FilledIn, Form

(* Writing a row that is free to have its username keeps rows in order.    *)
RowsInv ==
  /\ users \in [Ids -> User \cup {None}]
  /\ \A u \in Stored : users[u].username = users[u].email
  /\ \A u, v \in Stored : u # v => users[u].username # users[v].username
  /\ RightsLogged

LEMMA WriteRow ==
  ASSUME Inv, NEW u \in Ids, NEW row \in User, row.username = row.email,
         UsernameFree(row, {u}), users' = [users EXCEPT ![u] = row],
         audit \subseteq audit', Logged(u, row) \in audit' \/ row = AdminRow
  PROVE  RowsInv'
<1>1. users' \in [Ids -> User \cup {None}]
  BY DEF Inv, TypeOK
<1>2. users'[u] = row /\ \A v \in Ids \ {u} : users'[v] = users[v]
  BY DEF Inv, TypeOK
<1>3. \A v \in Stored' : v = u \/ v \in Stored
  BY <1>2 DEF Stored
<1>4. \A v \in Stored' : users'[v].username = users'[v].email
  BY <1>2, <1>3 DEF Inv, Stored
<1>5. \A v, x \in Stored' : v # x => users'[v].username # users'[x].username
  BY <1>2, <1>3 DEF Inv, Stored, UsernameFree
<1>6. RightsLogged'
  BY <1>2, <1>3 DEF Inv, Stored, RightsLogged, Logged, AdminRow
<1> QED BY <1>1, <1>4, <1>5, <1>6 DEF RowsInv

LEMMA InvStep == Inv /\ [Next]_vars => Inv'
<1> SUFFICES ASSUME Inv, [Next]_vars PROVE Inv'
  OBVIOUS
<1> USE DEF Inv, TypeOK, Request, RequestOK, Steps, Stored, Idle, RightsLogged, Logged
<1>1. ASSUME NEW w \in Workers, NEW a \in Ids, Admit(w, a) PROVE Inv'
  BY <1>1 DEF Admit
<1>2. ASSUME NEW w \in Workers, NEW u \in Ids, NEW f \in Forms, ChangeLoad(w, u, f)
      PROVE  Inv'
  <2>1. FilledIn(users[u], f, u = req[w].actor) \in User
    BY <1>2, RowFacts DEF ChangeLoad
  <2>2. FilledIn(users[u], f, u = req[w].actor).username
          = FilledIn(users[u], f, u = req[w].actor).email
    BY <1>2, RowFacts DEF ChangeLoad
  <2> QED BY <1>2, <2>1, <2>2 DEF ChangeLoad
<1>3. ASSUME NEW w \in Workers, ChangeValid(w) PROVE Inv'
  BY <1>3 DEF ChangeValid
<1>4. ASSUME NEW w \in Workers, ChangeFetch(w) PROVE Inv'
  BY <1>4 DEF ChangeFetch
<1>5. ASSUME NEW w \in Workers, ChangeSave(w) PROVE Inv'
  <2>1. /\ req[w].id \in Ids /\ req[w].row \in User /\ req[w].row.username = req[w].row.email
        /\ UsernameFree(req[w].row, {req[w].id}) /\ users' = [users EXCEPT ![req[w].id] = req[w].row]
        /\ audit \subseteq audit'
        /\ Logged(req[w].id, req[w].row) \in audit' \/ req[w].row = AdminRow
    BY <1>5, RowFacts DEF ChangeSave, UsernameFree
  <2>2. RowsInv'
    BY <2>1, WriteRow
  <2> QED BY <1>5, <2>1, <2>2 DEF ChangeSave, RowsInv
<1>6. ASSUME NEW w \in Workers, NEW f \in Forms, AddValid(w, f) PROVE Inv'
  BY <1>6, ConstantAssumption DEF AddValid, User, Form
<1>7. ASSUME NEW w \in Workers, NEW u \in Ids, AddSave(w, u) PROVE Inv'
  <2>1. /\ u \in Ids /\ req[w].row \in User /\ req[w].row.username = req[w].row.email
        /\ UsernameFree(req[w].row, {u}) /\ users' = [users EXCEPT ![u] = req[w].row]
        /\ audit \subseteq audit'
        /\ Logged(u, req[w].row) \in audit' \/ req[w].row = AdminRow
    BY <1>7, RowFacts DEF AddSave, UsernameFree
  <2>2. RowsInv'
    BY <2>1, WriteRow
  <2> QED BY <1>7, <2>1, <2>2 DEF AddSave, RowsInv
<1>8. ASSUME NEW w \in Workers, NEW u \in Ids, DeleteLoad(w, u) PROVE Inv'
  BY <1>8 DEF DeleteLoad
<1>9. ASSUME NEW w \in Workers, DeleteUser(w) PROVE Inv'
  BY <1>9 DEF DeleteUser
<1>10. ASSUME NEW w \in Workers, NEW u \in Ids, PasswordLoad(w, u) PROVE Inv'
  <2>1. /\ users[u] \in User /\ users[u].username = users[u].email
        /\ Logged(u, users[u]) \in audit \/ users[u] = AdminRow
        /\ req[w].actor \in Ids \cup {None}
    BY <1>10 DEF PasswordLoad
  <2>2. /\ req' \in [Workers -> Request]
        /\ \A v \in Workers : RequestOK(req[v])'
    BY <1>10, <2>1 DEF PasswordLoad
  <2> QED BY <1>10, <2>2 DEF PasswordLoad
<1>11. ASSUME NEW w \in Workers, NEW u \in Ids, OwnPasswordLoad(w, u) PROVE Inv'
  BY <1>11 DEF OwnPasswordLoad
<1>12. ASSUME NEW w \in Workers, PasswordSave(w) PROVE Inv'
  <2>1. /\ req[w].id \in Ids /\ req[w].row \in User /\ req[w].row.username = req[w].row.email
        /\ UsernameFree(req[w].row, {req[w].id}) /\ users' = [users EXCEPT ![req[w].id] = req[w].row]
        /\ audit \subseteq audit'
        /\ Logged(req[w].id, req[w].row) \in audit' \/ req[w].row = AdminRow
    BY <1>12, RowFacts DEF PasswordSave, UsernameFree
  <2>2. RowsInv'
    BY <2>1, WriteRow
  <2> QED BY <1>12, <2>1, <2>2 DEF PasswordSave, RowsInv
<1>13. ASSUME NEW w \in Workers, BootRead(w) PROVE Inv'
  BY <1>13 DEF BootRead
<1>14. ASSUME NEW w \in Workers, NEW u \in Ids, BootCreate(w, u) PROVE Inv'
  <2>1. /\ u \in Ids /\ AdminRow \in User /\ AdminRow.username = AdminRow.email
        /\ UsernameFree(AdminRow, {u}) /\ users' = [users EXCEPT ![u] = AdminRow]
        /\ audit \subseteq audit'
        /\ Logged(u, AdminRow) \in audit' \/ AdminRow = AdminRow
    BY <1>14, RowFacts DEF BootCreate, UsernameFree
  <2>2. RowsInv'
    BY <2>1, WriteRow
  <2> QED BY <1>14, <2>1, <2>2 DEF BootCreate, RowsInv
<1>15. ASSUME NEW w \in Workers, Abandon(w) PROVE Inv'
  BY <1>15 DEF Abandon
<1>16. ASSUME UNCHANGED vars PROVE Inv'
  BY <1>16 DEF vars
<1> QED
  BY <1>1, <1>2, <1>3, <1>4, <1>5, <1>6, <1>7, <1>8, <1>9, <1>10, <1>11, <1>12,
     <1>13, <1>14, <1>15, <1>16 DEF Next

(* Types, requests and rows fit together in every reachable state.         *)
THEOREM Invariance == Spec => []Inv
BY InvInit, InvStep, PTL DEF Spec

(* TypeOK: every variable keeps its type.                                  *)
THEOREM TypeCorrect == Spec => []TypeOK
<1>1. Inv => TypeOK BY DEF Inv
<1> QED BY <1>1, Invariance, PTL

(* However requests overlap, no two users share an address.                *)
THEOREM AddressesIdentify == Spec => []EmailsUnique
<1>1. Inv => EmailsUnique BY DEF Inv, EmailsUnique
<1> QED BY <1>1, Invariance, PTL

(* However requests overlap, every row a user has was logged.              *)
THEOREM RightsLeaveATrace == Spec => []RightsLogged
<1>1. Inv => RightsLogged BY DEF Inv
<1> QED BY <1>1, Invariance, PTL

(* However requests overlap, an address logs in its owner and nobody else. *)
THEOREM LoginReachesOwner == Spec => []LoginFindsOwner
<1>1. Inv => LoginFindsOwner
  BY DEF Inv, LoginFindsOwner, Authenticate
<1> QED BY <1>1, Invariance, PTL

-----------------------------------------------------------------------------
(* A request that nobody overtook finds the table as it left it.           *)
Changing == {"change_loaded", "change_valid", "change_fetched"}

Fresh(w) ==
  /\ req[w].at \in Changing \cup {"admitted", "add_valid", "delete_loaded"} =>
       req[w].actor \in Stored /\ is_administrator(users[req[w].actor])
  /\ req[w].at \in Changing /\ req[w].id = req[w].actor =>
       /\ req[w].row.is_superuser = users[req[w].id].is_superuser
       /\ req[w].row.is_active = users[req[w].id].is_active
  /\ req[w].at \in Changing => req[w].id \in Stored
  /\ req[w].at = "delete_loaded" => req[w].id # req[w].actor
  /\ req[w].at = "password_loaded" => req[w].row = users[req[w].id] /\ req[w].id \in Stored

HistoryInv ==
  /\ tainted \in BOOLEAN
  /\ LastAdministratorKept
  /\ \A w \in Workers : w \in overtaken \/ Fresh(w)

Step(w) ==
  \/ \E u \in Ids : \/ Admit(w, u) \/ DeleteLoad(w, u) \/ PasswordLoad(w, u)
                    \/ OwnPasswordLoad(w, u)
                    \/ AddSave(w, u) \/ BootCreate(w, u)
                    \/ \E f \in Forms : ChangeLoad(w, u, f)
  \/ \E f \in Forms : AddValid(w, f)
  \/ ChangeValid(w) \/ ChangeFetch(w) \/ ChangeSave(w)
  \/ DeleteUser(w) \/ PasswordSave(w) \/ BootRead(w) \/ Abandon(w)

(* A step is one worker's; if it writes, the worker ends its request.      *)
LEMMA StepShape ==
  ASSUME Inv, NEW w \in Workers, Step(w)
  PROVE  /\ \A v \in Workers \ {w} : req'[v] = req[v]
         /\ users' # users => req'[w] = Idle /\ req[w] # Idle
         /\ users' = users => issued' = issued
<1> USE DEF Inv, TypeOK, Request, RequestOK, Stored, Idle, Step
<1>1. \A v \in Workers \ {w} : req'[v] = req[v]
  BY DEF Admit, DeleteLoad, PasswordLoad, OwnPasswordLoad, AddSave, BootCreate,
         ChangeLoad, AddValid, ChangeValid, ChangeFetch, ChangeSave, DeleteUser,
         PasswordSave, BootRead, Abandon
<1>2. ASSUME NEW u \in Ids, AddSave(w, u)
      PROVE  req'[w] = Idle /\ req[w] # Idle /\ users' # users
  BY <1>2, RowFacts DEF AddSave
<1>3. ASSUME NEW u \in Ids, BootCreate(w, u)
      PROVE  req'[w] = Idle /\ req[w] # Idle /\ users' # users
  BY <1>3, RowFacts DEF BootCreate
<1>4. ASSUME ChangeSave(w) \/ DeleteUser(w) \/ PasswordSave(w)
      PROVE  req'[w] = Idle /\ req[w] # Idle /\ issued' = issued
  BY <1>4 DEF ChangeSave, DeleteUser, PasswordSave
<1>5. \/ ChangeSave(w) \/ DeleteUser(w) \/ PasswordSave(w)
      \/ \E u \in Ids : AddSave(w, u) \/ BootCreate(w, u)
      \/ users' = users /\ issued' = issued
  BY DEF Admit, DeleteLoad, PasswordLoad, OwnPasswordLoad, ChangeLoad, AddValid,
         ChangeValid, ChangeFetch, BootRead, Abandon
<1> QED BY <1>1, <1>2, <1>3, <1>4, <1>5

(* What a fresh request has read stays true while it reads on.             *)
LEMMA FreshReads ==
  ASSUME Inv, NEW w \in Workers, Fresh(w), Step(w), users' = users
  PROVE  Fresh(w)'
<1> USE DEF Inv, TypeOK, Request, RequestOK, Stored, Idle, Fresh, Changing
<1>1. ASSUME NEW a \in Ids, Admit(w, a) PROVE Fresh(w)'
  BY <1>1, RowFacts DEF Admit, is_administrator
<1>2. ASSUME NEW u \in Ids, NEW f \in Forms, ChangeLoad(w, u, f) PROVE Fresh(w)'
  BY <1>2, RowFacts DEF ChangeLoad, FilledIn, is_administrator
<1>3. ASSUME ChangeValid(w) PROVE Fresh(w)'
  BY <1>3, RowFacts DEF ChangeValid, is_administrator
<1>4. ASSUME ChangeFetch(w) PROVE Fresh(w)'
  BY <1>4, RowFacts DEF ChangeFetch, is_administrator
<1>5. ASSUME NEW f \in Forms, AddValid(w, f) PROVE Fresh(w)'
  BY <1>5, RowFacts DEF AddValid, is_administrator
<1>6. ASSUME NEW u \in Ids, DeleteLoad(w, u) PROVE Fresh(w)'
  BY <1>6, RowFacts DEF DeleteLoad, is_administrator
<1>7. ASSUME NEW u \in Ids, PasswordLoad(w, u) PROVE Fresh(w)'
  BY <1>7, RowFacts DEF PasswordLoad
<1>8. ASSUME NEW u \in Ids, OwnPasswordLoad(w, u) PROVE Fresh(w)'
  BY <1>8, RowFacts DEF OwnPasswordLoad
<1>9. ASSUME BootRead(w) PROVE Fresh(w)'
  BY <1>9, RowFacts DEF BootRead
<1>10. ASSUME req'[w] = Idle PROVE Fresh(w)'
  BY <1>10
<1>11. ASSUME NEW u \in Ids, AddSave(w, u) \/ BootCreate(w, u) PROVE req'[w] = Idle
  BY <1>11 DEF AddSave, BootCreate
<1>12. ASSUME ChangeSave(w) \/ DeleteUser(w) \/ PasswordSave(w) \/ Abandon(w)
       PROVE  req'[w] = Idle
  BY <1>12 DEF ChangeSave, DeleteUser, PasswordSave, Abandon
<1> QED
  BY <1>1, <1>2, <1>3, <1>4, <1>5, <1>6, <1>7, <1>8, <1>9, <1>10, <1>11, <1>12 DEF Step

(* A fresh request leaves an administrator, and rights as they were unless *)
(* it is somebody else's change form.                                      *)
LEMMA FreshWrites ==
  ASSUME Inv, NEW w \in Workers, Fresh(w), Step(w), users' # users
  PROVE  /\ SomeAdministrator'
         /\ \A u \in Stored :
              users'[u] # None /\ Rights(users'[u]) # Rights(users[u]) =>
                /\ req[w].at = "change_fetched" /\ req'[w] = Idle
                /\ req[w].id = u /\ req[w].actor # u
                /\ users'[u] = req[w].row
<1> USE DEF Inv, TypeOK, Request, RequestOK, Stored, Idle, Fresh, Changing, SomeAdministrator
<1> DEFINE Goal == /\ SomeAdministrator'
                   /\ \A u \in Stored :
                        users'[u] # None /\ Rights(users'[u]) # Rights(users[u]) =>
                          /\ req[w].at = "change_fetched" /\ req'[w] = Idle
                          /\ req[w].id = u /\ req[w].actor # u
                          /\ users'[u] = req[w].row
<1>1. ASSUME ChangeSave(w) PROVE Goal
  <2> DEFINE a == req[w].actor
             u == req[w].id
  <2>1. /\ a \in Stored /\ is_administrator(users[a]) /\ u \in Stored /\ u \in Ids
        /\ users' = [users EXCEPT ![u] = req[w].row] /\ req[w].row \in User
        /\ req'[w] = Idle /\ issued' = issued /\ req[w].at = "change_fetched"
    BY <1>1, RowFacts DEF ChangeSave
  <2>2. users'[u] = req[w].row /\ \A v \in Ids \ {u} : users'[v] = users[v]
    BY <2>1
  <2>3. u = a => Rights(users'[a]) = Rights(users[a])
    BY <1>1, <2>1, <2>2 DEF ChangeSave, Rights
  <2>4. is_administrator(users'[a])
    <3>1. CASE u = a
      BY <2>1, <2>3, <3>1 DEF is_administrator, Rights
    <3>2. CASE u # a
      BY <2>1, <2>2, <3>2
    <3> QED BY <3>1, <3>2
  <2>5. a \in Stored'
    BY <2>1, <2>2, RowFacts
  <2> QED BY <2>1, <2>2, <2>3, <2>4, <2>5
<1>2. ASSUME NEW u \in Ids, AddSave(w, u) PROVE Goal
  <2>1. /\ users' = [users EXCEPT ![u] = req[w].row] /\ u \notin Stored
        /\ req[w].actor \in Stored /\ is_administrator(users[req[w].actor])
    BY <1>2 DEF AddSave
  <2>2. users'[req[w].actor] = users[req[w].actor] /\ \A v \in Stored : users'[v] = users[v]
    BY <2>1
  <2> QED BY <2>1, <2>2
<1>3. ASSUME NEW u \in Ids, BootCreate(w, u) PROVE Goal
  <2>1. /\ users' = [users EXCEPT ![u] = AdminRow] /\ u \notin Stored
    BY <1>3 DEF BootCreate
  <2>2. users'[u] = AdminRow /\ \A v \in Stored : users'[v] = users[v]
    BY <2>1
  <2> QED BY <2>1, <2>2, RowFacts DEF is_administrator, AdminRow
<1>4. ASSUME DeleteUser(w) PROVE Goal
  <2>1. /\ users' = [users EXCEPT ![req[w].id] = None]
        /\ req[w].actor \in Stored /\ is_administrator(users[req[w].actor])
        /\ req[w].actor # req[w].id
    BY <1>4 DEF DeleteUser
  <2>2. \A v \in Stored : v = req[w].id \/ users'[v] = users[v]
    BY <2>1
  <2>3. req[w].id \in Stored => users'[req[w].id] = None
    BY <2>1
  <2> QED BY <2>1, <2>2, <2>3
<1>5. ASSUME PasswordSave(w) PROVE Goal
  <2>1. users' = users
    BY <1>5 DEF PasswordSave
  <2> QED BY <2>1
<1>6. \/ ChangeSave(w) \/ DeleteUser(w) \/ PasswordSave(w)
      \/ \E u \in Ids : AddSave(w, u) \/ BootCreate(w, u)
  BY DEF Step, Admit, DeleteLoad, PasswordLoad, OwnPasswordLoad, ChangeLoad, AddValid,
         ChangeValid, ChangeFetch, BootRead, Abandon
<1> QED BY <1>1, <1>2, <1>3, <1>4, <1>5, <1>6

(* Reading a table that nobody wrote, others stay fresh.                   *)
LEMMA FreshOthers ==
  ASSUME NEW v \in Workers, Fresh(v), req'[v] = req[v], users' = users
  PROVE  Fresh(v)'
BY DEF Fresh, Stored

LEMMA FreshIdle ==
  ASSUME NEW w \in Workers, req[w].at = "idle"
  PROVE  Fresh(w)
BY DEF Fresh, Changing

LEMMA HistoryInit == InitH => HistoryInv
<1> SUFFICES ASSUME InitH PROVE HistoryInv
  OBVIOUS
<1>1. \A w \in Workers : req[w].at = "idle"
  BY DEF InitH, Init, Idle
<1>2. \A w \in Workers : Fresh(w)
  BY <1>1, FreshIdle
<1> QED BY <1>2 DEF InitH, Init, HistoryInv, LastAdministratorKept, SomeAdministrator

(* What a step does to the worker that takes it, and to the others.        *)
LEMMA HistoryStep ==
  ASSUME Inv, HistoryInv, Inv', [NextH]_varsH
  PROVE  HistoryInv'
<1>1. CASE UNCHANGED varsH
  <2>1. \A w \in Workers : Fresh(w) => Fresh(w)'
    BY <1>1, FreshOthers DEF varsH, vars
  <2> QED BY <1>1, <2>1
    DEF varsH, vars, HistoryInv, LastAdministratorKept, SomeAdministrator, Stored
<1>2. ASSUME NEW w \in Workers, Step(w), Remember PROVE HistoryInv'
  <2>1. /\ \A v \in Workers \ {w} : req'[v] = req[v]
        /\ users' # users => req'[w] = Idle /\ req[w] # Idle
        /\ users' = users => issued' = issued
    BY <1>2, StepShape
  <2>2. tainted' \in BOOLEAN
    BY <1>2 DEF Remember, HistoryInv
  <2>3. \A v \in Workers : req'[v].at = "idle" => Fresh(v)'
    BY DEF Fresh, Changing
  <2>4. CASE users' = users
    <3>1. \A v \in Workers : v \in overtaken => v \in overtaken' \/ Fresh(v)'
      BY <1>2, <2>3 DEF Remember
    <3>2. \A v \in Workers \ {w} : Fresh(v) => Fresh(v)'
      BY <2>1, <2>4, FreshOthers
    <3>3. Fresh(w) => Fresh(w)'
      BY <1>2, <2>4, FreshReads
    <3>4. LastAdministratorKept'
      BY <1>2, <2>1, <2>4 DEF HistoryInv, LastAdministratorKept, SomeAdministrator, Stored,
         Remember
    <3> QED BY <2>2, <3>1, <3>2, <3>3, <3>4 DEF HistoryInv
  <2>5. CASE users' # users
    <3>1. \A v \in Workers \ {w} : v \in overtaken' \/ Fresh(v)'
      BY <1>2, <2>1, <2>3, <2>5 DEF Remember
    <3>2. Fresh(w)'
      BY <2>1, <2>3, <2>5 DEF Idle
    <3>3. CASE w \in overtaken
      <4>1. tainted'
        BY <1>2, <2>1, <2>5, <3>3 DEF Remember, StaleWrite
      <4> QED BY <2>2, <3>1, <3>2, <4>1 DEF HistoryInv, LastAdministratorKept
    <3>4. CASE w \notin overtaken
      <4>1. SomeAdministrator'
        BY <1>2, <2>5, <3>4, FreshWrites DEF HistoryInv
      <4> QED BY <2>2, <3>1, <3>2, <4>1 DEF HistoryInv, LastAdministratorKept
    <3> QED BY <3>3, <3>4
  <2> QED BY <2>4, <2>5
<1> QED BY <1>1, <1>2 DEF NextH, Next, Step

(* The history observes the requests and lets them do what they did.       *)
LEMMA HistoryImplements == SpecH => Spec
<1>1. InitH => Init
  BY DEF InitH
<1>2. [NextH]_varsH => [Next]_vars
  BY DEF NextH, varsH
<1> QED BY <1>1, <1>2, PTL DEF SpecH, Spec

LEMMA HistoryInvariance == SpecH => [](Inv /\ HistoryInv)
<1>1. SpecH => []Inv
  BY HistoryImplements, Invariance, PTL
<1> QED BY <1>1, HistoryInit, HistoryStep, PTL DEF SpecH

(* An active administrator is left, however requests overlap, unless one   *)
(* that another had overtaken wrote.                                       *)
THEOREM AdministratorKept == SpecH => []LastAdministratorKept
<1>1. HistoryInv => LastAdministratorKept
  BY DEF HistoryInv
<1> QED BY <1>1, HistoryInvariance, PTL

(* Rights change only in somebody else's change form, or by such a request. *)
THEOREM RightsKept == SpecH => OwnRightsKept
<1> DEFINE A == \A u \in Stored :
       users'[u] # None /\ Rights(users'[u]) # Rights(users[u]) =>
         \/ StaleWrite
         \/ \E w \in Workers :
              /\ req[w].at = "change_fetched" /\ req'[w] = Idle
              /\ req[w].id = u /\ req[w].actor # u
              /\ users'[u] = req[w].row
<1>1. ASSUME Inv, HistoryInv, [NextH]_varsH PROVE A
  <2>1. CASE users' = users
    BY <2>1
  <2>2. CASE users' # users
    <3>1. PICK w \in Workers : Step(w)
      BY <1>1, <2>2 DEF NextH, Next, Step, varsH, vars
    <3>2. CASE w \in overtaken
      BY <1>1, <2>2, <3>1, <3>2, StepShape DEF StaleWrite
    <3>3. CASE w \notin overtaken
      BY <1>1, <2>2, <3>1, <3>3, FreshWrites DEF HistoryInv
    <3> QED BY <3>2, <3>3
  <2> QED BY <2>1, <2>2
<1>2. Inv /\ HistoryInv /\ [NextH]_varsH => [A]_varsH
  BY <1>1
<1> QED BY <1>2, HistoryInvariance, PTL DEF SpecH, OwnRightsKept

-----------------------------------------------------------------------------
(* One request at a time.                                                  *)
Serial ==
  \A v, w \in Workers : req[v].at # "idle" /\ req[w].at # "idle" => v = w

NobodyOvertaken == overtaken = {} /\ tainted = FALSE

LEMMA WritersAreBusy ==
  ASSUME NEW w \in Workers, Step(w), users' # users
  PROVE  req[w].at # "idle"
BY DEF Step, Admit, DeleteLoad, PasswordLoad, OwnPasswordLoad, AddSave, BootCreate,
       ChangeLoad, AddValid, ChangeValid, ChangeFetch, ChangeSave, DeleteUser,
       PasswordSave, BootRead, Abandon

LEMMA SerialStep ==
  ASSUME Inv, Serial, NobodyOvertaken, [NextH]_varsH
  PROVE  NobodyOvertaken'
<1>1. CASE UNCHANGED varsH
  BY <1>1 DEF varsH, NobodyOvertaken
<1>2. ASSUME NEW w \in Workers, Step(w), Remember PROVE NobodyOvertaken'
  <2>1. /\ \A v \in Workers \ {w} : req'[v] = req[v]
        /\ users' # users => req'[w] = Idle
    BY <1>2, StepShape
  <2>2. ~StaleWrite
    BY DEF NobodyOvertaken, StaleWrite
  <2>3. ASSUME NEW v \in Workers, users' # users PROVE req'[v].at = "idle"
    BY <1>2, <2>1, <2>3, WritersAreBusy DEF Serial, Idle
  <2> QED BY <1>2, <2>2, <2>3 DEF Remember, NobodyOvertaken
<1> QED BY <1>1, <1>2 DEF NextH, Next, Step

(* StaffUserChangeForm.clean and has_delete_permission: when no two        *)
(* requests are under way at once, an active administrator is left, with   *)
(* no exception; what the forms lack is only a lock.                       *)
THEOREM SerialAdministratorKept == SpecH /\ []Serial => []SomeAdministrator
<1>1. InitH => NobodyOvertaken
  BY DEF InitH, NobodyOvertaken
<1>2. HistoryInv /\ NobodyOvertaken => SomeAdministrator
  BY DEF HistoryInv, LastAdministratorKept, NobodyOvertaken
<1>3. Inv /\ Serial /\ NobodyOvertaken /\ [NextH]_varsH => NobodyOvertaken'
  BY SerialStep
<1> QED BY <1>1, <1>2, <1>3, HistoryInvariance, PTL DEF SpecH

(* The rights of a user who stays change only as somebody else asks for.   *)
ByAnother ==
  \A u \in Stored :
     users'[u] # None /\ Rights(users'[u]) # Rights(users[u]) =>
       \E w \in Workers :
          /\ req[w].at = "change_fetched" /\ req'[w] = Idle
          /\ req[w].id = u /\ req[w].actor # u
          /\ users'[u] = req[w].row

(* get_readonly_fields: when no two requests are under way at once, nobody *)
(* changes the rights of one's own account; neither does a new password or *)
(* another administrator's form that was opened earlier give them back.    *)
THEOREM SerialOwnRights == SpecH /\ []Serial => [][ByAnother]_varsH
<1>1. InitH => NobodyOvertaken
  BY DEF InitH, NobodyOvertaken
<1>2. Inv /\ Serial /\ NobodyOvertaken /\ [NextH]_varsH => NobodyOvertaken'
  BY SerialStep
<1>3. ASSUME Inv, HistoryInv, NobodyOvertaken, [NextH]_varsH PROVE [ByAnother]_varsH
  <2>1. CASE users' = users
    BY <2>1 DEF ByAnother
  <2>2. CASE users' # users
    <3>1. PICK w \in Workers : Step(w)
      BY <1>3, <2>2 DEF NextH, Next, Step, varsH, vars
    <3>2. w \notin overtaken
      BY <1>3 DEF NobodyOvertaken
    <3> QED BY <1>3, <2>2, <3>1, <3>2, FreshWrites DEF HistoryInv, ByAnother
  <2> QED BY <2>1, <2>2
<1> QED BY <1>1, <1>2, <1>3, HistoryInvariance, PTL DEF SpecH
=============================================================================
