----------------------- MODULE AdministratorsHistory ------------------------
(***************************************************************************)
(* Administrators, with a record of which requests others overtook: what   *)
(* the forms promise holds of every request during which nobody else wrote *)
(* the user table, however many requests overlap.                          *)
(***************************************************************************)
EXTENDS Administrators

VARIABLES
  overtaken,  \* history: workers during whose request another wrote a user
  tainted     \* history: such a request has itself written one

varsH == <<vars, overtaken, tainted>>

(* A request that was overtaken writes.                                    *)
StaleWrite == users' # users /\ \E w \in overtaken : req'[w] # req[w]

Remember ==
  /\ overtaken' = {w \in Workers :
       /\ req'[w].at # "idle"
       /\ w \in overtaken \/ (users' # users /\ req'[w] = req[w])}
  /\ tainted' = (tainted \/ StaleWrite)

InitH == Init /\ overtaken = {} /\ tainted = FALSE

NextH == Next /\ Remember

SpecH == InitH /\ [][NextH]_varsH

-----------------------------------------------------------------------------
(* Once there was a user there is an active administrator, unless a request *)
(* that another had overtaken wrote: StaffUserChangeForm.clean,             *)
(* has_delete_permission and get_readonly_fields together keep the last one. *)
LastAdministratorKept == tainted \/ SomeAdministrator

(* The rights of a user who stays change only as somebody else asks for in *)
(* the change form, unless a request that was overtaken writes back a copy *)
(* it had loaded.                                                          *)
Rights(row) == <<row.is_superuser, row.is_active>>

OwnRightsKept ==
  [][\A u \in Stored :
       users'[u] # None /\ Rights(users'[u]) # Rights(users[u]) =>
         \/ StaleWrite
         \/ \E w \in Workers :
              /\ req[w].at = "change_fetched" /\ req'[w] = Idle
              /\ req[w].id = u /\ req[w].actor # u
              /\ users'[u] = req[w].row]_varsH
=============================================================================
