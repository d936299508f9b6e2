--------------------------- MODULE Administrators ---------------------------
(***************************************************************************)
(* The accounts that run the site.  Administrators (is_superuser) add,     *)
(* change and delete users on the admin site; bootstrap_admin makes the    *)
(* first one.  A request reads its own user once, when it arrives, and the *)
(* user it works on a moment later; the rest of it trusts those copies.    *)
(* The change form, the add form and the delete page each run in one       *)
(* transaction, so each writes in one committing step, but they read       *)
(* before it what others have committed (READ COMMITTED, no row locks).    *)
(*                                                                         *)
(* E-mail addresses are compared case-insensitively and stored in lower    *)
(* case; here each stands for its class.                                   *)
(***************************************************************************)
EXTENDS Naturals

CONSTANTS
  Workers,      \* threads that run a request or a management command
  Ids,          \* primary keys of users
  Emails,
  AdminEmail,   \* the environment variable ADMIN_EMAIL
  Forms,        \* what administrators fill in
  None

(* The columns that matter; is_staff is TRUE for every user made here.     *)
User == [email: Emails, username: Emails, is_superuser: BOOLEAN, is_active: BOOLEAN]

(* What StaffUserChangeForm asks for; the add form has no is_active.       *)
Form == [email: Emails, is_superuser: BOOLEAN, is_active: BOOLEAN]

ASSUME ConstantAssumption ==
  /\ AdminEmail \in Emails /\ Forms \subseteq Form
  /\ None \notin Ids /\ None \notin User

VARIABLES
  users,    \* the user table: id -> User, or None
  issued,   \* ids its sequence has handed out
  audit,    \* AuditLog entries about users: which user, and the new data
  req       \* what each worker is doing

vars == <<users, issued, audit, req>>

Stored == {u \in Ids : users[u] # None}

Steps == {"idle", "admitted", "change_loaded", "change_valid", "change_fetched",
          "add_valid", "delete_loaded", "password_loaded", "boot"}

(* actor is request.user, id the user worked on, old the copy that was     *)
(* loaded of it and row the copy with the form's values.                   *)
Request == [at: Steps, actor: Ids \cup {None}, id: Ids \cup {None},
            old: User \cup {None}, row: User \cup {None}]

Idle == [at |-> "idle", actor |-> None, id |-> None, old |-> None, row |-> None]

(* admin_user_created or admin_user_updated.                               *)
Logged(u, row) == [id |-> u, new |-> row]

Init ==
  /\ users = [u \in Ids |-> None]
  /\ issued = {}
  /\ audit = {}
  /\ req = [w \in Workers |-> Idle]

-----------------------------------------------------------------------------
(* CaseInsensitiveEmailBackend.authenticate, the password being right: who *)
(* has the address, else who has it as username; several are nobody.       *)
Authenticate(identifier) ==
  LET owners == {u \in Stored : users[u].email = identifier}
      found  == IF owners # {} THEN owners
                ELSE {u \in Stored : users[u].username = identifier}
  IN {u \in found : found = {u} /\ users[u].is_active}

(* is_administrator, on the copy of the user the session names.            *)
is_administrator(user) == user.is_superuser /\ user.is_active

Admit(w, a) ==
  /\ req[w].at = "idle"
  /\ a \in Stored /\ is_administrator(users[a])
  /\ req' = [req EXCEPT ![w] = [Idle EXCEPT !.at = "admitted", !.actor = a]]
  /\ UNCHANGED <<users, issued, audit>>

(* clean_email: nobody else has the address, as e-mail or as username.     *)
EmailFree(email, self) ==
  \A v \in Stored \ self : users[v].email # email /\ users[v].username # email

(* The unique constraint on the username column.                           *)
UsernameFree(row, self) == \A v \in Stored \ self : users[v].username # row.username

(* Fault: rights are open in the form of one's own account, too.           *)
FilledInFull(old, f, own) ==
  [email |-> f.email, username |-> f.email,
   is_superuser |-> f.is_superuser, is_active |-> f.is_active]

(* Fault: the username stays when the address changes.                     *)
FilledInKeepingUsername(old, f, own) ==
  [email |-> f.email, username |-> old.username,
   is_superuser |-> IF own THEN old.is_superuser ELSE f.is_superuser,
   is_active |-> IF own THEN old.is_active ELSE f.is_active]

(* save() and save_model put the e-mail into the username; get_readonly_   *)
(* fields takes the rights out of the form of one's own account.           *)
FilledIn(old, f, own) ==
  [email |-> f.email, username |-> f.email,
   is_superuser |-> IF own THEN old.is_superuser ELSE f.is_superuser,
   is_active |-> IF own THEN old.is_active ELSE f.is_active]

ChangeLoad(w, u, f) ==
  /\ req[w].at = "admitted"
  /\ u \in Stored
  /\ req' = [req EXCEPT ![w] =
       [at |-> "change_loaded", actor |-> req[w].actor, id |-> u, old |-> users[u],
        row |-> FilledIn(users[u], f, u = req[w].actor)]]
  /\ UNCHANGED <<users, issued, audit>>

(* StaffUserChangeForm.clean: the last active administrator stays one.     *)
KeepsAnAdministrator(r) ==
  is_administrator(r.old) /\ ~is_administrator(r.row) =>
    \E v \in Stored \ {r.id} : is_administrator(users[v])

ChangeValid(w) ==
  /\ req[w].at = "change_loaded"
  /\ EmailFree(req[w].row.email, {req[w].id})
  /\ KeepsAnAdministrator(req[w])
  /\ req' = [req EXCEPT ![w].at = "change_valid"]
  /\ UNCHANGED <<users, issued, audit>>

(* save_model reads the row once more, for previous_data.                  *)
ChangeFetch(w) ==
  /\ req[w].at = "change_valid" /\ req[w].id \in Stored
  /\ req' = [req EXCEPT ![w].at = "change_fetched"]
  /\ UNCHANGED <<users, issued, audit>>

(* Fault: save_model logs only what it creates.                            *)
ChangeSaveUnlogged(w) ==
  /\ req[w].at = "change_fetched"
  /\ UsernameFree(req[w].row, {req[w].id})
  /\ users' = [users EXCEPT ![req[w].id] = req[w].row]
  /\ req' = [req EXCEPT ![w] = Idle]
  /\ UNCHANGED <<issued, audit>>

(* The whole row is written, with the audit entry, and committed.          *)
ChangeSave(w) ==
  /\ req[w].at = "change_fetched"
  /\ UsernameFree(req[w].row, {req[w].id})
  /\ users' = [users EXCEPT ![req[w].id] = req[w].row]
  /\ audit' = audit \cup {Logged(req[w].id, req[w].row)}
  /\ req' = [req EXCEPT ![w] = Idle]
  /\ UNCHANGED issued

(* Fault: the username is left empty.                                      *)
AddValidNoUsername(w, f) ==
  /\ req[w].at = "admitted"
  /\ EmailFree(f.email, {})
  /\ req' = [req EXCEPT ![w] =
       [Idle EXCEPT !.at = "add_valid", !.actor = req[w].actor,
                    !.row = [email |-> f.email, username |-> None,
                             is_superuser |-> f.is_superuser, is_active |-> TRUE]]]
  /\ UNCHANGED <<users, issued, audit>>

(* StaffUserCreationForm: is_active is not asked for and defaults to TRUE. *)
AddValid(w, f) ==
  /\ req[w].at = "admitted"
  /\ EmailFree(f.email, {})
  /\ req' = [req EXCEPT ![w] =
       [Idle EXCEPT !.at = "add_valid", !.actor = req[w].actor,
                    !.row = [email |-> f.email, username |-> f.email,
                             is_superuser |-> f.is_superuser, is_active |-> TRUE]]]
  /\ UNCHANGED <<users, issued, audit>>

AddSave(w, u) ==
  /\ req[w].at = "add_valid"
  /\ UsernameFree(req[w].row, {})
  /\ u \in Ids \ issued
  /\ users' = [users EXCEPT ![u] = req[w].row]
  /\ issued' = issued \cup {u}
  /\ audit' = audit \cup {Logged(u, req[w].row)}
  /\ req' = [req EXCEPT ![w] = Idle]

(* Fault: has_delete_permission allows oneself.                            *)
DeleteLoadAnyone(w, u) ==
  /\ req[w].at = "admitted"
  /\ u \in Stored
  /\ req' = [req EXCEPT ![w] = [Idle EXCEPT !.at = "delete_loaded", !.id = u,
                                            !.actor = req[w].actor]]
  /\ UNCHANGED <<users, issued, audit>>

(* Nobody deletes oneself.                                                 *)
DeleteLoad(w, u) ==
  /\ req[w].at = "admitted"
  /\ u \in Stored \ {req[w].actor}
  /\ req' = [req EXCEPT ![w] = [Idle EXCEPT !.at = "delete_loaded", !.id = u,
                                            !.actor = req[w].actor]]
  /\ UNCHANGED <<users, issued, audit>>

DeleteUser(w) ==
  /\ req[w].at = "delete_loaded"
  /\ users' = [users EXCEPT ![req[w].id] = None]
  /\ req' = [req EXCEPT ![w] = Idle]
  /\ UNCHANGED <<issued, audit>>

(* Django's own password pages, for the user an administrator picks or for *)
(* oneself, whoever one is, save the whole row they loaded.                *)
PasswordLoad(w, u) ==
  /\ req[w].at = "admitted"
  /\ u \in Stored
  /\ req' = [req EXCEPT ![w] = [Idle EXCEPT !.at = "password_loaded", !.id = u,
                                            !.actor = req[w].actor, !.row = users[u]]]
  /\ UNCHANGED <<users, issued, audit>>

OwnPasswordLoad(w, a) ==
  /\ req[w].at = "idle"
  /\ a \in Stored /\ users[a].is_active
  /\ req' = [req EXCEPT ![w] = [at |-> "password_loaded", actor |-> a, id |-> a,
                                old |-> None, row |-> users[a]]]
  /\ UNCHANGED <<users, issued, audit>>

PasswordSave(w) ==
  /\ req[w].at = "password_loaded"
  /\ UsernameFree(req[w].row, {req[w].id})
  /\ users' = [users EXCEPT ![req[w].id] = req[w].row]
  /\ req' = [req EXCEPT ![w] = Idle]
  /\ UNCHANGED <<issued, audit>>

(* bootstrap_admin finds no user with ADMIN_EMAIL, and creates one.        *)
AdminRow == [email |-> AdminEmail, username |-> AdminEmail,
             is_superuser |-> TRUE, is_active |-> TRUE]

BootRead(w) ==
  /\ req[w].at = "idle"
  /\ \A v \in Stored : users[v].email # AdminEmail
  /\ req' = [req EXCEPT ![w] = [Idle EXCEPT !.at = "boot"]]
  /\ UNCHANGED <<users, issued, audit>>

BootCreate(w, u) ==
  /\ req[w].at = "boot"
  /\ UsernameFree(AdminRow, {})
  /\ u \in Ids \ issued
  /\ users' = [users EXCEPT ![u] = AdminRow]
  /\ issued' = issued \cup {u}
  /\ req' = [req EXCEPT ![w] = Idle]
  /\ UNCHANGED audit

(* A refused form, a 404, an IntegrityError or a crash: nothing is written. *)
Abandon(w) ==
  /\ req[w].at # "idle"
  /\ req' = [req EXCEPT ![w] = Idle]
  /\ UNCHANGED <<users, issued, audit>>

Next ==
  \E w \in Workers :
    \/ \E u \in Ids : \/ Admit(w, u) \/ DeleteLoad(w, u) \/ PasswordLoad(w, u)
                      \/ OwnPasswordLoad(w, u)
                      \/ AddSave(w, u) \/ BootCreate(w, u)
                      \/ \E f \in Forms : ChangeLoad(w, u, f)
    \/ \E f \in Forms : AddValid(w, f)
    \/ ChangeValid(w) \/ ChangeFetch(w) \/ ChangeSave(w)
    \/ DeleteUser(w) \/ PasswordSave(w) \/ BootRead(w) \/ Abandon(w)

Spec == Init /\ [][Next]_vars

-----------------------------------------------------------------------------
(* The types of the state.                                                 *)
TypeOK ==
  /\ users \in [Ids -> User \cup {None}]
  /\ issued \subseteq Ids
  /\ audit \subseteq [id: Ids, new: User]
  /\ req \in [Workers -> Request]

(* No two users share an e-mail address, so that it identifies whoever     *)
(* logs in.  No constraint says so: the queries of clean_email race, and   *)
(* it is the username, a copy of the address, that is unique.              *)
EmailsUnique ==
  \A u, v \in Stored : u # v => users[u].email # users[v].email

(* An address logs in the active user whose address it is, and nobody      *)
(* else: no user is locked out by another's row, and none is reached under *)
(* an address given up, though the backend looks at usernames, too.        *)
LoginFindsOwner ==
  \A e \in Emails :
     Authenticate(e) = {u \in Stored : users[u].email = e /\ users[u].is_active}

(* Nobody has a right or an address that was never logged, except the      *)
(* administrator that bootstrap_admin made.                                *)
RightsLogged ==
  \A u \in Stored :
     Logged(u, users[u]) \in audit \/ users[u] = AdminRow

(* Once there was a user there is an active administrator: the promise of  *)
(* StaffUserChangeForm.clean, has_delete_permission and get_readonly_fields *)
(* together.                                                               *)
SomeAdministrator ==
  issued # {} => \E u \in Stored : is_administrator(users[u])

(* The last active administrator cannot be disabled or demoted: while no   *)
(* user was deleted, the change form alone leaves one.                     *)
ChangesKeepAdministrator == issued \subseteq Stored => SomeAdministrator
=============================================================================
