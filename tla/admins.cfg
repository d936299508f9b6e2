SPECIFICATION SpecH
CONSTANTS
  Workers = {w1, w2}
  Ids = {u1, u2}
  e1 = e1
  e2 = e2
  Emails = {e1, e2}
  AdminEmail = e1
  Forms <- RaceForms
  None = None
SYMMETRY Symmetry
INVARIANT TypeOK
INVARIANT EmailsUnique
INVARIANT LoginFindsOwner
INVARIANT RightsLogged
INVARIANT LastAdministratorKept
PROPERTY OwnRightsKept
CHECK_DEADLOCK FALSE
