SPECIFICATION SpecAll
CONSTANTS
  Workers = {w1}
  Events = {e1}
  Banners = {ru}
  ThemeImages = {}
  Names = {n1, n2}
  Directory <- MCDirectory
  Forms <- MCForms
  MaxRequests = 3
  Backups = {b1}
  MaxRestores = 1
  MaxDamages = 0
  None = None
SYMMETRY Symmetry
INVARIANT Matched
CHECK_DEADLOCK FALSE
