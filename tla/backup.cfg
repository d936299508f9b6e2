SPECIFICATION SpecAll
CONSTANTS
  Workers = {w1}
  Events = {e1}
  Banners = {ru}
  ThemeImages = {}
  Names = {n1, n2}
  Directory <- MCDirectory
  Forms <- MCForms
  MaxRequests = 3
  Backups = {b1, b2}
  MaxRestores = 2
  MaxDamages = 1
  None = None
SYMMETRY Symmetry
INVARIANT TypesOK
INVARIANT SteadyMatched
INVARIANT ServedImages
PROPERTY RestoredWhole
CHECK_DEADLOCK FALSE
