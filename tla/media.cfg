SPECIFICATION Spec
CONSTANTS
  Workers = {w1, w2}
  Events = {e1, e2}
  ru = ru
  Banners = {ru, en}
  ThemeImages = {logo}
  n1 = n1
  n2 = n2
  n3 = n3
  m1 = m1
  m2 = m2
  Names = {n1, n2, n3, m1, m2}
  Directory <- MCDirectory
  Forms <- MCForms
  MaxRequests = 3
  None = None
SYMMETRY Symmetry
INVARIANT TypeOK
INVARIANT ImagesStored
INVARIANT FilesAccounted
CHECK_DEADLOCK FALSE
