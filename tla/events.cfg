SPECIFICATION SpecH
CONSTANTS
  Workers = {w1, w2}
  Ids = {i1, i2}
  ru = ru
  en = en
  Languages = {ru, en}
  t1 = t1
  t2 = t2
  Texts = {t1, t2}
  Forms <- MCForms
  MaxRequests = 4
  None = None
SYMMETRY Symmetry
INVARIANT TypeOK
INVARIANT TitlesKept
INVARIANT PagesInSelectedLanguage
INVARIANT DeletionsLogged
INVARIANT RowsLogged
INVARIANT PublishedDated
PROPERTY ChangesLogged
PROPERTY TextsLogged
CHECK_DEADLOCK FALSE
