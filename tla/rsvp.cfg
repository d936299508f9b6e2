SPECIFICATION Spec
CONSTANTS
  Workers = {w1, w2}
  Browsers = {b1}
  Ids = {i1, i2}
  Names <- MCNames
  Emails <- MCEmails
  Phones <- MCPhones
  Blank = ""
  Digits <- MCDigits
  Forms <- MCForms
  Edits <- MCEdits
  EventRows <- MCEvents
  MaxTime = 1
  None = None
  MaxDone = 2
CONSTRAINT FewDone
SYMMETRY Symmetry
INVARIANT TypeOK
INVARIANT DuplicatesOnlyFromRaces
INVARIANT AtMostOneLate
INVARIANT DeletionsAudited
INVARIANT EditsAudited
PROPERTY AnswersAreNew
PROPERTY NoResurrection
CHECK_DEADLOCK FALSE
