SPECIFICATION CrashFreeSpec
CONSTANTS
  Workers = {w1, w2}
  Browsers = {b1}
  Ids = {i1, i2}
  Names <- MCNames
  Emails <- MCEmails
  Phones <- MCPhones
  Blank = ""
  Digits <- MCDigits
  Forms <- OneForm
  Edits <- MCEdits
  EventRows <- MCEvents
  MaxTime = 0
  None = None
  MaxDone = 2
PROPERTY NewResponseIsNew
CHECK_DEADLOCK FALSE
