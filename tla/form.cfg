SPECIFICATION Spec
CONSTANTS
  MinAge = 2
  MaxAge = 12
  Window = 3
  Day = 12
  ShortLimit = 2
  DailyLimit = 7
  ShortOthers = 1
  DailyOthers = 3
  Patience = 5
INVARIANT TypeOK
PROPERTY TryingHelps
