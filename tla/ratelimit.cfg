SPECIFICATION Spec
CONSTANTS
  Workers = {w1, w2}
  Length <- MCLength
  Limit <- MCLimit
  Slack = 1
  MaxStall = 1
  MaxTime = 4
  MaxRequests = 4
  MaxForgotten = 1
SYMMETRY Symmetry
INVARIANT TypeOK
INVARIANT CounterKept
PROPERTY QuotaKept
CHECK_DEADLOCK FALSE
