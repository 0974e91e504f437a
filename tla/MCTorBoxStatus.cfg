CONSTANTS
  OurIds = {1, 3}
  Second = 3
  HandIds = {2}
  StatusTTL = 2
  MissTTL = 2
  ListTTL = 2
  MaxAge = 6
  Limit = 2
SPECIFICATION MCSpec
INVARIANTS StatusTypeOK SaidIsRecent
PROPERTIES FinishedIsKept
