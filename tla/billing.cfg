CONSTANTS
  None = None
  Workers = {w1, w2}
  BankCards = {b1, b2}
  MaxFaults = 1
  StaleAfter = 1
  MaxAttempts = 2
  MaxDays = 3
  MaxActs = 2
  MaxLoad = 3
  MaxSecond = 2
  MaxChanges = 2
  MaxConsents = 1
  MaxKeys = 2
  MaxSessions = 2
  Parts = 2
  MaxTime = 4
SPECIFICATION Spec
INVARIANTS TopupsKept CardKept CheckoutsKept MandateKept
SYMMETRY Same
CHECK_DEADLOCK FALSE
