CONSTANTS
  NoOne = NoOne
  c1 = c1
  c2 = c2
  d1 = d1
  d2 = d2
  Charges = {c1, c2}
  Disputes = {d1}
  ChargeOf <- OneContested
  Workers = {w1}
  Credits = 2
  Refs = {r1}
  Periods = {}
  Included = 1
  MaxPlanChanges = 0
  MaxFaults = 1
SPECIFICATION FairSpec
INVARIANTS BooksMatchStripe
PROPERTIES EventsSettle
CHECK_DEADLOCK FALSE
