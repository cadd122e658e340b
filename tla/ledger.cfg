CONSTANTS
  NoOne = NoOne
  c1 = c1
  c2 = c2
  d1 = d1
  d2 = d2
  Charges = {c1}
  Disputes = {d1}
  ChargeOf <- OneContested
  Workers = {w1, w2}
  Credits = 1
  Refs = {r1, r2}
  Periods = {1}
  Included = 1
  MaxPlanChanges = 1
  MaxFaults = 1
SPECIFICATION Spec
SYMMETRY MCSymmetry
INVARIANTS DebtBounded EventsHonoured
PROPERTIES ChargesExact KeepsPromise
CHECK_DEADLOCK FALSE
