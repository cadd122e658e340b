CONSTANTS
  None = None
  o1 = o1
  o2 = o2
  s1 = s1
  s2 = s2
  l1 = l1
  l2 = l2
  Orgs = {o1, o2}
  Subs = {s1, s2}
  Sessions = {l1, l2}
  OwnerOf <- Owners
  Slots = {1}
  Workers = {w1}
  Rank <- Ids
  MaxActs = 3
  MaxSeconds = 2
  MaxFaults = 1
SPECIFICATION Spec
INVARIANTS SlotsHeld BuyersAnswered PlanIsTrue
SYMMETRY SameOrg
CHECK_DEADLOCK FALSE
