CONSTANTS
  None = None
  u1 = u1
  u2 = u2
  o1 = o1
  o2 = o2
  c1 = c1
  Users = {u1, u2}
  Orgs = {o2}
  Channels = {c1}
  Workers = {w1}
  MembersOf <- Team
  HomeOf <- Home
  MaxFaults = 1
SPECIFICATION Spec
INVARIANTS NothingForgotten
PROPERTIES PaymentSettledFirst ErasureCompletes
CHECK_DEADLOCK FALSE
