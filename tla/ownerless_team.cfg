CONSTANTS
  None = None
  u1 = u1
  u2 = u2
  u3 = u3
  Users = {u1, u2, u3}
  Founding <- TwoOwners
  t1 = t1
  t2 = t2
  t3 = t3
  Tokens = {t1, t2, t3}
  FirstSession <- Their
  Links = {i1}
  Requests = {r1, r2}
  MaxActs = 4
SPECIFICATION Spec
INVARIANT NeverOwnerless
SYMMETRY Slots
CHECK_DEADLOCK FALSE
