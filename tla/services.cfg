CONSTANTS
  None = None
  MaxFaults = 1
  u1 = u1
  u2 = u2
  u3 = u3
  t1 = t1
  t2 = t2
  t3 = t3
  a1 = a1
  p1 = p1
  p2 = p2
  Workers = {w1, w2}
  People = {u1, u2, u3}
  Tokens = {t1, t2, t3}
  Links = {i1}
  Founding <- TwoOwners
  FirstSession <- Their
  MaxActs = 3
  Orgs = {o1, o2}
  Notice = 1
  Grace = 3
  MaxClock = 5
  MaxMoney = 1
  Horizon = 3
  First = 2
  NeedsAI = {2, 3}
  PageSize = 1
  MaxScans = 1
  MaxTopups = 1
  MaxClaims = 1
  LastUser = 2
  Requests = {q1, q2}
  Signups = {2}
  MaxTries = 2
  MaxTokens = 3
  Last = 2
  Funds = 1
  MaxToggles = 1
  Attempts = {a1}
  Payments = {p1, p2}
  Pays <- OneCheckout
  MaxSettlements = 3
  MaxPlanChanges = 1
  MaxResumes = 1
  Empty = Empty
  Keys = {ka, kb, Empty}
  Size = 3
  MaxThemes = 2
  Threshold = 2
  Visitors = {b1, b2}
  Pending = 2
  MaxFlows = 2
  MaxTurns = 1
  MaxRows = 2
SPECIFICATION Spec
INVARIANTS TeamKeepsOwner ChannelKept RecurrenceTrue PreviewCovers MailKept MercadoKept SignInKept
PROPERTIES NeverErasedUnwarned RescanCovers TraversalCovers
SYMMETRY Alike
CHECK_DEADLOCK FALSE
