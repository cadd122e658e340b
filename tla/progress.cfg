CONSTANTS
  None = None
  Comments = {c1, c2}
  Runners = {w1}
  Requests = {r1}
  Verdicts <- MCHoldOrReject
  QueueVerbs = {"approve"}
  Events = {"crash", "ownerRemoval", "commitFault"}
  MaxVisits = 1
  MaxFaults = 1
SPECIFICATION FairSpec
PROPERTIES IntentDecided ActionResolves
