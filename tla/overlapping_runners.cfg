CONSTANTS
  None = None
  Comments = {c1}
  Runners = {w1, w2}
  Requests = {r1, r2}
  Verdicts <- MCHoldOrReject
  QueueVerbs = {"approve"}
  Events = {"refusal","unresolved","lostReply","crash","pause","lateWrite","commitFault"}
  MaxVisits = 1
  MaxFaults = 1
SPECIFICATION Spec
SYMMETRY MCSymmetry
INVARIANTS OneDispatcher ClaimsKept
PROPERTY FenceHolds
