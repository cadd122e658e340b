CONSTANTS
  None = None
  x = x
  y = y
  h1 = h1
  h2 = h2
  Comments = {c1}
  Runners = {w1}
  Requests = {r1, r2}
  Verdicts <- EveryVerdict
  QueueVerbs = {"approve", "reject"}
  Events = {"refusal", "lostReply", "crash", "deadline", "ownerRemoval", "protected",
            "unresolved", "commitFault"}
  MaxVisits = 2
  MaxFaults = 1
  Authors = {x, y}
  Author <- Wrote
  Handles = {h1, h2}
  Holder <- Holds
  Teams = {ta, tb}
  Cap = 1
  Credits = 1
  MaxLinks = 2
  MaxAdds = 3
  MaxRuns = 1
  MaxLength = 6
  MaxRules = 3
SPECIFICATION Spec
SYMMETRY Alike
INVARIANTS VerdictsHold HandlesKept RulesExact
PROPERTY ProtectionExact
CHECK_DEADLOCK FALSE
