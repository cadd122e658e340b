CONSTANTS
  NoOne = NoOne
  Lost = Lost
  Channels = {1, 2}
  Runners = {r1, r2}
  LeaseTime = 2
  ManualTime = 1
  StaleTime = 2
  Cadence = 0
  SweepBatch = 1
  Events = {"preview", "hold", "pause", "reconnect", "disconnect", "crash", "late", "dberror", "budget"}
  MaxEvents = 2
  MaxPassed = 0
SPECIFICATION Spec
SYMMETRY MCSymmetry
INVARIANTS LeaseExclusive TurnOwed
PROPERTY OutcomesStand
CHECK_DEADLOCK FALSE
