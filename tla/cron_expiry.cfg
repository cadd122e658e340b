CONSTANTS
  NoOne = NoOne
  Lost = Lost
  Channels = {1, 2}
  Runners = {r1, r2}
  LeaseTime = 1
  ManualTime = 1
  StaleTime = 2
  Cadence = 1
  SweepBatch = 1
  Events = {"preview", "hold", "pause", "crash", "late", "dberror", "budget"}
  MaxEvents = 2
  MaxPassed = 8
SPECIFICATION Scheduled
INVARIANTS RotationBound
PROPERTIES PreviewsResolve
