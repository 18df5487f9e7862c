\* Two requests of the local backend, one of which is cancelled.
CONSTANTS
  Callers = {r1, r2}
  Streams = {}
  Sandbox = FALSE
  Doomed = {r1}
  MaxFaults = 0
SPECIFICATION LinkSpec
CHECK_DEADLOCK FALSE
INVARIANTS
  OwnAnswer
