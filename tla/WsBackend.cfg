\* Two calls, one of them with a timeout, a close() and one fault.
CONSTANTS
  Requests = {r1, r2}
  Timed = {r2}
  Doomed = {r1}
  MayClose = TRUE
  MaxFaults = 1
SPECIFICATION WsFairSpec
CHECK_DEADLOCK FALSE
INVARIANTS
  LastAttemptAnswered
  PendingIsWatched
  OneConnection
PROPERTIES
  CallsKept
  DropFailsOwn
  EveryCallEnds
