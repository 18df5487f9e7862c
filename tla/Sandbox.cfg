\* Three calls and a stream to the guest; two may be cancelled; one fault.
CONSTANTS
  Callers = {r1, r2, r3, s1}
  Streams = {s1}
  Sandbox = TRUE
  Doomed = {r1, s1}
  MaxFaults = 1
SPECIFICATION LinkFairSpec
CHECK_DEADLOCK FALSE
INVARIANTS
  OwnAnswer
  QuietBetweenRequests
PROPERTIES
  LinkKept
  EveryRequestEnds
