\* One schedule under each scenario of MCSchedules.
CONSTANTS
  None = None
  MaxSessions = 1
  Skew = 1
  NonceTtl = 2
  RunFor = 3
  MaxQueued = 10
  Scenarios <- MCScenarios
SPECIFICATION FairSpec
CHECK_DEADLOCK FALSE
INVARIANTS
  OneChain
  StopsAfterCancel
  AcceptedOnce
  OnePin
  PairedMeansConfirmed
PROPERTIES
  CooldownKept
  ScheduleGoesOn
