\* One iteration of a stream of two values over each backend.
CONSTANTS
  Backends = {"local", "redis", "rabbitmq"}
  Expiring = {"redis", "rabbitmq"}
  Consumers = {c1}
  MaxYields = 2
  MaxReports = 2
  MaxFaults = 1
  MaxExpiries = 1
  CancelModes = {"forget", "bounded"}
  None = None
SPECIFICATION StreamFairSpec
CHECK_DEADLOCK FALSE
INVARIANTS
  InOrder
  NoLostWakeup
  FinalProgress
PROPERTIES
  StreamKept
  EveryIterationEnds
