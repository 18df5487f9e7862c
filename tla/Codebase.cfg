\* Fifteen small programs, from their definitions to the call on a worker.
SPECIFICATION Spec
CONSTANTS
  Programs <- MCPrograms
  Values <- MCValues
  Depth <- MCDepth
  ToJsonable <- MCToJsonable
  Resolve <- MCResolve
  Carried <- MCCarried
  None = None
INVARIANTS
  RunsWhatWasSent
  VersionsRun
  ArgsArrive
  StoreIsClosed
CHECK_DEADLOCK FALSE
