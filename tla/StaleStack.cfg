\* The call stack of the tracing after a coroutine that awaited another one.
SPECIFICATION Spec
CONSTANTS
  Programs <- StalePrograms
  Values <- MCValues
  Depth <- MCDepth
  ToJsonable <- MCToJsonable
  Resolve <- MCResolve
  Carried <- MCCarried
  None = None
INVARIANT
  EdgesAreCalls
CHECK_DEADLOCK FALSE
