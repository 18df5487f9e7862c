\* cancel() with its default timeout, and result(), on one handle.
CONSTANTS
  Tasks = {t1}
  Workers = {w1}
  Concurrency = 1
  Retries = 0
  Refusable = {}
  Delayed = {}
  Throttled = {}
  SyncTasks = {}
  MaxSignals = 0
  MaxCrashes = 0
  FaultyCalls = {}
  MaxFaults = 0
  Impatient = {}
  Cancellable = {t1}
  CancelModes = {"bounded"}
  Watched = {}
  Checked = {}
SPECIFICATION FairSpec
CHECK_DEADLOCK FALSE
PROPERTIES
  CancelledWaitReturns
