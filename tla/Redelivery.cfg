\* Two workers whose listening connections may break, stop or die.
CONSTANTS
  Tasks = {t1, t2}
  Workers = {w1, w2}
  Concurrency = 1
  Retries = 0
  Refusable = {}
  Delayed = {}
  Throttled = {}
  SyncTasks = {}
  MaxSignals = 1
  MaxCrashes = 1
  FaultyCalls = {"listen"}
  MaxFaults = 1
  Impatient = {}
  Cancellable = {}
  CancelModes = {}
  Watched = {}
  Checked = {}
SPECIFICATION Spec
CHECK_DEADLOCK FALSE
INVARIANTS
  AtMostOneCopy
  OneLossPerConnection
