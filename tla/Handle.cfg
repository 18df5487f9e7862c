\* One task and every coroutine a client may run on its handle.
CONSTANTS
  Tasks = {t1}
  Workers = {w1}
  Concurrency = 1
  Retries = 1
  Refusable = {}
  Delayed = {}
  Throttled = {t1}
  SyncTasks = {t1}
  MaxSignals = 1
  MaxCrashes = 1
  FaultyCalls = {"check", "send", "record", "listen"}
  MaxFaults = 1
  Impatient = {t1}
  Cancellable = {t1}
  CancelModes = {"forget", "bounded", "forever"}
  Watched = {t1}
  Checked = {t1}
SPECIFICATION Spec
CHECK_DEADLOCK FALSE
PROPERTIES
  StallIsReal
  PromiseKept
