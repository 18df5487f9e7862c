\* What must happen, with a graceful shutdown, a crash and a failing check.
CONSTANTS
  Tasks = {t1, t2}
  Workers = {w1}
  Concurrency = 1
  Retries = 0
  Refusable = {}
  Delayed = {}
  Throttled = {t2}
  SyncTasks = {}
  MaxSignals = 1
  MaxCrashes = 1
  FaultyCalls = {"check"}
  MaxFaults = 1
  Impatient = {}
  Cancellable = {t1}
  CancelModes = {"forever"}
  Watched = {}
  Checked = {}
SPECIFICATION FairSpec
CHECK_DEADLOCK FALSE
PROPERTIES
  EveryWaitReturns
  ChecksSurface
  RunningCancelConfirmed
  DrainEnds
  CrashEndsWait
