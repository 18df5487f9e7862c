\* Two tasks share one slot of one worker that is told to stop, twice, or dies.
CONSTANTS
  Tasks = {t1, t2}
  Workers = {w1}
  Concurrency = 1
  Retries = 1
  Refusable = {t2}
  Delayed = {t2}
  Throttled = {t1}
  SyncTasks = {}
  MaxSignals = 2
  MaxCrashes = 1
  FaultyCalls = {}
  MaxFaults = 0
  Impatient = {}
  Cancellable = {t1}
  CancelModes = {"forget"}
  Watched = {}
  Checked = {}
SPECIFICATION Spec
CHECK_DEADLOCK FALSE
INVARIANTS
  TypeOK
  SlotAccounting
  NoSilentLoss
  DrainAnswersAll
  NoHeartbeatAfterResult
