CONSTANTS
  t1 = t1
  t2 = t2
  t3 = t3
  idle = idle
  lock = lock
  event = event
  None = None
  Task = {t1, t2, idle}
  Idle = idle
  MaxPrio = 2
  DebugAssertions = TRUE
  Sem = {lock, event}
  Mutex = {lock}
  SEM_VALUE_MAX = 2
  MaxLock = 1
  DeleteBlocked = FALSE
SPECIFICATION Spec
INVARIANT TypeOK
INVARIANT WaitsemWhileWaiting
INVARIANT CountsWaiters
INVARIANT TimeoutsInTimedWaits
PROPERTY WakesHighest
PROPERTY CountingSpec
