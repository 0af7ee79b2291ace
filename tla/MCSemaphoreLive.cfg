CONSTANTS
  t1 = t1
  t2 = t2
  t3 = t3
  idle = idle
  lock = lock
  event = event
  None = None
  Task = {t1, t2, idle}
  Idle = idle
  MaxPrio = 1
  DebugAssertions = TRUE
  Sem = {event}
  Mutex = {}
  SEM_VALUE_MAX = 1
  MaxLock = 1
  DeleteBlocked = FALSE
SPECIFICATION FairSpec
PROPERTY TimedWaitEnds
