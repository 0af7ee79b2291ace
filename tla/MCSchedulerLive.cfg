CONSTANTS
  t1 = t1
  t2 = t2
  t3 = t3
  idle = idle
  Task = {t1, t2, t3, idle}
  Idle = idle
  MaxPrio = 2
  DebugAssertions = TRUE
  RoundRobin = {t1, t2}
  Slice = 2
  MaxLock = 1
SPECIFICATION Spec
PROPERTY RoundRobinTurns
