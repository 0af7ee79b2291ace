CONSTANTS
  t1 = t1
  t2 = t2
  t3 = t3
  idle = idle
  Task = {t1, t2, t3, idle}
  Idle = idle
  MaxPrio = 2
  DebugAssertions = TRUE
  RoundRobin = {t1, t2, t3}
  Slice = 1
  MaxLock = 2
SYMMETRY UserTasks
SPECIFICATION Spec
INVARIANT TypeOK
INVARIANT StatesNameLists
INVARIANT ListsInOrder
INVARIANT NoneStranded
INVARIANT HighestRuns
INVARIANT TargetAlive
INVARIANT MergeIsTheLoop
PROPERTY NotPreemptedWhileLocked
PROPERTY FifoAmongEquals
