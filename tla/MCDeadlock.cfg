\* Two mutexes taken in any order, by tasks that may end inside them: a blocked Take
\* returns unless its own application stranded it.
CONSTANTS
  N = 3
  SignBit = 1
  NULL = NULL
  s1 = s1
  s2 = s2
  m1 = m1
  m2 = m2
  Sems <- MCNone
  Mutexes <- MCTwoMutexes
  BinSems <- MCNone
  maxCount <- MCMixedCount
  InitialCounts <- MCInitialCounts
  Delays = {0}
  TaskCalls = {"MUTEX_TAKE", "MUTEX_GIVE", "EXIT"}
  HandlerCalls = {}
  AppMasks = {}
SPECIFICATION ServedSpec
PROPERTIES
  WaiterIsServed
