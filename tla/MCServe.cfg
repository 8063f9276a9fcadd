\* Blocked Takes return while handlers Give and owners give back; tasks may end.
CONSTANTS
  N = 3
  SignBit = 1
  NULL = NULL
  s1 = s1
  s2 = s2
  m1 = m1
  m2 = m2
  Sems <- MCOneSem
  Mutexes <- MCOneMutex
  BinSems <- MCOneSem
  maxCount <- MCMixedCount
  InitialCounts <- MCInitialCounts
  Delays = {0}
  TaskCalls = {"SEMAPHORE", "MUTEX_TAKE", "MUTEX_GIVE", "EXIT"}
  HandlerCalls = {"GIVE"}
  AppMasks = {}
SPECIFICATION ServedSpec
PROPERTIES
  WaiterIsServed
