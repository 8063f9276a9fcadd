\* Three tasks on a binary semaphore and a mutex; handlers Give and misuse Take.
CONSTANTS
  N = 4
  SignBit = 1
  NULL = NULL
  s1 = s1
  s2 = s2
  m1 = m1
  m2 = m2
  Sems <- MCOneSem
  Mutexes <- MCOneMutex
  BinSems <- MCOneSem
  maxCount <- MCMixedCount
  InitialCounts <- MCInitialCounts
  Delays = {0}
  TaskCalls = {"SEMAPHORE", "MUTEX_TAKE", "MUTEX_GIVE", "GIVE"}
  HandlerCalls = {"GIVE", "SEMAPHORE"}
  AppMasks = {"PRIMASK"}
SPECIFICATION Spec
INVARIANTS
  WaitRelation
  NoLostWakeup
  MutualExclusion
  SnapshotValid
  FaultOnlyOnMisuse
  TokenConservation
PROPERTIES
  FaultChangesNothing
  ImplementsFifoLock
  ImplementsFifoSemaphore
  UsesWaitLines
