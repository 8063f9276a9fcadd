\* Every call, delays included, two tasks, a counting semaphore: blocked, sleeping,
\* masked, exited.
CONSTANTS
  N = 3
  SignBit = 1
  NULL = NULL
  s1 = s1
  s2 = s2
  m1 = m1
  m2 = m2
  Sems <- MCOneSem
  Mutexes <- MCOneMutex
  BinSems <- MCNone
  maxCount <- MCMixedCount
  InitialCounts <- MCInitialCounts
  Delays = {0, 1}
  TaskCalls = {"DELAY", "SEMAPHORE", "MUTEX_TAKE", "MUTEX_GIVE", "GIVE", "YIELD", "EXIT"}
  HandlerCalls = {"GIVE", "DELAY"}
  AppMasks = {"PRIMASK", "BASEPRI"}
SPECIFICATION Spec
INVARIANTS
  TypeOK
  IInv
  OnlyReadyExecutes
  TokenConservation
PROPERTIES
  NobodyPassedOver
