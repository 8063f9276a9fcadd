\* Round robin and delays under fair interrupts; tasks mask and unmask.
CONSTANTS
  N = 3
  SignBit = 1
  NULL = NULL
  s1 = s1
  s2 = s2
  m1 = m1
  m2 = m2
  Sems <- MCOneSem
  Mutexes <- MCNone
  BinSems <- MCOneSem
  maxCount <- MCMixedCount
  InitialCounts <- MCInitialCounts
  Delays = {0, 1}
  TaskCalls = {"DELAY", "SEMAPHORE", "GIVE", "EXIT"}
  HandlerCalls = {"GIVE"}
  AppMasks = {"PRIMASK"}
SPECIFICATION FairSpec
PROPERTIES
  ReadyIsDispatched
  DelayReturns
