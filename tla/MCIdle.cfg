\* Round robin gives the idle task its turn while others are ready.
CONSTANTS
  N = 3
  SignBit = 4
  NULL = NULL
  s1 = s1
  s2 = s2
  m1 = m1
  m2 = m2
  Sems <- MCNone
  Mutexes <- MCNone
  BinSems <- MCNone
  maxCount <- MCMixedCount
  InitialCounts <- MCInitialCounts
  Delays = {1}
  TaskCalls = {"DELAY", "YIELD"}
  HandlerCalls = {}
  AppMasks = {}
SPECIFICATION Spec
PROPERTIES
  IdleOnlyWhenNoneReady
