\* A delay whose wake-up time lies more than half the counter range ahead.
CONSTANTS
  N = 3
  SignBit = 4
  NULL = NULL
  s1 = s1
  s2 = s2
  m1 = m1
  m2 = m2
  Sems <- MCNone
  Mutexes <- MCNone
  BinSems <- MCNone
  maxCount <- MCMixedCount
  InitialCounts <- MCInitialCounts
  Delays = {1, 7}
  TaskCalls = {"DELAY", "YIELD"}
  HandlerCalls = {}
  AppMasks = {}
SPECIFICATION Spec
PROPERTIES
  DelayNeverEarly
