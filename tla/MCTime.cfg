\* Two tasks that delay around the limit of the comparison, over several wraps.
CONSTANTS
  N = 3
  SignBit = 4
  NULL = NULL
  s1 = s1
  s2 = s2
  m1 = m1
  m2 = m2
  Sems <- MCNone
  Mutexes <- MCNone
  BinSems <- MCNone
  maxCount <- MCMixedCount
  InitialCounts <- MCInitialCounts
  Delays = {0, 1, 4, 5, 6}
  TaskCalls = {"DELAY", "YIELD"}
  HandlerCalls = {}
  AppMasks = {}
SPECIFICATION Spec
PROPERTIES
  DelayExact
