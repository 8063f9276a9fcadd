CONSTANTS
  SignBit = 8
  NULL = NULL
  s1 = s1
  m1 = m1
  HALF_MS_STEPS = 10
  PRINT_MS = 1
SPECIFICATION Spec
INVARIANTS NoFailure EventsKept SampleMatches TokensKept NoLostUpdate
