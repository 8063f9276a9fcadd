\* Two threads on storage of every kind, created in any order; they write the fill pattern
\* and anything else anywhere in their stacks.
CONSTANTS
  MAX_THREADS = 2
  WordLimit = 24
  PoolStart = 8
  DEFAULT_WORDS = 4
  MIN_WORDS = 2
  GUARD_WORDS = 1
  CONTEXT_WORDS = 1
  Requests <- MCRequests
  Values = {"fill", "data"}
SPECIFICATION Spec
INVARIANTS TypeOK StacksDisjoint ContextsIntact PoolStaysUsable RingClosed UsageTruthful IInv
