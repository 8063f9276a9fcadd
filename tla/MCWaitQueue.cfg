\* Two queues over four nodes, one more than a queue takes: every order of calls.
CONSTANTS
  Queues = {q1, q2}
  Nodes = {a, b, c, d}
  NULL = NULL
  MaxNodes = 3
  Damages = 0
SPECIFICATION Spec
INVARIANTS TypeOK Shape
PROPERTY ImplementsWaitLine
