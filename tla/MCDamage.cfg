\* Two fields overwritten at any time, in two queues over three nodes.
CONSTANTS
  Queues = {q1, q2}
  Nodes = {a, b, c}
  NULL = NULL
  MaxNodes = 3
  Damages = 2
SYMMETRY MCSymmetry
SPECIFICATION DamagedSpec
INVARIANT ValidateExact
PROPERTY IntactStaysIntact
