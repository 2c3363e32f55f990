CONSTANTS
  NULL = NULL
  p = p
  q = q
  PoolSize = 12
  HeaderSize = 7
  DataSize = 4
  NodeSize = 2
  Align = 2
  MaxFromPool = 4
  Patience = 0
  ReuseLimit = 0
  WordSize = 64
  Sizes = {3, 4}
  MaxBlocks = 4
  Pieces = {p, q}
SPECIFICATION Spec
SYMMETRY PiecesAlike
INVARIANTS
  RegionsApart
  PoolInv
CHECK_DEADLOCK FALSE
