CONSTANTS
  NULL = NULL
  v1 = v1
  v2 = v2
  MaxNodes = 4
  Keys <- FewKeys
  Values = {v1}
  Sizes = {0, 3}
  DefaultSize = 1
  Threshold = 2
  WordSize = 4
SPECIFICATION Spec
INVARIANTS
  TableInv
  SearchOrder
PROPERTIES
  KeepsPromise
  InsertKeepsLinks
  DeleteTakesOne
CHECK_DEADLOCK FALSE
