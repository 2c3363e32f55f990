CONSTANTS
  s = s
  t = t
  NULL = NULL
  OUTSIDE = OUTSIDE
  Threads = {s, t}
  Codes <- AskedCodes
  Exits = TRUE
SPECIFICATION Spec
INVARIANTS
  TextsInv
  KnownAnswered
PROPERTIES
  CallsAnswered
CHECK_DEADLOCK FALSE
