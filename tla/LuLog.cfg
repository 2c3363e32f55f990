CONSTANTS
  s = s
  t = t
  f = f
  g = g
  NULL = NULL
  USER = USER
  Threads = {s, t}
  Calls <- SomeCalls
  ErrLength = 5
  Levels = {2}
  Quiet = {FALSE}
  Files = {f, g}
  OpenFails = FALSE
  Early = TRUE
  MayEnd = TRUE
SPECIFICATION Spec
INVARIANTS
  
  
  WritesOpenFiles
PROPERTIES
  MessagesEnd
CHECK_DEADLOCK FALSE
