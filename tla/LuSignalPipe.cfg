CONSTANTS
  a = a
  Bases = {a}
  Numbers = {1, 2}
  NSIG = 3
  BufferSize = 2
  PipeSize = 3
  MaxSent = 3
SPECIFICATION PipeSpec
CHECK_DEADLOCK FALSE
INVARIANTS
  PipeInv
PROPERTIES
  SignalsBecomeActive
