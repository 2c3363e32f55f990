CONSTANTS
  e1 = e1
  e2 = e2
  i1 = i1
  o1 = o1
  f0 = f0
  f1 = f1
  NoFd = NoFd
  Events = {e1}
  Internal = {}
  OnceStore = {}
  Fds = {f0}
  Zero = f0
  Sigs = {f0}
  IoKinds = {"READ"}
  Configs <- OnlyRead
  OnceConfigs <- OnceRead
  Results <- ReadOrTimeout
  MaxPriorities = 2
  CountMax = 2
  Locking = TRUE
  ForeignLoop = TRUE
SPECIFICATION Spec
PROPERTY ReschedulingKeepsEvent
CHECK_DEADLOCK FALSE
