CONSTANTS
  e1 = e1
  e2 = e2
  i1 = i1
  o1 = o1
  f0 = f0
  f1 = f1
  NoFd = NoFd
  Events = {e1, i1}
  Internal = {i1}
  OnceStore = {}
  Fds = {f0, f1}
  Zero = f0
  Sigs = {f0}
  IoKinds = {"READ"}
  Configs <- EveryKind
  OnceConfigs <- OnceRead
  Results <- SignalOnly
  MaxPriorities = 3
  CountMax = 2
  Locking = TRUE
  ForeignLoop = TRUE
SPECIFICATION Spec
INVARIANTS
  IInv
PROPERTIES
  KeepsPromise
CHECK_DEADLOCK FALSE
