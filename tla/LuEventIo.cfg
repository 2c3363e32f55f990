CONSTANTS
  e1 = e1
  e2 = e2
  i1 = i1
  o1 = o1
  f0 = f0
  f1 = f1
  NoFd = NoFd
  Events = {e1, e2, o1}
  Internal = {}
  OnceStore = {o1}
  Fds = {f0}
  Zero = f0
  Sigs = {f0}
  IoKinds = {"READ", "WRITE"}
  Configs <- SharedDescriptor
  OnceConfigs <- OnceRead
  Results <- ReadOnly
  MaxPriorities = 2
  CountMax = 2
  Locking = TRUE
  ForeignLoop = TRUE
SPECIFICATION Spec
SYMMETRY UserEventsAlike
INVARIANTS
  EvmapMatchesFlags
  KernelCoversInterest
  OnceBlocksOwned
PROPERTIES
  KeepsPromise
  
  ActivationOrder
  LoopIsWoken
CHECK_DEADLOCK FALSE
