CONSTANTS
  w1 = w1
  w2 = w2
  s = s
  r = r
  Loop = Loop
  NONE = NONE
  Workers = {w1, w2}
  Events = {s, r}
  Signals = {s}
  Finalizing = {r}
  Ops <- MixedOps
  OwnOps <- MixedOwnOps
  MaxCalls = 2
  MaxChance = 1
SPECIFICATION Spec
INVARIANTS
  ThreadsInv
PROPERTIES
  
  CountersLeftAlone
  NoRunAfterDeletion
  OperationsReturn
  ActiveRuns
  
