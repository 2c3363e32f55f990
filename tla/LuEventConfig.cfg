CONSTANTS
  NULL = NULL
  Configs <- SomeConfigs
  Environments <- SomeEnvironments
SPECIFICATION Spec
INVARIANTS
  BaseInv
  FailureFrees

  
CHECK_DEADLOCK FALSE
