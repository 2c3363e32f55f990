CONSTANTS
  NONE = NONE
  TimesOfDay <- SomeTimesOfDay
  KernelTimes <- SomeKernelTimes
  MaxSetBack = 3
SPECIFICATION TimeSpec
PROPERTIES
  NeverBack
  ElapsedShown
