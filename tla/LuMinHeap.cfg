CONSTANTS
  a = a
  b = b
  c = c
  d = d
  e = e
  f = f
  None = None
  Events = {a, b, c, d, e, f}
  Timeouts = {1, 2, 3}
  FirstCapacity = 1
SPECIFICATION Spec
SYMMETRY EventsAlike
INVARIANTS
  HeapInv
PROPERTIES
  KeepsTrack
  OrderSurvives
