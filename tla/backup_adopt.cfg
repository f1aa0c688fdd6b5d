\* Two batches of one device, neither of which fails.
SPECIFICATION Spec
CONSTANTS
  d1 = d1
  d2 = d2
  w1 = w1
  w2 = w2
  x = x
  y = y
  Device = {d1}
  Worker = {w1, w2}
  Scope <- SameDevice
  Content = {x, y}
  Absent = Absent
  None = None
  MaxChanges = 1
  MaxFails = 0
PROPERTY AdoptedMatches
