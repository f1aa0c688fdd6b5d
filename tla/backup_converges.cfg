\* One device backed up by two workers; one change, one failed batch.
SPECIFICATION FairSpec
CONSTANTS
  d1 = d1
  d2 = d2
  w1 = w1
  w2 = w2
  x = x
  y = y
  Device = {d1}
  Worker = {w1, w2}
  Scope <- SameDevice
  Content = {x, y}
  Absent = Absent
  None = None
  MaxChanges = 1
  MaxFails = 1
PROPERTY Converges
