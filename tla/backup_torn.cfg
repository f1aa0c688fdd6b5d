\* One batch at a time, one of which fails.
SPECIFICATION Spec
CONSTANTS
  d1 = d1
  d2 = d2
  w1 = w1
  w2 = w2
  x = x
  y = y
  Device = {d1, d2}
  Worker = {w1}
  Scope <- ScheduleAlone
  Content = {x, y}
  Absent = Absent
  None = None
  MaxChanges = 1
  MaxFails = 1
INVARIANT RecordedIsCommitted
