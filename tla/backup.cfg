\* Two devices, a scheduled and a manual batch; one device change, one failed batch.
SPECIFICATION Spec
CONSTANTS
  d1 = d1
  d2 = d2
  w1 = w1
  w2 = w2
  x = x
  y = y
  Device = {d1, d2}
  Worker = {w1, w2}
  Scope <- ScheduleAndManual
  Content = {x, y}
  Absent = Absent
  None = None
  MaxChanges = 1
  MaxFails = 1
SYMMETRY Symmetry
INVARIANTS
  TypeOK
  RowMatchesCommit
  FileIsCommitted
  RecordedOnce
PROPERTY ImplementsHistory
