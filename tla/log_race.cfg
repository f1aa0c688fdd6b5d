\* One rotation between the tailer's last read and its look at the path.
SPECIFICATION Spec
CONSTANTS
  MaxLine = 3
  MaxInode = 3
  MaxRestarts = 0
  MaxBreaches = 1
  BatchSize = 2
  BodyLimit = 2
  MaxRounds = 4
  Rejected <- NoLines
  Unstorable <- NoLines
PROPERTY RotationLosesNothing
CHECK_DEADLOCK FALSE
