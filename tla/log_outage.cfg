\* The platform is down while the log is rotated twice.
SPECIFICATION Spec
CONSTANTS
  MaxLine = 3
  MaxInode = 3
  MaxRestarts = 0
  MaxBreaches = 1
  BatchSize = 2
  BodyLimit = 2
  MaxRounds = 4
  Rejected <- NoLines
  Unstorable <- NoLines
PROPERTY OutageLosesNothing
CHECK_DEADLOCK FALSE
