\* One line the database cannot store.
SPECIFICATION FairSpec
CONSTANTS
  MaxLine = 2
  MaxInode = 1
  MaxRestarts = 0
  MaxBreaches = 0
  BatchSize = 2
  BodyLimit = 2
  MaxRounds = 4
  Rejected <- NoLines
  Unstorable <- OneLine
PROPERTY BadLineNeverWedges
CHECK_DEADLOCK FALSE
