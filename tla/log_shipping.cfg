\* Three files, three lines, one restart; line 2 is unacceptable to the platform.
SPECIFICATION FairSpec
CONSTANTS
  MaxLine = 3
  MaxInode = 3
  MaxRestarts = 1
  MaxBreaches = 1
  BatchSize = 2
  BodyLimit = 2
  MaxRounds = 2
  Rejected <- RejectedLines
  Unstorable <- NoLines
INVARIANTS
  TypeOK
  NeverLost
  CommittedPrefix
  DeliveredInOrder
  OnlyRejectedDropped
  NothingCommittedIsPosted
PROPERTIES
  PositionAdvances
  ImplementsDelivery
  CatchesUp
