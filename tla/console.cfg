SPECIFICATION Spec
CONSTANTS
  MaxVersion = 3
  MaxFaults = 1
INVARIANTS
  TypeOK
  OwnChangeShown
  NothingForbidden
PROPERTIES
  NeverBackwards
  PollsCatchUp
CHECK_DEADLOCK FALSE
