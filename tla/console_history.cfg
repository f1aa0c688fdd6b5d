SPECIFICATION Spec
CONSTANTS
  MaxVersion = 3
  MaxFaults = 0
PROPERTIES
  RevisionAppears
CHECK_DEADLOCK FALSE
