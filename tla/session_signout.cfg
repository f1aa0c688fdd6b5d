\* A sign-out while a refresh is under way.
SPECIFICATION FairSpec
CONSTANTS
  t1 = t1
  t2 = t2
  root = root
  plain = plain
  Nobody = Nobody
  Tab = {t1, t2}
  User = {plain}
  Superuser = {}
  MaxTokens = 2
  MaxAged = 1
  MaxFaults = 0
PROPERTIES
  SignedOutStays
CHECK_DEADLOCK FALSE
