\* Beside the listed runs: every request ends.
SPECIFICATION FairSpec
CONSTANTS
  t1 = t1
  t2 = t2
  root = root
  plain = plain
  Nobody = Nobody
  Tab = {t1, t2}
  User = {plain}
  Superuser = {}
  MaxTokens = 2
  MaxAged = 1
  MaxFaults = 1
PROPERTIES
  Settles
CHECK_DEADLOCK FALSE
