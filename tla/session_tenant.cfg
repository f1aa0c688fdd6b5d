\* Beside the listed runs: the tenant of an expired superuser's session stays behind.
SPECIFICATION Spec
CONSTANTS
  t1 = t1
  t2 = t2
  root = root
  plain = plain
  Nobody = Nobody
  Tab = {t1, t2}
  User = {root, plain}
  Superuser = {root}
  MaxTokens = 2
  MaxAged = 1
  MaxFaults = 0
INVARIANTS
  TenantIsTheUsers
CHECK_DEADLOCK FALSE
