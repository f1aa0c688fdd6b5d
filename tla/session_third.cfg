\* Beside the listed runs: three token pairs, one of which ages, no fault.
SPECIFICATION Spec
CONSTANTS
  t1 = t1
  t2 = t2
  root = root
  plain = plain
  Nobody = Nobody
  Tab = {t1, t2}
  User = {root, plain}
  Superuser = {root, plain}
  MaxTokens = 3
  MaxAged = 1
  MaxFaults = 0
SYMMETRY Symmetry
INVARIANTS
  TypeOK
  NeverPresentedTwice
  StoredIsLive
  LockHeldToRefresh
  ShownIsTheSignedIn
PROPERTIES
  ImplementsSignOn
  SignedOutForGood
CHECK_DEADLOCK FALSE
