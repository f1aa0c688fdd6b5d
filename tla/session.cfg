\* Two tabs, two users who may act elsewhere, two token pairs that age, one fault.
SPECIFICATION Spec
CONSTANTS
  t1 = t1
  t2 = t2
  root = root
  plain = plain
  Nobody = Nobody
  Tab = {t1, t2}
  User = {root, plain}
  Superuser = {root, plain}
  MaxTokens = 2
  MaxAged = 2
  MaxFaults = 1
SYMMETRY Symmetry
INVARIANTS
  TypeOK
  NeverPresentedTwice
  StoredIsLive
  LockHeldToRefresh
  ShownIsTheSignedIn
PROPERTIES
  ImplementsSignOn
  SignedOutForGood
CHECK_DEADLOCK FALSE
