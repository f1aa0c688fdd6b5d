\* Two calls that read the same change.
SPECIFICATION FairSpec
CONSTANTS
  alice = alice
  bob = bob
  d1 = d1
  d2 = d2
  c1 = c1
  c2 = c2
  Nobody = Nobody
  User = {alice, bob}
  Requester = alice
  Writer = {alice}
  Approver = {alice, bob}
  Device = {d1}
  Call = {c1, c2}
  MaxTasks = 2
  MaxFaults = 1
PROPERTIES
  FollowsWorkflow
CHECK_DEADLOCK FALSE
