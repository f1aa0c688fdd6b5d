\* One valid configuration and one tac_plus-ng -P refuses, over the booted one; two edits, one death each.
SPECIFICATION FairSpec
CONSTANTS
  c1 = c1
  c2 = c2
  bad = bad
  Config <- TwoConfigs
  ValidConfig <- OneGood
  Boot = Boot
  None = None
  MaxEdits = 2
  MaxAgentDeaths = 1
  MaxTacDeaths = 1
INVARIANTS
  TypeOK
  LiveFileFit
  Consistent
  ErrorKeepsConfig
PROPERTIES
  ImplementsRollout
  DeployIsAnswered
