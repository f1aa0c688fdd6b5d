\* The agent dies once, between the swap and the reload.
SPECIFICATION Spec
CONSTANTS
  c1 = c1
  c2 = c2
  bad = bad
  Config <- Configs
  ValidConfig <- GoodConfigs
  Boot = Boot
  None = None
  MaxEdits = 2
  MaxAgentDeaths = 1
  MaxTacDeaths = 0
PROPERTY
  HeartbeatTellsWhatRuns
