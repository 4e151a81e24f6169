SPECIFICATION ScenarioSpec
CONSTANTS
  Node = {0, 1, 2}
  RoundLength = 4
  HaltReportDelay = 10
  CollectionDelay = 20
  DecisionDelay = 15
  RepairDelay = 50
  InstallDelays = {20}
  CutoverSlack = 10
  MaxRound = 58
  MaxFaults = 3
  Runs <- MCRuns
INVARIANT ScenariosEndAsDocumented
INVARIANT CampaignFindsNoViolation
INVARIANT OneFaultStopsOneNode
