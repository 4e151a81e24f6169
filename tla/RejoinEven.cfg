SPECIFICATION Spec
CONSTANTS
  Node = {0, 1, 2, 3}
  RoundLength = 2
  HaltReportDelay = 1
  CollectionDelay = 1
  DecisionDelay = 1
  RepairDelay = 2
  InstallDelays = {4}
  CutoverSlack = 2
  MaxRound = 40
  LastFaultRound = 4
  MaxCrash = 3
  MaxLoss = 0
INVARIANT EveryoneComesBack
