SPECIFICATION FairSpec
CONSTANTS
  Node = {n1, n2, n3}
  MaxRound = 5
  MaxCrash = 1
  MaxCorrupt = 0
  Lossy = FALSE
INVARIANT NoHaltWithoutLoss
PROPERTY HealthyNodesCommitEverything
