SPECIFICATION Spec
CONSTANTS
  Node = {0, 1, 2}
  RoundLength = 2
  HaltReportDelay = 1
  CollectionDelay = 1
  DecisionDelay = 1
  RepairDelay = 2
  InstallDelays = {4, 5}
  CutoverSlack = 2
  MaxRound = 30
  LastFaultRound = 7
  MaxCrash = 2
  MaxLoss = 1
INVARIANT TypeOK
INVARIANT NoConflictingCommits
INVARIANT DigestIsOfHistory
INVARIANT GapsOnlyAtCutovers
INVARIANT NobodyComesBackWithinARun
PROPERTY CommittedEntriesSurvive
INVARIANT NoStoppedNodeIsForgotten
INVARIANT CommittedConfigHasReachedItsMembers
INVARIANT EveryoneComesBack
