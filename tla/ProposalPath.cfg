SPECIFICATION FairSpec
CONSTANTS
  SlotPerRecord = TRUE
  Region = 3
  Slots = 2
  Beats = 2
  MaxRecord = 4
  MaxError = 1
INVARIANT SentAsFetched
INVARIANT PromisedAreOnTheirWay
PROPERTY EveryProposalIsSent
