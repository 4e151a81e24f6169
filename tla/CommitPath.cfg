SPECIFICATION FairSpec
CONSTANTS
  StrideNamed = TRUE
  Capacity = 2
  Slots = 2
  MaxCommit = 6
  MaxStart = 2
  MaxError = 1
INVARIANT RecordsInOrder
INVARIANT ReadersOwnTheirBuffer
INVARIANT NoReceiverIsStranded
PROPERTY FullBuffersAreRead
