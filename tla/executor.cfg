SPECIFICATION FairSpec
CONSTANTS
  MaxSeq = 3
  QueueCap = 2
  Blocks = {a, null}
  EpochLength = 2
INVARIANTS TypeOK Contiguous PublishedInOrder NothingLeftBehind
PROPERTIES Immutable ImplementsLedger EventuallyExecuted
