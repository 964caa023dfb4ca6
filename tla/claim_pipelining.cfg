SPECIFICATION FairSpec
CONSTANTS
  Size = 2
  participant = 2
  MaxSeq = 2
PROPERTY Pipelined
CHECK_DEADLOCK FALSE
