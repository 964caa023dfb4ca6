SPECIFICATION FairSpec
CONSTANTS
  Size = 2
  participant = 2
  MaxSeq = 2
INVARIANTS TypeOK OneAhead
PROPERTY FollowedUnlessMissed
CONSTRAINT FewProposals
CHECK_DEADLOCK FALSE
