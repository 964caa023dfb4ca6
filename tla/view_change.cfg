SPECIFICATION FairSpec
CONSTANTS
  Size = 4
  participant = 2
  LateReset = 1
  Learners = {2}
  MaxSeq = 2
  Watched <- MCWatched
  MaxNewViews = 2
  OthersSent <- MCOthersSent
INVARIANTS TypeOK NewViewOnce NewViewJustified MinorityHarmless HolesAreClaimed
PROPERTIES LossIsOrdered CandidateAnswers DeafUntilNewView
CHECK_DEADLOCK FALSE
