SPECIFICATION Spec
CONSTANTS
  n1 = n1
  n2 = n2
  n3 = n3
  n4 = n4
  Nodes = {n1, n2, n3, n4}
  Learners = {n1, n2}
  View = view
  StaleView = stale
  VoterSent <- OneVote
  Expiring <- VoteTimer1
  MaxStale = 0
  Proposed = TRUE
INVARIANT CommittedCollateExecuted

