SPECIFICATION FairSpec
CONSTANTS
  n1 = n1
  n2 = n2
  n3 = n3
  n4 = n4
  Nodes = {n1, n2, n3, n4}
  Learners = {n1}
  View = view
  StaleView = stale
  VoterSent <- OnlyVotes
  Expiring <- AnyTimer
  MaxStale = 1
  Timely <- Phase
  Proposed = TRUE
PROPERTY Decides

