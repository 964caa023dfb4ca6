SPECIFICATION FairSpec
CONSTANTS
  Sent = {"Prepare", "Vote"}
  MaxStarts = 2
  MaxStops = 3
  CancelCap = 2
INVARIANTS TypeOK RunningIsWatched FiresOnce HangsOnlyWhenFull
PROPERTIES ImplementsTimerThread RunningIsServed StartsAreServed
CHECK_DEADLOCK FALSE
