SPECIFICATION FairSpec
CONSTANTS
  Msgs = {m1, m2, m3}
  Receivers = {r1, r2}
  SendCap = 1
  MaxFails = 1
INVARIANTS TypeOK RegisteredIsOpen
PROPERTIES ImplementsLossyBroadcast Reconnects
CHECK_DEADLOCK FALSE
