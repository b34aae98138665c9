SPECIFICATION FairSpec
CONSTANTS
  Orders = {o1}
  Workers = {w1, w2}
  NoOrder = none
  MaxFaults = 2
INVARIANTS
  TypeOK
PROPERTIES
  PaidMovesForward
  AnnouncedOnce
  PaidIsCooked
  ImplementsFeed
CHECK_DEADLOCK FALSE
