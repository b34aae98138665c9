SPECIFICATION FairSpec
CONSTANTS
  Orders = {o1}
  Tracked = o1
  Slots = {s1, s2}
  Idle = idle
  Asked = asked
  Failed = failed
  MaxFaults = 1
  MaxWaiting = 1
INVARIANTS
  TypeOK
  NeverAhead
PROPERTIES
  BackOnlyByRetry
  ReadyIsShown
CHECK_DEADLOCK FALSE
