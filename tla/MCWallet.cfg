SPECIFICATION FairSpec
CONSTANTS
  ann = ann
  bob = bob
  t1 = t1
  t2 = t2
  o1 = o1
  u1 = u1
  u2 = u2
  Students = {ann, bob}
  Topups = {u1, u2}
  Orders = {o1}
  Keys = {k1}
  Amounts = {3}
  Threads = {t1, t2}
  None = none
  Opening <- OneOfOpening
  Customer <- AnnsOrders
  Total <- TotalOfTwo
  MaxFaults = 1
INVARIANTS
  TypeOK
  LedgerChains
  BookedOnce
  OneTopupPerKey
PROPERTIES
  CancelledNotDebited
  SettledForGood
  RequestsAnswered
  ImplementsAccounts
CHECK_DEADLOCK FALSE
