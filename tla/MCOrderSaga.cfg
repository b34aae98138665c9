SPECIFICATION FairSpec
CONSTANTS
  ann = ann
  apple = apple
  bread = bread
  k1 = k1
  Attempts = {a1, a2}
  Students = {ann}
  Items = {apple, bread}
  Keys = {k1}
  None = none
  NoRequest = nothing
  Requests <- AnnsOrders
  Stocked <- OneAppleTwoBreads
  Price <- OneApiece
  Opening <- ThreeOfOpening
  Prompt = TRUE
INVARIANTS
  TypeOK
  JobsAreFunded
  SoldIsPaid
PROPERTIES
  RepeatIsReplayed
  HoldsSettle
CHECK_DEADLOCK FALSE
