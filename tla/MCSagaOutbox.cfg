SPECIFICATION FairSpec
CONSTANTS
  ann = ann
  apple = apple
  bread = bread
  k1 = k1
  Attempts = {a1}
  Students = {ann}
  Items = {apple, bread}
  Keys = {k1}
  None = none
  NoRequest = nothing
  Requests <- AnnsRetries
  Stocked <- OneEach
  Price <- OneApiece
  Opening <- TwoOfOpening
  Prompt = TRUE
PROPERTY PaidReachesKitchen
CHECK_DEADLOCK FALSE
