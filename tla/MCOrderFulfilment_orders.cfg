SPECIFICATION Spec
CONSTANTS
  l1 = l1  r1 = r1  r2 = r2
  Lines <- OneLine
  Quantity <- OneUnit
  Requests <- TwoRequests
  Shipping = 1
  Kinds <- FulfilmentKinds
  AutoApprove = FALSE
  MaxFulfillments = 3
CHECK_DEADLOCK FALSE
SYMMETRY AnyRequest
INVARIANT TypeOK
PROPERTIES LinesFollowFulfillments ShelfFollowsFulfillments 
