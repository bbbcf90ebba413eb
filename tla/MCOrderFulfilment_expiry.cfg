SPECIFICATION FairSpec
CONSTANTS
  l1 = l1  r1 = r1  r2 = r2
  Lines <- OneLine
  Quantity <- TwoUnits
  Requests <- TwoRequests
  Shipping = 0
  Kinds <- ExpiryKinds
  AutoApprove = TRUE
  MaxFulfillments = 2
 
PROPERTIES UndeliveredIsPaidBack OpenOrdersExpire
