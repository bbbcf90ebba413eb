SPECIFICATION Spec
CONSTANTS
  l1 = l1  r1 = r1  r2 = r2
  Lines <- OneLine
  Quantity <- TwoUnits
  Requests <- TwoRequests
  Shipping = 0
  Kinds <- ConfirmKinds
  AutoApprove = TRUE
  MaxFulfillments = 1
CHECK_DEADLOCK FALSE
PROPERTY CanceledIsPermanent
