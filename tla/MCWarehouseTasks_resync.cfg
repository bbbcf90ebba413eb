SPECIFICATION FairTasksSpec
CONSTANTS
  Stocks <- OneStock
  Lines <- TwoLines
  Orders = {1, 2}
  Variants <- OneVariant
  StockVariant <- ofStock
  StockWarehouse <- ofStock
  LineVariant <- ofLine
  OrderOf <- OwnOrder
  Ordered <- ofLine
  InitialQuantity <- TwoUnits
  HighStockFirst = FALSE
  MaxQuantity = 0
  MaxOrdered = 1
  MaxOverdraft = 0
  ReturnOnCancel = {}
INVARIANT TasksTypeOK
PROPERTY QuietCountersBecomeExact
