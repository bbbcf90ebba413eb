SPECIFICATION Spec
CONSTANTS
  Stocks <- TwoStocks
  Lines <- TwoLines
  Orders = {1, 2}
  Variants <- OneVariant
  StockVariant <- SplitVariant
  StockWarehouse <- SplitWarehouse
  LineVariant <- TwoLinesVariant
  OrderOf <- TwoLinesOrder
  Ordered <- SplitOrdered
  InitialQuantity <- SplitQuantity
  HighStockFirst = TRUE
  MaxQuantity = 0
  MaxOrdered = 2
  MaxOverdraft = 0
INVARIANTS TypeOK CounterIsExact 
PROPERTIES OverbookingNeedsOverride CheckoutHonoursReservations ReservationsFit
