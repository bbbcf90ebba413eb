SPECIFICATION FairSpec
CONSTANTS
  Stocks <- TwoStocks
  Lines <- ThreeLines
  Orders = {1, 2}
  Variants <- TwoVariants
  StockVariant <- OwnVariant
  StockWarehouse <- OneWarehouse
  LineVariant <- ThreeLinesVariant
  OrderOf <- ThreeLinesOrder
  Ordered <- OneEach
  InitialQuantity <- SplitQuantity
  HighStockFirst = TRUE
  MaxQuantity = 1
  MaxOrdered = 2
  MaxOverdraft = 1
 
PROPERTIES CheckoutHonoursReservations ReservationsFit OrphansAreRemoved
