---------------------------- MODULE MCWarehouse ----------------------------
(***************************************************************************)
(* Instances of Warehouse for TLC.                                         *)
(***************************************************************************)
EXTENDS Warehouse

(* One variant in two warehouses, an order of two units and one of one:    *)
(* allocations and reservations are split over stocks.                     *)
OneVariant == {1}
TwoStocks == {1, 2}
SplitVariant == [s \in TwoStocks |-> 1]
SplitWarehouse == [s \in TwoStocks |-> 3 - s]
TwoLines == {1, 2}
TwoLinesVariant == [l \in TwoLines |-> 1]
TwoLinesOrder == [l \in TwoLines |-> l]
SplitOrdered == [l \in TwoLines |-> 3 - l]
SplitQuantity == [s \in TwoStocks |-> s]

(* Two variants with one stock each, an order with a line of each, and an  *)
(* order that competes for the first variant.                              *)
TwoVariants == {1, 2}
OwnVariant == [s \in TwoStocks |-> s]
OneWarehouse == [s \in TwoStocks |-> 1]
ThreeLines == {1, 2, 3}
ThreeLinesVariant == [l \in ThreeLines |-> IF l = 2 THEN 2 ELSE 1]
ThreeLinesOrder == [l \in ThreeLines |-> IF l = 3 THEN 2 ELSE 1]
OneEach == [l \in ThreeLines |-> 1]
OneUnit == [s \in TwoStocks |-> 1]
=============================================================================
