------------------------------ MODULE LedgerProofs ----------------------------
(***************************************************************************)
(* Proofs about what the stock ledger owes: the loops of deallocate_stock  *)
(* and _create_allocations find exactly the units they are asked for, so   *)
(* an order's allocations are what is still to be fulfilled of it; and     *)
(* what one step may do to the units of a stock.                           *)
(***************************************************************************)
EXTENDS WarehouseProofs

(* deallocate_stock releases n[l] units of a line, or all it has.          *)
LEMMA ReleasedInAll ==
  ASSUME allocation \in Rows, NEW L \in SUBSET Lines, NEW n,
         \A l \in L : n[l] \in Nat, NEW l \in L
  PROVE  SumOver(Released(n, L)[l], Stocks) = Least(n[l], SumOver(allocation[l], Stocks))
<1> DEFINE a == allocation[l]
           m == n[l]
           before == [s \in Stocks |-> {t \in Stocks : t < s}]
           take == Released(n, L)[l]
<1>1. a \in [Stocks -> Nat] /\ m \in Nat /\ IsFiniteSet(Stocks) /\ Stocks \subseteq Nat
  BY DataModel DEF Rows
<1>2. take \in [Stocks -> Nat]
  <2>1. \A k \in L : n[k] \in Int
    OBVIOUS
  <2>2. Released(n, L) \in [L -> [Stocks -> Nat]]
    BY <2>1, ReleasedFacts
  <2> QED BY <2>2
<1>3. \A s \in Stocks : take[s] = AtLeastZero(Least(a[s], m - SumOver(a, before[s])))
  BY DEF Released
<1>4. Sorts(before, Stocks)
  <2>1. \A x \in Stocks : before[x] = {t \in Stocks : t < x}
    OBVIOUS
  <2>2. before \in [Stocks -> SUBSET Stocks]
    OBVIOUS
  <2>3. \A x, y \in Stocks : x # y => x < y \/ y < x
    BY <1>1
  <2>4. \A x, y, z \in Stocks : z < x /\ x < y => z < y
    BY <1>1
  <2>5. \A x \in Stocks : ~(x < x)
    BY <1>1
  <2> HIDE DEF before
  <2> QED BY <2>1, <2>2, <2>3, <2>4, <2>5 DEF Sorts
<1> HIDE DEF a, m, before, take
<1>5. SumOver(take, Stocks) = Least(m, SumOver(a, Stocks))
  <2>1. m \in Nat /\ a \in [Stocks -> Nat] /\ IsFiniteSet(Stocks)
    BY <1>1
  <2> QED BY ONLY <2>1, <1>2, <1>3, <1>4, GreedyTakesAll
<1> QED BY <1>5 DEF take, m, a

(* After deallocate_stock a line has the units less that were asked for.   *)
LEMMA DeallocatedInAll ==
  ASSUME TypeOK, NEW L \in SUBSET Lines, NEW n, \A l \in L : n[l] \in Nat,
         Deallocate(n, L), NEW l \in L, n[l] <= SumOver(allocation[l], Stocks)
  PROVE  SumOver(allocation'[l], Stocks) = SumOver(allocation[l], Stocks) - n[l]
<1> DEFINE d == Released(n, L)[l]
           a == allocation[l]
           b == allocation'[l]
<1>1. allocation \in Rows /\ \A k \in L : n[k] \in Int
  BY DEF TypeOK, Rows
<1>2. d \in [Stocks -> Nat] /\ \A s \in Stocks : d[s] <= a[s]
  BY <1>1, ReleasedFacts
<1>3. a \in [Stocks -> Nat] /\ IsFiniteSet(Stocks)
  BY <1>1, DataModel DEF Rows
<1>4. b = [s \in Stocks |-> a[s] - d[s]]
  BY DEF Deallocate
<1>5. SumOver(d, Stocks) = Least(n[l], SumOver(a, Stocks))
  BY <1>1, ReleasedInAll
<1>6. n[l] \in Nat /\ n[l] <= SumOver(a, Stocks)
  OBVIOUS
<1> HIDE DEF d, a, b
<1>7. b \in [Stocks -> Nat] /\ \A s \in Stocks : a[s] = b[s] + d[s]
  BY <1>2, <1>3, <1>4
<1>8. SumOver(a, Stocks) = SumOver(b, Stocks) + SumOver(d, Stocks)
  BY <1>2, <1>3, <1>7, SumOfTwo
<1>9. SumOver(a, Stocks) \in Nat /\ SumOver(b, Stocks) \in Nat
  BY <1>3, <1>7, SumIsNat
<1>10. SumOver(b, Stocks) = SumOver(a, Stocks) - n[l]
  BY <1>5, <1>6, <1>8, <1>9 DEF Least
<1> QED BY <1>10 DEF a, b

(* sort_stocks leaves no two stocks of one variant unordered.              *)
LEMMA SortedStocks ==
  ASSUME TypeOK, NEW v, NEW seen \in [Stocks -> Int],
         NEW before, before = [s \in StocksOf(v) |->
                                 {t \in StocksOf(v) : Precedes(t, s, seen)}]
  PROVE  Sorts(before, StocksOf(v))
<1> DEFINE left(s) == quantity[s] - seen[s]
           S == StocksOf(v)
<1>1. \A s \in S : left(s) \in Int /\ s \in Nat /\ StockWarehouse[s] \in Nat
  BY DataModel DEF TypeOK, StocksOf
<1>2. \A t, s \in S : Precedes(t, s, seen) <=>
        IF HighStockFirst THEN left(t) > left(s) \/ (left(t) = left(s) /\ t < s)
        ELSE StockWarehouse[t] < StockWarehouse[s]
  BY DEF Precedes
<1>3. \A x, y \in S : StockWarehouse[x] = StockWarehouse[y] => x = y
  BY OneStockPerWarehouse DEF StocksOf
<1>4. \A y \in S : before[y] = {t \in S : Precedes(t, y, seen)}
  OBVIOUS
<1>5. before \in [S -> SUBSET S]
  OBVIOUS
<1> HIDE DEF left, S
<1>6. \A x \in S : ~Precedes(x, x, seen)
  BY <1>1, <1>2
<1>7. \A x, y \in S : x # y => Precedes(x, y, seen) \/ Precedes(y, x, seen)
  BY <1>1, <1>2, <1>3
<1>8. \A x, y, z \in S : Precedes(z, x, seen) /\ Precedes(x, y, seen)
                         => Precedes(z, y, seen)
  BY <1>1, <1>2
<1>9. \A x \in S : x \notin before[x]
  BY <1>4, <1>6
<1>10. \A x, y \in S : x # y => x \in before[y] \/ y \in before[x]
  BY <1>4, <1>7
<1>11. \A x, y \in S : x \in before[y] => before[x] \subseteq before[y]
  BY <1>4, <1>8
<1> QED BY <1>5, <1>9, <1>10, <1>11 DEF S, Sorts

(* The loop finds the n units that the check before it has counted.        *)
LEMMA PickedInAll ==
  ASSUME TypeOK, NEW n \in Nat, NEW v, NEW free \in [Stocks -> Int],
         NEW seen \in [Stocks -> Int], Enough(n, v, free)
  PROVE  SumOver(Pick(n, v, free, seen), Stocks) = n
<1> DEFINE S == StocksOf(v)
           a == [s \in S |-> AtLeastZero(free[s])]
           before == [s \in S |-> {t \in S : Precedes(t, s, seen)}]
           take == [s \in S |-> Pick(n, v, free, seen)[s]]
<1>1. IsFiniteSet(S) /\ S \subseteq Stocks
  BY DataModel, FS_Subset DEF StocksOf
<1>2. a \in [S -> Nat]
  BY <1>1 DEF AtLeastZero
<1>3. Sorts(before, S)
  BY SortedStocks
<1>4. Pick(n, v, free, seen) \in [Stocks -> Nat]
  BY PickFacts
<1>5. take \in [S -> Nat]
  BY <1>1, <1>4
<1>6. \A T \in SUBSET S : SumOver(Usable(free), T) = SumOver(a, T)
  <2> SUFFICES ASSUME NEW T \in SUBSET S
               PROVE  SumOver(Usable(free), T) = SumOver(a, T)
    OBVIOUS
  <2>1. \A x \in T : Usable(free)[x] = a[x]
    BY <1>1 DEF Usable
  <2> QED BY <2>1, SumSame
<1>7. \A s \in S : take[s] = AtLeastZero(Least(a[s], n - SumOver(a, before[s])))
  <2> SUFFICES ASSUME NEW s \in S
               PROVE  take[s] = AtLeastZero(Least(a[s], n - SumOver(a, before[s])))
    OBVIOUS
  <2>1. before[s] \in SUBSET S
    BY <1>3 DEF Sorts
  <2> DEFINE m == SumOver(a, before[s])
  <2>2. m = SumOver(Usable(free), before[s])
    BY <1>6, <2>1
  <2>3. m \in Nat
    <3> HIDE DEF a, before, S
    <3> QED BY <1>1, <1>2, <2>1, SumIsNat
  <2>4. take[s] = AtLeastZero(Least(free[s], n - m))
    BY <1>1, <2>2 DEF Pick
  <2>5. a[s] = AtLeastZero(free[s]) /\ free[s] \in Int
    BY <1>1
  <2> HIDE DEF m, a, take
  <2>6. AtLeastZero(Least(free[s], n - m)) = AtLeastZero(Least(a[s], n - m))
    BY <2>3, <2>5 DEF AtLeastZero, Least
  <2> QED BY <2>4, <2>6 DEF m
<1>8. SumOver(a, S) >= n
  BY <1>6 DEF Enough
<1>9. \A s \in S : Pick(n, v, free, seen)[s] = take[s]
  OBVIOUS
<1>10. \A s \in Stocks \ S : Pick(n, v, free, seen)[s] = 0
  BY DEF Pick
<1> HIDE DEF S, a, before, take
<1>11. SumOver(take, S) = Least(n, SumOver(a, S))
  BY ONLY <1>1, <1>2, <1>3, <1>5, <1>7, n \in Nat, GreedyTakesAll
<1>12. SumOver(a, S) \in Nat
  BY <1>1, <1>2, SumIsNat
<1>13. SumOver(take, S) = n
  BY <1>8, <1>11, <1>12 DEF Least
<1>14. SumOver(Pick(n, v, free, seen), S) = SumOver(take, S)
  BY <1>9, SumSame
<1>15. SumOver(Pick(n, v, free, seen), Stocks) = SumOver(Pick(n, v, free, seen), S)
  BY <1>1, <1>10, SumOfPart
<1> QED BY <1>13, <1>14, <1>15

-----------------------------------------------------------------------------
(* OwedInvariant, one line at a time.                                      *)
LineOwes(l) ==
  /\ ~IsOrder(OrderOf[l]) =>
       /\ line_quantity[l] = Ordered[l]
       /\ \A s \in Stocks : shipped[l][s] = 0
  /\ ~IsOrder(OrderOf[l]) \/ stage[OrderOf[l]] = "placed" =>
       quantity_fulfilled[l] = 0
  /\ IsOrder(OrderOf[l]) => SumOver(allocation[l], Stocks) = Unfulfilled(l)

LEMMA OwedByLines ==
  /\ OwedInvariant <=> TypeOK /\ \A l \in Lines : LineOwes(l)
  /\ OwedInvariant' <=> TypeOK' /\ \A l \in Lines : LineOwes(l)'
BY DEF OwedInvariant, NothingShippedYet, OwedIsAllocated, LineOwes

(* A line none of whose rows change owes what it owed, unless a checkout   *)
(* becomes an order.                                                       *)
LEMMA OwedUntouched ==
  ASSUME NEW l \in Lines, LineOwes(l),
         allocation'[l] = allocation[l], line_quantity'[l] = line_quantity[l],
         quantity_fulfilled'[l] = quantity_fulfilled[l], shipped'[l] = shipped[l],
         IsOrder(OrderOf[l])' <=> IsOrder(OrderOf[l]),
         stage'[OrderOf[l]] = "placed" => stage[OrderOf[l]] = "placed"
  PROVE  LineOwes(l)'
BY DEF LineOwes, Unfulfilled

(* Steps that move the orders on, and nothing else of the lines.           *)
LEMMA SameLinesStillOwed ==
  ASSUME OwedInvariant, TypeOK', UNCHANGED <<allocation, lines>>,
         \A o \in Orders : /\ IsOrder(o)' <=> IsOrder(o)
                           /\ stage'[o] = "placed" => stage[o] = "placed"
  PROVE  OwedInvariant'
<1>1. ASSUME NEW l \in Lines PROVE LineOwes(l)'
  <2>1. LineOwes(l) /\ OrderOf[l] \in Orders
    BY OwedByLines, DataModel
  <2> QED BY <2>1, OwedUntouched DEF lines
<1> QED BY <1>1, OwedByLines

LEMMA CompleteCheckoutOwes ==
  ASSUME OwedInvariant, TypeOK', NEW o \in Orders, CompleteCheckout(o)
  PROVE  OwedInvariant'
<1> DEFINE mine == LinesOf(o)
           seen == [s \in Stocks |-> 0]
           held == HeldByOthers(mine)
           free == [s \in Stocks |-> quantity[s] - seen[s] - held[s]]
           enough == CanAllocate(Ordered, mine, seen, held)
           picked == ToAllocate(Ordered, mine, seen, held)
<1>1. TypeOK /\ \A l \in Lines : LineOwes(l)
  BY OwedByLines
<1>2. /\ allocation' = [l \in Lines |-> IF enough /\ l \in mine
                                        THEN picked[l] ELSE allocation[l]]
      /\ stage[o] = "checked"
      /\ stage' = [stage EXCEPT ![o] = IF enough THEN "placed" ELSE "refused"]
      /\ UNCHANGED lines
  BY DEF CompleteCheckout
<1>3. stage \in [Orders -> Stages] /\ \A l \in Lines : OrderOf[l] \in Orders
  BY <1>1, DataModel DEF TypeOK
<1>4. seen \in [Stocks -> Int] /\ free \in [Stocks -> Int]
  <2>1. reservation \in Rows /\ quantity \in [Stocks -> Int]
    BY <1>1 DEF TypeOK, Rows
  <2> QED BY <2>1, LiveReservedIsNat DEF HeldByOthers
<1>5. ASSUME NEW l \in mine, enough
      PROVE  SumOver(picked[l], Stocks) = Ordered[l]
  <2>1. Ordered[l] \in Nat
    BY DataModel DEF LinesOf
  <2>2. Enough(Ordered[l], LineVariant[l], free)
    BY <1>5 DEF CanAllocate
  <2>3. picked[l] = Pick(Ordered[l], LineVariant[l], free, seen)
    BY DEF ToAllocate
  <2> HIDE DEF seen, held, free, picked, mine
  <2> QED BY <1>1, <1>4, <2>1, <2>2, <2>3, PickedInAll
<1>6. \A l \in Lines : l \in mine <=> OrderOf[l] = o
  BY DEF LinesOf
<1> HIDE DEF mine, seen, held, free, enough, picked
<1>7. ASSUME NEW l \in Lines PROVE LineOwes(l)'
  <2>1. CASE l \in mine /\ enough
    <3>1. allocation'[l] = picked[l]
      BY <1>2, <2>1
    <3>2. stage'[OrderOf[l]] = "placed" /\ IsOrder(OrderOf[l])'
      BY <1>2, <1>3, <1>6, <2>1 DEF IsOrder
    <3>3. ~IsOrder(OrderOf[l])
      BY <1>2, <1>6, <2>1 DEF IsOrder
    <3>4. line_quantity'[l] = Ordered[l] /\ quantity_fulfilled'[l] = 0
      BY <1>1, <1>2, <3>3 DEF LineOwes, lines
    <3>5. Ordered[l] \in Nat
      BY DataModel
    <3>6. Unfulfilled(l)' = Ordered[l]
      BY <3>4, <3>5 DEF Unfulfilled
    <3> QED BY <1>5, <2>1, <3>1, <3>2, <3>4, <3>6 DEF LineOwes
  <2>2. CASE ~(l \in mine /\ enough)
    <3>1. allocation'[l] = allocation[l]
      BY <1>2, <2>2
    <3>2. /\ IsOrder(OrderOf[l])' <=> IsOrder(OrderOf[l])
          /\ stage'[OrderOf[l]] = "placed" => stage[OrderOf[l]] = "placed"
      BY <1>2, <1>3, <1>6, <2>2 DEF IsOrder
    <3> QED BY <1>1, <1>2, <3>1, <3>2, OwedUntouched DEF lines
  <2> QED BY <2>1, <2>2
<1> QED BY <1>7, OwedByLines

(* Fulfilling n[l] units of lines L of an order gives up their allocations. *)
LEMMA FulfilledIsDeallocated ==
  ASSUME OwedInvariant, TypeOK', NEW o \in Orders, IsOrder(o), IsOrder(o)',
         stage'[o] # "placed", \A p \in Orders \ {o} : stage'[p] = stage[p],
         NEW L \in SUBSET LinesOf(o), NEW n,
         \A l \in L : n[l] \in Nat /\ n[l] <= Unfulfilled(l),
         Deallocate(n, L), line_quantity' = line_quantity,
         \A l \in L : quantity_fulfilled'[l] = quantity_fulfilled[l] + n[l],
         \A l \in Lines \ L : /\ quantity_fulfilled'[l] = quantity_fulfilled[l]
                              /\ shipped'[l] = shipped[l]
  PROVE  OwedInvariant'
<1>1. TypeOK /\ \A l \in Lines : LineOwes(l)
  BY OwedByLines
<1>2. L \in SUBSET Lines /\ \A l \in L : OrderOf[l] = o
  BY DEF LinesOf
<1>3. ASSUME NEW l \in Lines PROVE LineOwes(l)'
  <2>1. CASE l \in L
    <3>1. SumOver(allocation[l], Stocks) = Unfulfilled(l)
      BY <1>1, <1>2, <2>1 DEF LineOwes
    <3>2. SumOver(allocation'[l], Stocks) = Unfulfilled(l) - n[l]
      BY <1>1, <1>2, <2>1, <3>1, DeallocatedInAll
    <3>3. Unfulfilled(l)' = Unfulfilled(l) - n[l]
      <4>1. line_quantity[l] \in Nat /\ quantity_fulfilled[l] \in Int /\ n[l] \in Nat
        BY <1>1, <2>1 DEF TypeOK
      <4> QED BY <2>1, <4>1 DEF Unfulfilled
    <3> QED BY <1>2, <2>1, <3>2, <3>3 DEF LineOwes
  <2>2. CASE l \notin L
    <3>1. allocation'[l] = allocation[l]
      BY <2>2 DEF Deallocate
    <3>2. /\ IsOrder(OrderOf[l])' <=> IsOrder(OrderOf[l])
          /\ stage'[OrderOf[l]] = "placed" => stage[OrderOf[l]] = "placed"
      BY DataModel DEF IsOrder
    <3> QED BY <1>1, <2>2, <3>1, <3>2, OwedUntouched
  <2> QED BY <2>1, <2>2
<1> QED BY <1>3, OwedByLines

LEMMA IncreaseAllocationsOwes ==
  ASSUME OwedInvariant, TypeOK', NEW l \in Lines, NEW n \in Nat,
         IncreaseAllocations(l, n)
  PROVE  OwedInvariant'
<1> DEFINE others == [s \in Stocks |-> Allocated(s) - allocation[l][s]]
           none == [s \in Stocks |-> 0]
           free == [s \in Stocks |-> quantity[s] - others[s] - none[s]]
           total == n + SumOver(allocation[l], Stocks)
           needed == [k \in {l} |-> total]
           picked == ToAllocate(needed, {l}, others, none)[l]
<1>1. TypeOK /\ \A k \in Lines : LineOwes(k)
  BY OwedByLines
<1>2. allocation[l] \in [Stocks -> Nat] /\ allocation \in Rows
  BY <1>1 DEF TypeOK, Rows
<1>3. SumOver(allocation[l], Stocks) \in Nat
  BY <1>2, SumIsNat, DataModel
<1>4. others \in [Stocks -> Int] /\ free \in [Stocks -> Int]
  <2>1. \A s \in Stocks : Allocated(s) \in Nat
    BY <1>2, AllocatedIsNat
  <2> QED BY <1>1, <1>2, <2>1 DEF TypeOK
<1>5. SumOver(picked, Stocks) = total
  <2>1. total \in Nat
    BY <1>3
  <2>2. Enough(total, LineVariant[l], free)
    BY DEF IncreaseAllocations, CanAllocate
  <2>3. picked = Pick(total, LineVariant[l], free, others)
    BY DEF ToAllocate
  <2> HIDE DEF others, none, free, total, picked
  <2> QED BY <1>1, <1>4, <2>1, <2>2, <2>3, PickedInAll
<1>6. /\ stage[OrderOf[l]] = "placed"
      /\ allocation' = [allocation EXCEPT ![l] = picked]
      /\ line_quantity' = [line_quantity EXCEPT ![l] = @ + n]
      /\ UNCHANGED <<stage, quantity_fulfilled, shipped>>
  BY DEF IncreaseAllocations
<1> HIDE DEF picked
<1>7. ASSUME NEW k \in Lines PROVE LineOwes(k)'
  <2>1. CASE k = l
    <3>1. IsOrder(OrderOf[l])
      BY <1>6 DEF IsOrder
    <3>2. SumOver(allocation[l], Stocks) = Unfulfilled(l)
      BY <1>1, <3>1 DEF LineOwes
    <3>3. allocation'[l] = picked
      BY <1>2, <1>6 DEF Rows
    <3>4. Unfulfilled(l)' = Unfulfilled(l) + n
      BY <1>1, <1>6 DEF Unfulfilled, TypeOK
    <3>5. SumOver(allocation'[l], Stocks) = Unfulfilled(l)'
      BY <1>3, <1>5, <3>2, <3>3, <3>4
    <3>6. quantity_fulfilled'[l] = 0
      BY <1>1, <1>6 DEF LineOwes
    <3> QED BY <1>6, <2>1, <3>1, <3>5, <3>6 DEF LineOwes, IsOrder
  <2>2. CASE k # l
    <3>1. allocation'[k] = allocation[k] /\ line_quantity'[k] = line_quantity[k]
      BY <1>1, <1>6, <2>2 DEF TypeOK
    <3> QED BY <1>1, <1>6, <3>1, OwedUntouched DEF IsOrder
  <2> QED BY <2>1, <2>2
<1> QED BY <1>7, OwedByLines

LEMMA DecreaseAllocationsOwes ==
  ASSUME OwedInvariant, TypeOK', NEW l \in Lines, NEW n \in Nat,
         DecreaseAllocations(l, n)
  PROVE  OwedInvariant'
<1> DEFINE amount == [k \in {l} |-> n]
           L == {l}
<1>1. TypeOK /\ \A k \in Lines : LineOwes(k)
  BY OwedByLines
<1>2. /\ stage[OrderOf[l]] = "placed" /\ n <= line_quantity[l]
      /\ Deallocate(amount, L)
      /\ line_quantity' = [line_quantity EXCEPT ![l] = @ - n]
      /\ UNCHANGED <<stage, quantity_fulfilled, shipped>>
  BY DEF DecreaseAllocations
<1>3. line_quantity \in [Lines -> Nat] /\ quantity_fulfilled \in [Lines -> Int]
  BY <1>1 DEF TypeOK
<1>4. /\ IsOrder(OrderOf[l]) /\ quantity_fulfilled[l] = 0
      /\ SumOver(allocation[l], Stocks) = line_quantity[l]
  BY <1>1, <1>2, <1>3 DEF LineOwes, IsOrder, Unfulfilled
<1>5. \A k \in Lines \ {l} : allocation'[k] = allocation[k]
  BY <1>2 DEF Deallocate
<1>6. SumOver(allocation'[l], Stocks) = line_quantity[l] - n
  <2>1. /\ L \in SUBSET Lines /\ \A k \in L : amount[k] \in Nat
        /\ l \in L /\ amount[l] = n /\ n <= SumOver(allocation[l], Stocks)
    BY <1>2, <1>4
  <2> HIDE DEF amount, L
  <2>2. SumOver(allocation'[l], Stocks) = SumOver(allocation[l], Stocks) - amount[l]
    BY <1>1, <1>2, <2>1, DeallocatedInAll
  <2> QED BY <1>4, <2>1, <2>2
<1>7. ASSUME NEW k \in Lines PROVE LineOwes(k)'
  <2>1. CASE k = l
    <3>1. quantity_fulfilled'[l] = 0 /\ line_quantity'[l] = line_quantity[l] - n
      BY <1>2, <1>3, <1>4
    <3>2. Unfulfilled(l)' = line_quantity[l] - n
      BY <1>3, <3>1 DEF Unfulfilled
    <3> QED BY <1>2, <1>4, <1>6, <2>1, <3>1, <3>2 DEF LineOwes, IsOrder
  <2>2. CASE k # l
    BY <1>1, <1>2, <1>3, <1>5, <2>2, OwedUntouched DEF IsOrder
  <2> QED BY <2>1, <2>2
<1> QED BY <1>7, OwedByLines

(* Restocked units are allocated again, and their order is open again.     *)
LEMMA RestockOwes ==
  ASSUME OwedInvariant, TypeOK', NEW l \in Lines, NEW n \in Nat \ {0},
         NEW from \in Stocks, NEW to \in Stocks, RestockFulfillment(l, from, to, n)
  PROVE  OwedInvariant'
<1>1. TypeOK /\ \A k \in Lines : LineOwes(k)
  BY OwedByLines
<1>2. /\ shipped[l][from] >= n
      /\ allocation' = [allocation EXCEPT ![l][to] = @ + n]
      /\ quantity_fulfilled' = [quantity_fulfilled EXCEPT ![l] = @ - n]
      /\ shipped' = [shipped EXCEPT ![l][from] = @ - n]
      /\ stage' = [stage EXCEPT ![OrderOf[l]] = "confirmed"]
      /\ line_quantity' = line_quantity
  BY DEF RestockFulfillment
<1>3. /\ stage \in [Orders -> Stages] /\ allocation \in Rows /\ shipped \in Rows
      /\ quantity_fulfilled \in [Lines -> Int] /\ line_quantity \in [Lines -> Nat]
      /\ \A k \in Lines : OrderOf[k] \in Orders
  BY <1>1, DataModel DEF TypeOK, Rows
<1>4. IsOrder(OrderOf[l])
  BY <1>1, <1>2, <1>3 DEF LineOwes
<1>5. \A o \in Orders : /\ IsOrder(o)' <=> IsOrder(o)
                        /\ stage'[o] = "placed" => stage[o] = "placed"
  BY <1>2, <1>3, <1>4 DEF IsOrder
<1>6. stage'[OrderOf[l]] # "placed" /\ IsOrder(OrderOf[l])'
  BY <1>2, <1>3 DEF IsOrder
<1>7. SumOver(allocation'[l], Stocks) = SumOver(allocation[l], Stocks) + n
  <2> DEFINE a == allocation[l]
             b == allocation'[l]
  <2>1. a \in [Stocks -> Nat] /\ b = [a EXCEPT ![to] = @ + n] /\ IsFiniteSet(Stocks)
    BY <1>2, <1>3, DataModel DEF Rows
  <2> HIDE DEF a, b
  <2>2. b \in [Stocks -> Nat] /\ b[to] = a[to] + n /\ \A s \in Stocks \ {to} : a[s] = b[s]
    BY <2>1
  <2>3. SumOver(b, Stocks) = SumOver(a, Stocks) - a[to] + b[to]
    <3>1. /\ IsFiniteSet(Stocks) /\ a \in [Stocks -> Nat] /\ b \in [Stocks -> Nat]
          /\ to \in Stocks /\ \A s \in Stocks \ {to} : a[s] = b[s]
      BY <2>1, <2>2
    <3> QED BY ONLY <3>1, SumOneChanged
  <2>4. SumOver(a, Stocks) \in Nat /\ a[to] \in Nat
    BY <2>1, SumIsNat
  <2>5. SumOver(b, Stocks) = SumOver(a, Stocks) + n
    BY <2>2, <2>3, <2>4
  <2> QED BY <2>5 DEF a, b
<1>8. ASSUME NEW k \in Lines PROVE LineOwes(k)'
  <2>1. CASE k = l
    <3>1. SumOver(allocation[l], Stocks) = Unfulfilled(l)
      BY <1>1, <1>4 DEF LineOwes
    <3>2. Unfulfilled(l)' = Unfulfilled(l) + n
      BY <1>2, <1>3 DEF Unfulfilled
    <3> QED BY <1>6, <1>7, <2>1, <3>1, <3>2 DEF LineOwes
  <2>2. CASE k # l
    <3>1. /\ allocation'[k] = allocation[k] /\ shipped'[k] = shipped[k]
          /\ quantity_fulfilled'[k] = quantity_fulfilled[k]
      BY <1>2, <1>3, <2>2 DEF Rows
    <3> QED BY <1>1, <1>2, <1>3, <1>5, <3>1, OwedUntouched
  <2> QED BY <2>1, <2>2
<1> QED BY <1>8, OwedByLines

LEMMA ReturnOwes ==
  ASSUME OwedInvariant, TypeOK', NEW l \in Lines, NEW n \in Nat \ {0},
         NEW s \in Stocks, ReturnProducts(l, s, n)
  PROVE  OwedInvariant'
<1>1. TypeOK /\ \A k \in Lines : LineOwes(k)
  BY OwedByLines
<1>2. /\ shipped[l][s] >= n
      /\ shipped' = [shipped EXCEPT ![l][s] = @ - n]
      /\ UNCHANGED <<allocation, stage, line_quantity, quantity_fulfilled>>
  BY DEF ReturnProducts
<1>3. shipped \in Rows
  BY <1>1 DEF TypeOK, Rows
<1>4. IsOrder(OrderOf[l])
  BY <1>1, <1>2 DEF LineOwes
<1>5. ASSUME NEW k \in Lines PROVE LineOwes(k)'
  <2>1. CASE k = l
    <3>1. IsOrder(OrderOf[l])' /\ Unfulfilled(l)' = Unfulfilled(l)
      BY <1>2, <1>4 DEF IsOrder, Unfulfilled
    <3>2. /\ SumOver(allocation'[l], Stocks) = Unfulfilled(l)
          /\ stage'[OrderOf[l]] = "placed" => quantity_fulfilled'[l] = 0
      BY <1>1, <1>2, <1>4 DEF LineOwes
    <3> QED BY <2>1, <3>1, <3>2 DEF LineOwes
  <2>2. CASE k # l
    BY <1>1, <1>2, <1>3, <2>2, OwedUntouched DEF IsOrder, Rows
  <2> QED BY <2>1, <2>2
<1> QED BY <1>5, OwedByLines

LEMMA OwedStep ==
  ASSUME OwedInvariant, [Next]_vars
  PROVE  OwedInvariant'
<1>1. TypeOK
  BY DEF OwedInvariant
<1>2. TypeOK'
  BY <1>1, TypeStep
<1>3. stage \in [Orders -> Stages]
  BY <1>1 DEF TypeOK
<1>4. ASSUME NEW o \in Orders, NEW next \in {"reserving", "checked"},
             CheckStock(o, next)
      PROVE  OwedInvariant'
  <2>1. \A p \in Orders : /\ IsOrder(p)' <=> IsOrder(p)
                          /\ stage'[p] = "placed" => stage[p] = "placed"
    BY <1>3, <1>4 DEF CheckStock, IsOrder
  <2> QED BY <1>2, <1>4, <2>1, SameLinesStillOwed DEF CheckStock, rows
<1>5. ASSUME NEW o \in Orders, ReserveStocks(o)
      PROVE  OwedInvariant'
  <2>1. \A p \in Orders : /\ IsOrder(p)' <=> IsOrder(p)
                          /\ stage'[p] = "placed" => stage[p] = "placed"
    BY <1>3, <1>5 DEF ReserveStocks, IsOrder
  <2> QED BY <1>2, <1>5, <2>1, SameLinesStillOwed DEF ReserveStocks, rows
<1>6. ASSUME NEW o \in Orders, ReservationsExpire(o)
      PROVE  OwedInvariant'
  BY <1>2, <1>6, SameLinesStillOwed DEF ReservationsExpire, rows, IsOrder
<1>7. ASSUME NEW o \in Orders, CompleteCheckout(o)
      PROVE  OwedInvariant'
  BY <1>2, <1>7, CompleteCheckoutOwes
<1>8. ASSUME NEW o \in Orders, ConfirmOrder(o)
      PROVE  OwedInvariant'
  <2>1. \A p \in Orders : /\ IsOrder(p)' <=> IsOrder(p)
                          /\ stage'[p] = "placed" => stage[p] = "placed"
    BY <1>3, <1>8 DEF ConfirmOrder, IsOrder
  <2> QED BY <1>2, <1>8, <2>1, SameLinesStillOwed DEF ConfirmOrder, rows
<1>9. ASSUME NEW o \in Orders, NEW w, NEW ship \in Amounts(o), NEW exceed,
             DecreaseStock(o, w, ship, exceed)
      PROVE  OwedInvariant'
  <2> DEFINE sent == {l \in LinesOf(o) : ship[l] > 0}
             At(l) == {s \in StocksOf(LineVariant[l]) : StockWarehouse[s] = w}
  <2>1. sent \in SUBSET LinesOf(o) /\ sent \in SUBSET Lines
    BY DEF LinesOf
  <2>2. /\ \A l \in sent : ship[l] \in Nat /\ ship[l] <= Unfulfilled(l)
        /\ Deallocate(ship, sent) /\ line_quantity' = line_quantity
    BY <1>9 DEF Amounts, DecreaseStock
  <2>3. /\ IsOrder(o) /\ IsOrder(o)' /\ stage'[o] # "placed"
        /\ \A p \in Orders \ {o} : stage'[p] = stage[p]
    BY <1>3, <1>9 DEF DecreaseStock, IsOrder
  <2>4. \A l \in Lines : quantity_fulfilled'[l] =
                           quantity_fulfilled[l] + IF l \in sent THEN ship[l] ELSE 0
    BY <1>9 DEF DecreaseStock
  <2>5. shipped' = [l \in Lines |-> [s \in Stocks |->
           shipped[l][s] + IF l \in sent /\ s \in At(l) THEN ship[l] ELSE 0]]
    BY <1>9 DEF DecreaseStock
  <2> HIDE DEF sent, At
  <2>6. quantity_fulfilled \in [Lines -> Int] /\ shipped \in Rows
    BY <1>1 DEF TypeOK, Rows
  <2>7. \A l \in Lines \ sent : quantity_fulfilled'[l] = quantity_fulfilled[l]
    BY <2>4, <2>6
  <2>8. \A l \in Lines \ sent : shipped'[l] = shipped[l]
    BY <2>5, <2>6 DEF Rows
  <2>9. \A l \in sent : quantity_fulfilled'[l] = quantity_fulfilled[l] + ship[l]
    BY <2>1, <2>4
  <2> QED BY <1>2, <2>1, <2>2, <2>3, <2>7, <2>8, <2>9, FulfilledIsDeallocated
<1>10. ASSUME NEW o \in Orders, NEW move \in Amounts(o), NEW closes,
              MoveToFulfillment(o, move, closes)
       PROVE  OwedInvariant'
  <2> DEFINE mine == LinesOf(o)
  <2>1. mine \in SUBSET LinesOf(o) /\ mine \in SUBSET Lines
    BY DEF LinesOf
  <2>2. /\ \A l \in mine : move[l] \in Nat /\ move[l] <= Unfulfilled(l)
        /\ Deallocate(move, mine) /\ line_quantity' = line_quantity
        /\ shipped' = shipped
    BY <1>10 DEF Amounts, MoveToFulfillment
  <2>3. /\ IsOrder(o) /\ IsOrder(o)' /\ stage'[o] # "placed"
        /\ \A p \in Orders \ {o} : stage'[p] = stage[p]
    BY <1>3, <1>10 DEF MoveToFulfillment, IsOrder
  <2>4. \A l \in Lines : quantity_fulfilled'[l] =
                           quantity_fulfilled[l] + IF l \in mine THEN move[l] ELSE 0
    BY <1>10 DEF MoveToFulfillment
  <2> HIDE DEF mine
  <2>5. quantity_fulfilled \in [Lines -> Int]
    BY <1>1 DEF TypeOK
  <2>6. \A l \in Lines \ mine : quantity_fulfilled'[l] = quantity_fulfilled[l]
    BY <2>4, <2>5
  <2>7. \A l \in mine : quantity_fulfilled'[l] = quantity_fulfilled[l] + move[l]
    BY <2>1, <2>4
  <2> QED BY <1>2, <2>1, <2>2, <2>3, <2>6, <2>7, FulfilledIsDeallocated
<1>11. \A n \in 1..MaxOrdered : n \in Nat \ {0}
  BY DataModel
<1>12. ASSUME NEW l \in Lines, NEW n \in 1..MaxOrdered, IncreaseAllocations(l, n)
       PROVE  OwedInvariant'
  BY <1>2, <1>11, <1>12, IncreaseAllocationsOwes
<1>13. ASSUME NEW l \in Lines, NEW n \in 1..MaxOrdered, DecreaseAllocations(l, n)
       PROVE  OwedInvariant'
  BY <1>2, <1>11, <1>13, DecreaseAllocationsOwes
<1>14. ASSUME NEW l \in Lines, NEW n \in 1..MaxOrdered, NEW s \in Stocks,
              ReturnProducts(l, s, n)
       PROVE  OwedInvariant'
  BY <1>2, <1>11, <1>14, ReturnOwes
<1>15. ASSUME NEW l \in Lines, NEW n \in 1..MaxOrdered,
              NEW from \in Stocks, NEW to \in Stocks,
              RestockFulfillment(l, from, to, n)
       PROVE  OwedInvariant'
  BY <1>2, <1>11, <1>15, RestockOwes
<1>16. ASSUME NEW s \in Stocks, NEW n \in 0..MaxQuantity, SetQuantity(s, n)
       PROVE  OwedInvariant'
  BY <1>2, <1>16, SameLinesStillOwed DEF SetQuantity, IsOrder
<1>17. CASE DeleteExpiredReservations
  BY <1>2, <1>17, SameLinesStillOwed DEF DeleteExpiredReservations, rows, IsOrder
<1>18. CASE UNCHANGED vars
  BY <1>2, <1>18, SameLinesStillOwed DEF vars, lines, IsOrder
<1> QED BY <1>4, <1>5, <1>6, <1>7, <1>8, <1>9, <1>10, <1>12, <1>13, <1>14, <1>15,
           <1>16, <1>17, <1>18 DEF Next

LEMMA OwedInit == Init => OwedInvariant
<1> SUFFICES ASSUME Init PROVE OwedInvariant
  OBVIOUS
<1>1. TypeOK
  BY TypeInit
<1>2. ASSUME NEW l \in Lines PROVE LineOwes(l)
  <2>1. ~IsOrder(OrderOf[l])
    BY DataModel DEF Init, IsOrder
  <2> QED BY <2>1 DEF Init, LineOwes
<1> QED BY <1>1, <1>2, OwedByLines

(* What is allocated to a line of an order is exactly what has not been    *)
(* fulfilled of it, after any sequence of requests and for any data,       *)
(* several lines of one variant in an order included: the loops of         *)
(* allocate_stocks, increase_allocations and deallocate_stock always find  *)
(* the units that the calling code has counted on.                         *)
THEOREM AllocatedUntilFulfilled == Spec => []OwedIsAllocated
<1>1. OwedInvariant /\ [Next]_vars => OwedInvariant'
  BY OwedStep
<1>2. OwedInvariant => OwedIsAllocated
  BY DEF OwedInvariant
<1> QED BY OwedInit, <1>1, <1>2, PTL DEF Spec

(* Both sides of the ledger hold together when no order has two lines of   *)
(* one variant.                                                            *)
THEOREM LedgerIsSound ==
  ASSUME DistinctVariants
  PROVE  Spec => []LedgerInvariant
<1>1. LedgerInvariant /\ [Next]_vars => LedgerInvariant'
  BY CounterStep, OwedStep DEF LedgerInvariant
<1>2. Init => LedgerInvariant
  BY CounterInit, OwedInit DEF LedgerInvariant
<1> QED BY <1>1, <1>2, PTL DEF Spec

-----------------------------------------------------------------------------
(* What one step may do to the units of a stock.                           *)

(* No loop takes more from a stock than it has free.                       *)
LEMMA PickedIsFree ==
  ASSUME NEW n \in Int, NEW v, NEW free \in [Stocks -> Int], NEW seen, NEW s \in Stocks,
         Pick(n, v, free, seen)[s] > 0
  PROVE  Pick(n, v, free, seen)[s] <= free[s]
<1> DEFINE m == SumOver(Usable(free), {t \in StocksOf(v) : Precedes(t, s, seen)})
           p == Pick(n, v, free, seen)[s]
<1>1. p = IF s \in StocksOf(v) THEN AtLeastZero(Least(free[s], n - m)) ELSE 0
  BY DEF Pick
<1>2. m \in Nat
  <2>1. Usable(free) \in [Stocks -> Nat]
    BY DEF Usable, AtLeastZero
  <2>2. {t \in StocksOf(v) : Precedes(t, s, seen)} \in SUBSET Stocks
    BY DEF StocksOf
  <2> HIDE DEF Usable
  <2> QED BY <2>1, <2>2, SumIsNat, DataModel
<1> HIDE DEF m, p
<1>3. p > 0
  BY DEF p
<1>4. p <= free[s]
  BY <1>1, <1>2, <1>3 DEF AtLeastZero, Least
<1> QED BY <1>4 DEF p

(* Smaller allocations free units.                                         *)
LEMMA AllocatedShrinks ==
  ASSUME allocation \in Rows, allocation' \in Rows, NEW s \in Stocks,
         \A l \in Lines : allocation'[l][s] <= allocation[l][s]
  PROVE  Allocated(s)' <= Allocated(s)
<1> DEFINE f == Column(allocation', s)
           g == Column(allocation, s)
<1>1. f \in [Lines -> Nat] /\ g \in [Lines -> Nat] /\ \A l \in Lines : f[l] <= g[l]
  BY DEF Column, Rows
<1>2. Allocated(s)' = SumOver(f, Lines) /\ Allocated(s) = SumOver(g, Lines)
  BY DEF Allocated, Column
<1>3. IsFiniteSet(Lines)
  BY DataModel
<1> HIDE DEF f, g
<1>4. SumOver(f, Lines) <= SumOver(g, Lines)
  BY <1>1, <1>3, SumIsMonotone
<1> QED BY <1>2, <1>4

(* When one allocation of a stock changes, Allocated follows it.           *)
LEMMA AllocatedFollows ==
  ASSUME allocation \in Rows, allocation' \in Rows, NEW s \in Stocks, NEW x \in Lines,
         \A l \in Lines \ {x} : allocation'[l][s] = allocation[l][s]
  PROVE  Allocated(s)' = Allocated(s) - allocation[x][s] + allocation'[x][s]
<1>1. Allocated(s)' = SumOver(Column(allocation', s), Lines)
      /\ Allocated(s) = SumOver(Column(allocation, s), Lines)
  BY DEF Allocated, Column
<1> QED BY <1>1, ColumnSumOneChanged

Overbooks(s) ==
  Free(s)' < Free(s) /\ Free(s)' < 0 =>
    \/ \E o \in Orders : CompleteCheckout(o)
    \/ \E o \in Orders, w \in {StockWarehouse[t] : t \in Stocks} :
         \E ship \in Amounts(o) : DecreaseStock(o, w, ship, TRUE)
    \/ \E n \in 0..MaxQuantity : SetQuantity(s, n)

(* A step that deallocates, and takes no unit away, frees units.           *)
LEMMA DeallocationFrees ==
  ASSUME TypeOK, TypeOK', NEW s \in Stocks,
         \A l \in Lines : allocation'[l][s] <= allocation[l][s],
         quantity'[s] >= quantity[s]
  PROVE  Free(s)' >= Free(s)
<1>1. allocation \in Rows /\ allocation' \in Rows
  BY DEF TypeOK, Rows
<1>2. Allocated(s)' <= Allocated(s)
  BY <1>1, AllocatedShrinks
<1>3. Allocated(s) \in Nat /\ Allocated(s)' \in Nat
  BY <1>1, ColumnSumIsNat DEF Allocated, Column
<1>4. quantity[s] \in Int /\ quantity'[s] \in Int
  BY DEF TypeOK
<1> QED BY <1>2, <1>3, <1>4 DEF Free

LEMMA IncreaseTakesFreeUnits ==
  ASSUME TypeOK, TypeOK', NEW l \in Lines, NEW n \in Nat, IncreaseAllocations(l, n),
         NEW s \in Stocks
  PROVE  Free(s)' >= Free(s) \/ Free(s)' >= 0
<1> DEFINE others == [t \in Stocks |-> Allocated(t) - allocation[l][t]]
           none == [t \in Stocks |-> 0]
           free == [t \in Stocks |-> quantity[t] - others[t] - none[t]]
           total == n + SumOver(allocation[l], Stocks)
           needed == [k \in {l} |-> total]
           picked == ToAllocate(needed, {l}, others, none)[l]
<1>1. allocation \in Rows /\ allocation' \in Rows /\ allocation[l] \in [Stocks -> Nat]
  BY DEF TypeOK, Rows
<1>2. \A t \in Stocks : Allocated(t) \in Nat
  BY <1>1, AllocatedIsNat
<1>3. total \in Int /\ free \in [Stocks -> Int]
  <2>1. SumOver(allocation[l], Stocks) \in Nat
    BY <1>1, SumIsNat, DataModel
  <2> QED BY <1>1, <1>2, <2>1 DEF TypeOK
<1>4. picked = Pick(total, LineVariant[l], free, others)
  BY DEF ToAllocate
<1>5. allocation' = [allocation EXCEPT ![l] = picked] /\ quantity' = quantity
  BY DEF IncreaseAllocations
<1>6. free[s] = quantity[s] - (Allocated(s) - allocation[l][s])
  BY <1>1, <1>2 DEF TypeOK
<1> HIDE DEF others, none, free, total, picked
<1>7. picked[s] > 0 => picked[s] <= free[s]
  BY <1>3, <1>4, PickedIsFree
<1>8. picked[s] \in Nat
  BY <1>3, <1>4, PickFacts
<1>9. Allocated(s)' = Allocated(s) - allocation[l][s] + picked[s]
  BY <1>1, <1>5, AllocatedFollows DEF Rows
<1>10. quantity[s] \in Int /\ Allocated(s) \in Nat /\ allocation[l][s] \in Nat
  BY <1>1, <1>2 DEF TypeOK
<1> QED BY <1>5, <1>6, <1>7, <1>8, <1>9, <1>10 DEF Free

LEMMA RestockFreesNothing ==
  ASSUME TypeOK, TypeOK', NEW l \in Lines, NEW n \in Nat, NEW from \in Stocks,
         NEW to \in Stocks, RestockFulfillment(l, from, to, n), NEW s \in Stocks
  PROVE  Free(s)' = Free(s)
<1>1. allocation \in Rows /\ allocation' \in Rows /\ quantity \in [Stocks -> Int]
  BY DEF TypeOK, Rows
<1>2. /\ quantity' = [quantity EXCEPT ![to] = @ + n]
      /\ allocation' = [allocation EXCEPT ![l][to] = @ + n]
  BY DEF RestockFulfillment
<1>3. \A k \in Lines \ {l} : allocation'[k][s] = allocation[k][s]
  BY <1>1, <1>2 DEF Rows
<1>4. Allocated(s)' = Allocated(s) - allocation[l][s] + allocation'[l][s]
  BY <1>1, <1>3, AllocatedFollows
<1>5. /\ allocation'[l][s] = allocation[l][s] + IF s = to THEN n ELSE 0
      /\ allocation[l][s] \in Nat
  BY <1>1, <1>2 DEF Rows
<1>6. quantity'[s] = quantity[s] + IF s = to THEN n ELSE 0
  BY <1>1, <1>2
<1>7. Allocated(s) \in Nat /\ quantity[s] \in Int
  BY <1>1, AllocatedIsNat
<1> QED BY <1>4, <1>5, <1>6, <1>7 DEF Free

(* decrease_stock with its check: what is taken fits, and where nothing is *)
(* taken units can only become free.                                       *)
LEMMA CheckedShipmentFits ==
  ASSUME TypeOK, TypeOK', NEW o \in Orders, NEW w, NEW ship \in Amounts(o),
         DecreaseStock(o, w, ship, FALSE), NEW s \in Stocks
  PROVE  Free(s)' >= Free(s) \/ Free(s)' >= 0
<1> DEFINE sent == {l \in LinesOf(o) : ship[l] > 0}
           At(l) == {t \in StocksOf(LineVariant[l]) : StockWarehouse[t] = w}
           taken == [t \in Stocks |-> SumOver(ship, {l \in sent : t \in At(l)})]
<1>1. /\ Deallocate(ship, sent)
      /\ taken[s] > 0 => quantity[s] - Allocated(s)' >= taken[s]
      /\ quantity' = [t \in Stocks |-> quantity[t] - taken[t]]
  BY DEF DecreaseStock
<1>2. taken[s] \in Nat
  <2> DEFINE T == {l \in sent : s \in At(l)}
  <2>1. ship \in [LinesOf(o) -> Nat] /\ IsFiniteSet(LinesOf(o)) /\ T \in SUBSET LinesOf(o)
    BY DataModel, FS_Subset DEF Amounts, LinesOf
  <2> HIDE DEF T
  <2>2. SumOver(ship, T) \in Nat
    BY <2>1, SumIsNat
  <2> QED BY <2>2 DEF T
<1>3. sent \in SUBSET Lines /\ \A l \in sent : ship[l] \in Int
  BY DEF Amounts, LinesOf
<1> HIDE DEF sent, At, taken
<1>4. \A l \in Lines, t \in Stocks : allocation'[l][t] <= allocation[l][t]
  BY <1>1, <1>3, DeallocateTypes
<1>5. allocation' \in Rows /\ quantity[s] \in Int /\ quantity'[s] = quantity[s] - taken[s]
  BY <1>1 DEF TypeOK, Rows
<1>6. CASE taken[s] = 0
  BY <1>2, <1>4, <1>5, <1>6, DeallocationFrees
<1>7. CASE taken[s] > 0
  <2>1. Allocated(s)' \in Nat
    BY <1>5, ColumnSumIsNat DEF Allocated, Column
  <2> QED BY <1>1, <1>2, <1>5, <1>7, <2>1 DEF Free
<1> QED BY <1>2, <1>6, <1>7

LEMMA StepOverbooks ==
  ASSUME TypeOK, [Next]_vars, NEW s \in Stocks
  PROVE  Overbooks(s)
<1>1. TypeOK'
  BY TypeStep
<1>2. Free(s) \in Int /\ Free(s)' \in Int
  <2>1. allocation \in Rows /\ allocation' \in Rows
    BY <1>1 DEF TypeOK, Rows
  <2>2. Allocated(s) \in Nat /\ Allocated(s)' \in Nat
    BY <2>1, ColumnSumIsNat DEF Allocated, Column
  <2> QED BY <1>1, <2>2 DEF TypeOK, Free
<1>3. ASSUME Free(s)' >= Free(s) \/ Free(s)' >= 0 PROVE Overbooks(s)
  BY <1>2, <1>3 DEF Overbooks
<1>4. ASSUME quantity' = quantity, allocation' = allocation PROVE Overbooks(s)
  <2>1. Free(s)' = Free(s)
    BY <1>4 DEF Free, Allocated
  <2> QED BY <1>2, <1>3, <2>1
<1>5. ASSUME NEW o \in Orders, NEW next \in {"reserving", "checked"},
             CheckStock(o, next)
      PROVE  Overbooks(s)
  BY <1>4, <1>5 DEF CheckStock, rows
<1>6. ASSUME NEW o \in Orders, ReserveStocks(o) PROVE Overbooks(s)
  BY <1>4, <1>6 DEF ReserveStocks, rows
<1>7. ASSUME NEW o \in Orders, ReservationsExpire(o) PROVE Overbooks(s)
  BY <1>4, <1>7 DEF ReservationsExpire, rows
<1>8. ASSUME NEW o \in Orders, CompleteCheckout(o) PROVE Overbooks(s)
  BY <1>8 DEF Overbooks
<1>9. ASSUME NEW o \in Orders, ConfirmOrder(o) PROVE Overbooks(s)
  BY <1>4, <1>9 DEF ConfirmOrder, rows
<1>10. ASSUME NEW o \in Orders, NEW w \in {StockWarehouse[t] : t \in Stocks},
              NEW ship \in Amounts(o), NEW exceed \in BOOLEAN,
              DecreaseStock(o, w, ship, exceed)
       PROVE  Overbooks(s)
  <2>1. CASE exceed = TRUE
    BY <1>10, <2>1 DEF Overbooks
  <2>2. CASE exceed = FALSE
    BY <1>1, <1>3, <1>10, <2>2, CheckedShipmentFits
  <2> QED BY <2>1, <2>2
<1>11. ASSUME NEW o \in Orders, NEW move \in Amounts(o), NEW closes,
              MoveToFulfillment(o, move, closes)
       PROVE  Overbooks(s)
  <2>1. LinesOf(o) \in SUBSET Lines /\ \A l \in LinesOf(o) : move[l] \in Int
    BY DEF Amounts, LinesOf
  <2>2. Deallocate(move, LinesOf(o)) /\ quantity' = quantity
    BY <1>11 DEF MoveToFulfillment
  <2>3. \A l \in Lines, t \in Stocks : allocation'[l][t] <= allocation[l][t]
    BY <2>1, <2>2, DeallocateTypes
  <2>4. quantity'[s] >= quantity[s]
    BY <2>2 DEF TypeOK
  <2> QED BY <1>1, <1>3, <2>3, <2>4, DeallocationFrees
<1>12. \A n \in 1..MaxOrdered : n \in Nat
  BY DataModel
<1>13. ASSUME NEW l \in Lines, NEW n \in 1..MaxOrdered, IncreaseAllocations(l, n)
       PROVE  Overbooks(s)
  BY <1>1, <1>3, <1>12, <1>13, IncreaseTakesFreeUnits
<1>14. ASSUME NEW l \in Lines, NEW n \in 1..MaxOrdered, DecreaseAllocations(l, n)
       PROVE  Overbooks(s)
  <2> DEFINE L == {l}
             amount == [k \in {l} |-> n]
  <2>1. L \in SUBSET Lines /\ \A k \in L : amount[k] \in Int
    BY <1>12
  <2>2. Deallocate(amount, L) /\ quantity' = quantity
    BY <1>14 DEF DecreaseAllocations
  <2> HIDE DEF amount, L
  <2>3. \A k \in Lines, t \in Stocks : allocation'[k][t] <= allocation[k][t]
    BY <2>1, <2>2, DeallocateTypes
  <2>4. quantity'[s] >= quantity[s]
    BY <2>2 DEF TypeOK
  <2> QED BY <1>1, <1>3, <2>3, <2>4, DeallocationFrees
<1>15. ASSUME NEW l \in Lines, NEW n \in 1..MaxOrdered, NEW t \in Stocks,
              ReturnProducts(l, t, n)
       PROVE  Overbooks(s)
  <2>1. /\ allocation' = allocation /\ quantity' = [quantity EXCEPT ![t] = @ + n]
        /\ n \in Nat
    BY <1>12, <1>15 DEF ReturnProducts
  <2>2. quantity'[s] >= quantity[s]
    BY <2>1 DEF TypeOK
  <2>3. \A k \in Lines : allocation'[k][s] <= allocation[k][s]
    BY <2>1 DEF TypeOK
  <2> QED BY <1>1, <1>3, <2>2, <2>3, DeallocationFrees
<1>16. ASSUME NEW l \in Lines, NEW n \in 1..MaxOrdered,
              NEW from \in Stocks, NEW to \in Stocks,
              RestockFulfillment(l, from, to, n)
       PROVE  Overbooks(s)
  BY <1>1, <1>2, <1>3, <1>12, <1>16, RestockFreesNothing
<1>17. ASSUME NEW t \in Stocks, NEW n \in 0..MaxQuantity, SetQuantity(t, n)
       PROVE  Overbooks(s)
  <2>1. CASE t = s
    BY <1>17, <2>1 DEF Overbooks
  <2>2. CASE t # s
    <3>1. quantity'[s] = quantity[s] /\ allocation' = allocation
      BY <1>17, <2>2 DEF SetQuantity, TypeOK
    <3>2. Free(s)' = Free(s)
      BY <3>1 DEF Free, Allocated
    <3> QED BY <1>2, <1>3, <3>2
  <2> QED BY <2>1, <2>2
<1>18. CASE DeleteExpiredReservations
  BY <1>4, <1>18 DEF DeleteExpiredReservations, rows
<1>19. CASE UNCHANGED vars
  BY <1>4, <1>19 DEF vars
<1> QED BY <1>5, <1>6, <1>7, <1>8, <1>9, <1>10, <1>11, <1>13, <1>14, <1>15, <1>16,
           <1>17, <1>18, <1>19 DEF Next

(* Whatever the data, only a checkout, a shipment that is allowed to       *)
(* exceed the stock, or a quantity that staff type in pushes a stock       *)
(* (further) below what is promised from it.                               *)
THEOREM OthersNeverOverbook == Spec => OverbookingNeedsOverride
<1>1. ASSUME TypeOK, [Next]_vars
      PROVE  [\A s \in Stocks : Overbooks(s)]_vars
  BY <1>1, StepOverbooks
<1> QED BY <1>1, TypesAreKept, PTL DEF Spec, OverbookingNeedsOverride, Overbooks

-----------------------------------------------------------------------------
(* What a checkout may take beside the reservations of the others.         *)

(* No order has two lines of one variant, so at most one of a checkout's   *)
(* lines takes from a stock, and the rows of the others are empty there.   *)
LEMMA OneLineTakes ==
  ASSUME DistinctVariants, NEW o \in Orders, NEW s \in Stocks, NEW l \in LinesOf(o),
         NEW a \in [LinesOf(o) -> [Stocks -> Nat]], a[l][s] > 0,
         \A k \in LinesOf(o) : a[k][s] > 0 => StockVariant[s] = LineVariant[k]
  PROVE  \A k \in LinesOf(o) \ {l} : a[k][s] = 0
<1> SUFFICES ASSUME NEW k \in LinesOf(o), k # l, a[k][s] # 0
             PROVE  FALSE
  OBVIOUS
<1>1. a[k][s] \in Nat
  OBVIOUS
<1>2. LineVariant[k] = LineVariant[l]
  BY <1>1
<1> QED BY <1>2 DEF DistinctVariants, LinesOf

(* From its check a checkout goes back to the cart by reserve_stocks only, *)
(* and becomes an order by checkoutComplete only.                          *)
LEMMA AfterTheCheck ==
  ASSUME TypeOK, [Next]_vars, NEW o \in Orders,
         stage[o] \in {"reserving", "checked"}, stage'[o] \in {"cart", "placed"}
  PROVE  ReserveStocks(o) \/ CompleteCheckout(o)
<1>1. stage \in [Orders -> Stages]
  BY DEF TypeOK
<1>2. stage' # stage
  OBVIOUS
<1>3. ASSUME NEW p \in Orders, NEW x, stage' = [stage EXCEPT ![p] = x], x \notin {"cart", "placed"}
      PROVE  FALSE
  BY <1>1, <1>3
<1>4. ASSUME NEW p \in Orders, NEW next \in {"reserving", "checked"},
             CheckStock(p, next)
      PROVE  FALSE
  BY <1>3, <1>4 DEF CheckStock
<1>5. ASSUME NEW p \in Orders, ReserveStocks(p) PROVE p = o
  BY <1>1, <1>5 DEF ReserveStocks
<1>6. ASSUME NEW p \in Orders, ReservationsExpire(p) PROVE FALSE
  BY <1>2, <1>6 DEF ReservationsExpire
<1>7. ASSUME NEW p \in Orders, CompleteCheckout(p) PROVE p = o
  BY <1>1, <1>7 DEF CompleteCheckout
<1>8. ASSUME NEW p \in Orders, ConfirmOrder(p) PROVE FALSE
  BY <1>3, <1>8 DEF ConfirmOrder
<1>9. ASSUME NEW p \in Orders, NEW w, NEW ship, NEW exceed,
             DecreaseStock(p, w, ship, exceed)
      PROVE  FALSE
  <2>1. stage[p] \in {"placed", "confirmed", "closed"}
        /\ \A q \in Orders \ {p} : stage'[q] = stage[q]
    BY <1>1, <1>9 DEF DecreaseStock, IsOrder
  <2> QED BY <2>1
<1>10. ASSUME NEW p \in Orders, NEW move, NEW closes,
              MoveToFulfillment(p, move, closes)
       PROVE  FALSE
  <2>1. stage[p] \in {"placed", "confirmed"}
        /\ \A q \in Orders \ {p} : stage'[q] = stage[q]
    BY <1>1, <1>10 DEF MoveToFulfillment
  <2> QED BY <2>1
<1>11. ASSUME NEW l \in Lines, NEW n,
              IncreaseAllocations(l, n) \/ DecreaseAllocations(l, n)
       PROVE  FALSE
  BY <1>2, <1>11 DEF IncreaseAllocations, DecreaseAllocations
<1>12. ASSUME NEW l, NEW n, NEW s, ReturnProducts(l, s, n) PROVE FALSE
  BY <1>2, <1>12 DEF ReturnProducts
<1>13. ASSUME NEW l \in Lines, NEW n, NEW from, NEW to,
              RestockFulfillment(l, from, to, n)
       PROVE  FALSE
  BY <1>3, <1>13, DataModel DEF RestockFulfillment
<1>14. ASSUME NEW s, NEW n, SetQuantity(s, n) PROVE FALSE
  BY <1>2, <1>14 DEF SetQuantity
<1>15. ~DeleteExpiredReservations /\ ~UNCHANGED vars
  BY <1>2 DEF DeleteExpiredReservations, vars
<1> QED BY <1>4, <1>5, <1>6, <1>7, <1>8, <1>9, <1>10, <1>11, <1>12, <1>13, <1>14,
           <1>15 DEF Next

(* The one line of a checkout that takes from a stock takes no more than   *)
(* the units beside the live reservations of the others.                   *)
LEMMA CompletionHonoursReservations ==
  ASSUME DistinctVariants, TypeOK, TypeOK', NEW o \in Orders, CompleteCheckout(o),
         stage'[o] = "placed", NEW s \in Stocks,
         SumOver([l \in Lines |-> allocation'[l][s]], LinesOf(o)) > 0
  PROVE  SumOver([l \in Lines |-> allocation'[l][s]], LinesOf(o))
           + LiveReserved(s, LinesOf(o)) <= quantity[s]
<1> DEFINE mine == LinesOf(o)
           seen == [t \in Stocks |-> 0]
           held == HeldByOthers(mine)
           free == [t \in Stocks |-> quantity[t] - seen[t] - held[t]]
           enough == CanAllocate(Ordered, mine, seen, held)
           picked == ToAllocate(Ordered, mine, seen, held)
           col == [l \in Lines |-> allocation'[l][s]]
<1>1. mine \in SUBSET Lines /\ IsFiniteSet(mine) /\ \A l \in mine : Ordered[l] \in Int
  <2>1. mine \in SUBSET Lines /\ IsFiniteSet(Lines)
    BY DataModel DEF LinesOf
  <2>2. IsFiniteSet(mine)
    <3> HIDE DEF mine
    <3> QED BY <2>1, FS_Subset
  <2>3. \A l \in Lines : Ordered[l] \in Int
    BY DataModel
  <2> QED BY <2>1, <2>2, <2>3
<1>2. LiveReserved(s, mine) \in Nat /\ \A t \in Stocks : LiveReserved(t, mine) \in Nat
  BY LiveReservedIsNat DEF TypeOK, Rows
<1>3. /\ seen \in [Stocks -> Int] /\ held \in [Stocks -> Int]
      /\ free \in [Stocks -> Int] /\ free[s] = quantity[s] - LiveReserved(s, mine)
  BY <1>2 DEF HeldByOthers, TypeOK
<1>4. /\ picked \in [mine -> [Stocks -> Nat]]
      /\ \A l \in mine : picked[l][s] > 0 => StockVariant[s] = LineVariant[l]
  <2> HIDE DEF mine, seen, held, free, picked
  <2>1. /\ mine \in SUBSET Lines /\ \A l \in mine : Ordered[l] \in Int
        /\ seen \in [Stocks -> Int] /\ held \in [Stocks -> Int]
    BY <1>1, <1>3
  <2>2. /\ ToAllocate(Ordered, mine, seen, held) \in [mine -> [Stocks -> Nat]]
        /\ \A l \in mine, t \in Stocks : ToAllocate(Ordered, mine, seen, held)[l][t] > 0
                                          => StockVariant[t] = LineVariant[l]
    BY ONLY TypeOK, <2>1, AllocateTypes
  <2> QED BY <2>2 DEF picked
<1>5. \A l \in mine : allocation'[l] = picked[l]
  <2>1. stage \in [Orders -> Stages] /\ stage' = [stage EXCEPT ![o] =
                                           IF enough THEN "placed" ELSE "refused"]
    BY DEF TypeOK, CompleteCheckout
  <2>2. enough
    <3> HIDE DEF enough
    <3> QED BY <2>1
  <2> QED BY <1>1, <2>2 DEF CompleteCheckout
<1>6. \A l \in mine : col[l] = picked[l][s]
  BY <1>1, <1>5
<1>7. PICK l \in mine : picked[l][s] > 0
  <2> SUFFICES ASSUME \A l \in mine : ~(picked[l][s] > 0)
               PROVE  SumOver(col, mine) = 0
    OBVIOUS
  <2> HIDE DEF mine, picked, col
  <2>1. \A l \in mine : picked[l][s] \in Nat
    BY <1>4
  <2>2. \A l \in mine : col[l] = 0
    BY <1>6, <2>1
  <2> QED BY <2>2, SumZero
<1>8. \A k \in mine \ {l} : col[k] = 0
  <2> HIDE DEF picked, col
  <2>1. \A k \in mine \ {l} : picked[k][s] = 0
    BY <1>4, <1>7, OneLineTakes
  <2> QED BY <1>6, <2>1
<1>9. picked[l] = Pick(Ordered[l], LineVariant[l], free, seen)
  BY <1>7 DEF ToAllocate
<1>10. picked[l][s] <= free[s]
  <2> HIDE DEF mine, free, seen, picked
  <2> QED BY <1>1, <1>3, <1>7, <1>9, PickedIsFree
<1>11. SumOver(col, mine) = picked[l][s]
  <2> HIDE DEF mine, free, seen, picked, col
  <2> DEFINE r == [k \in mine |-> col[k]]
  <2>1. r \in [mine -> Nat] /\ r[l] = picked[l][s]
    BY <1>4, <1>6
  <2>2. SumOver(r, mine) = SumOver(col, mine)
    BY SumSame
  <2>3. \A k \in mine \ {l} : r[k] = 0
    BY <1>8
  <2> HIDE DEF r
  <2>4. SumOver(r, mine \ {l}) = 0
    BY <2>3, SumZero
  <2>5. SumOver(r, mine) = SumOver(r, mine \ {l}) + r[l]
    BY <1>1, <2>1, SumWithout
  <2> QED BY <1>4, <2>1, <2>2, <2>4, <2>5
<1> QED
  <2>1. quantity[s] \in Int /\ picked[l][s] \in Nat
    BY <1>4 DEF TypeOK
  <2> HIDE DEF mine, picked, col, free
  <2>2. SumOver(col, mine) + LiveReserved(s, mine) <= quantity[s]
    BY <1>2, <1>3, <1>10, <1>11, <2>1
  <2> QED BY <2>2 DEF mine, col

(* A checkout that becomes an order takes nothing another checkout holds   *)
(* by a live reservation, for any data in which no order has two lines of  *)
(* one variant (the maps of allocate_stocks are not updated between lines). *)
THEOREM CheckoutsHonourReservations ==
  ASSUME DistinctVariants
  PROVE  Spec => CheckoutHonoursReservations
<1> DEFINE Honours ==
      \A o \in Orders : stage[o] = "checked" /\ stage'[o] = "placed" =>
        \A s \in Stocks :
          LET mine == SumOver([l \in Lines |-> allocation'[l][s]], LinesOf(o))
          IN  mine > 0 => mine + LiveReserved(s, LinesOf(o)) <= quantity[s]
<1>1. ASSUME TypeOK, [Next]_vars PROVE Honours
  <2>1. ASSUME NEW o \in Orders, stage[o] = "checked", stage'[o] = "placed"
        PROVE  CompleteCheckout(o)
    <3>1. ReserveStocks(o) \/ CompleteCheckout(o)
      BY <1>1, <2>1, AfterTheCheck
    <3> QED BY <2>1, <3>1 DEF ReserveStocks
  <2>2. TypeOK'
    BY <1>1, TypeStep
  <2> QED BY <1>1, <2>1, <2>2, CompletionHonoursReservations
<1>2. TypeOK /\ [Next]_vars => [Honours]_vars
  BY <1>1
<1> QED BY <1>2, TypesAreKept, PTL DEF Spec, CheckoutHonoursReservations

(* reserve_stocks takes from a stock, for the one line that wants it, no   *)
(* more than its quantity less the allocations and the live reservations.  *)
LEMMA ReservingFits ==
  ASSUME DistinctVariants, TypeOK, TypeOK', NEW o \in Orders, ReserveStocks(o),
         stage'[o] = "cart", NEW x \in LinesOf(o), NEW s \in Stocks,
         reservation'[x][s] > 0
  PROVE  LiveReserved(s, {})' + Allocated(s) <= quantity[s]
<1> DEFINE mine == LinesOf(o)
           seen == [t \in Stocks |-> Allocated(t)]
           free == Reservable(mine)
           enough == \A l \in mine : Enough(Ordered[l], LineVariant[l], free)
           pick(l) == Pick(Ordered[l], LineVariant[l], free, seen)
           f == [l \in Lines |-> IF l \notin mine /\ live[OrderOf[l]]
                                 THEN reservation[l][s] ELSE 0]
           g == [l \in Lines |-> IF live'[OrderOf[l]] THEN reservation'[l][s] ELSE 0]
           others == {l \in Lines \ mine : live[OrderOf[l]]}
           now == {l \in Lines \ {} : live'[OrderOf[l]]}
<1>1. /\ mine \in SUBSET Lines /\ x \in mine /\ x \in Lines
      /\ \A l \in Lines : l \in mine <=> OrderOf[l] = o
      /\ \A l \in Lines : Ordered[l] \in Int /\ OrderOf[l] \in Orders
  BY DataModel DEF LinesOf
<1>2. /\ allocation \in Rows /\ reservation \in Rows /\ reservation' \in Rows
      /\ quantity \in [Stocks -> Int] /\ IsFiniteSet(Lines)
  BY DataModel DEF TypeOK, Rows
<1>3. LiveReserved(s, mine) \in Nat /\ Allocated(s) \in Nat
  BY <1>2, AllocatedIsNat, LiveReservedIsNat
<1>4. /\ free \in [Stocks -> Int]
      /\ free[s] = quantity[s] - Allocated(s) - LiveReserved(s, mine)
  BY <1>2, AllocatedIsNat, LiveReservedIsNat DEF Reservable
<1>5. enough
  <2>1. stage \in [Orders -> Stages]
        /\ stage' = [stage EXCEPT ![o] = IF enough THEN "cart" ELSE "refused"]
    BY DEF TypeOK, ReserveStocks
  <2> HIDE DEF enough
  <2> QED BY <2>1
<1>6. /\ \A l \in mine : reservation'[l] = pick(l)
      /\ \A l \in Lines \ mine : reservation'[l] = reservation[l]
  BY <1>1, <1>5 DEF ReserveStocks
<1>7. /\ live'[o] = TRUE
      /\ \A p \in Orders \ {o} : live'[p] = live[p]
  <2>1. live \in [Orders -> BOOLEAN] /\ live' = [live EXCEPT ![o] = @ \/ enough]
    BY DEF TypeOK, ReserveStocks
  <2> HIDE DEF enough
  <2>2. live'[o] = (live[o] \/ enough)
    BY <2>1
  <2>3. live'[o] = TRUE
    BY <1>5, <2>2
  <2> QED BY <2>1, <2>3
<1> HIDE DEF enough, free, seen
<1>8. \A l \in mine : /\ pick(l) \in [Stocks -> Nat]
                      /\ pick(l)[s] > 0 => StockVariant[s] = LineVariant[l]
  BY <1>1, <1>4, PickFacts
<1>9. reservation'[x][s] <= free[s]
  BY <1>1, <1>4, <1>6, PickedIsFree
<1>10. \A l \in mine \ {x} : reservation'[l][s] = 0
  <2> DEFINE a == [l \in mine |-> pick(l)]
  <2>1. /\ a \in [mine -> [Stocks -> Nat]] /\ a[x][s] > 0
        /\ \A k \in mine : a[k][s] > 0 => StockVariant[s] = LineVariant[k]
        /\ \A k \in mine : a[k] = reservation'[k]
    BY <1>1, <1>6, <1>8
  <2> HIDE DEF a, pick
  <2>2. \A k \in mine \ {x} : a[k][s] = 0
    BY <2>1, OneLineTakes
  <2> QED BY <2>1, <2>2
<1>11. f \in [Lines -> Nat] /\ g \in [Lines -> Nat] /\ x \in Lines
  <2> HIDE DEF mine
  <2> QED BY <1>1, <1>2 DEF Rows
<1>12. /\ f[x] = 0 /\ g[x] = reservation'[x][s]
       /\ \A l \in Lines \ {x} : f[l] = g[l]
  <2> HIDE DEF mine
  <2>1. f[x] = 0 /\ g[x] = reservation'[x][s]
    BY <1>1, <1>7
  <2>2. ASSUME NEW l \in Lines \ {x} PROVE f[l] = g[l]
    <3>1. CASE l \in mine
      BY <1>1, <1>7, <1>10, <3>1
    <3>2. CASE l \notin mine
      BY <1>1, <1>6, <1>7, <3>2
    <3> QED BY <3>1, <3>2
  <2> QED BY <2>1, <2>2
<1>13. /\ LiveReserved(s, mine) = SumOver(f, Lines)
       /\ LiveReserved(s, {})' = SumOver(g, Lines)
  <2> DEFINE before == [l \in Lines |-> reservation[l][s]]
             after == [l \in Lines |-> reservation'[l][s]]
  <2>1. /\ LiveReserved(s, mine) = SumOver(before, others)
        /\ LiveReserved(s, {})' = SumOver(after, now)
    BY DEF LiveReserved
  <2>2. others \in SUBSET Lines /\ now \in SUBSET Lines
    OBVIOUS
  <2>3. \A l \in others : before[l] = f[l]
    OBVIOUS
  <2>4. \A l \in now : after[l] = g[l]
    OBVIOUS
  <2>5. /\ \A l \in Lines \ others : f[l] = 0
        /\ \A l \in Lines \ now : g[l] = 0
    OBVIOUS
  <2> HIDE DEF before, after, others, now, f, g, mine
  <2>6. SumOver(before, others) = SumOver(f, others)
    BY <2>3, SumSame
  <2>7. SumOver(after, now) = SumOver(g, now)
    BY <2>4, SumSame
  <2>8. SumOver(f, Lines) = SumOver(f, others)
    BY <2>2, <2>5, SumOfPart
  <2>9. SumOver(g, Lines) = SumOver(g, now)
    BY <2>2, <2>5, SumOfPart
  <2> QED BY <2>1, <2>6, <2>7, <2>8, <2>9
<1> HIDE DEF f, g
<1>14. SumOver(g, Lines) = SumOver(f, Lines) - f[x] + g[x]
  BY <1>2, <1>11, <1>12, SumOneChanged
<1>15. reservation'[x][s] \in Nat /\ quantity[s] \in Int
  BY <1>1, <1>2 DEF Rows
<1> HIDE DEF mine
<1>16. LiveReserved(s, {})' = LiveReserved(s, mine) + reservation'[x][s]
  BY <1>3, <1>12, <1>13, <1>14, <1>15
<1> QED BY <1>3, <1>4, <1>9, <1>15, <1>16

(* After reserve_stocks the live reservations and the allocations of a     *)
(* stock it reserved from fit in its quantity together, for any data in    *)
(* which no cart has two lines of one variant.                             *)
THEOREM ReservationsAlwaysFit ==
  ASSUME DistinctVariants
  PROVE  Spec => ReservationsFit
<1> DEFINE Fits ==
      \A o \in Orders, l \in Lines, s \in Stocks :
        /\ stage[o] = "reserving" /\ stage'[o] = "cart"
        /\ l \in LinesOf(o) /\ reservation'[l][s] > 0
        => LiveReserved(s, {})' + Allocated(s) <= quantity[s]
<1>1. ASSUME TypeOK, [Next]_vars PROVE Fits
  <2>1. ASSUME NEW o \in Orders, stage[o] = "reserving", stage'[o] = "cart"
        PROVE  ReserveStocks(o)
    <3>1. ReserveStocks(o) \/ CompleteCheckout(o)
      BY <1>1, <2>1, AfterTheCheck
    <3> QED BY <2>1, <3>1 DEF CompleteCheckout
  <2>2. TypeOK'
    BY <1>1, TypeStep
  <2> QED BY <1>1, <2>1, <2>2, ReservingFits
<1>2. TypeOK /\ [Next]_vars => [Fits]_vars
  BY <1>1
<1> QED BY <1>2, TypesAreKept, PTL DEF Spec, ReservationsFit
===============================================================================
