--------------------------- MODULE WarehouseProofs ---------------------------
(***************************************************************************)
(* Proofs about the stock ledger: type correctness, and that the counter   *)
(* Stock.quantity_allocated equals the sum of the Allocation rows as long  *)
(* as no order has two lines of one variant.                               *)
(***************************************************************************)
EXTENDS Warehouse, SumsProofs

(* The rows of a function by line and stock. *)
Rows == [Lines -> [Stocks -> Nat]]
Column(a, s) == [l \in Lines |-> a[l][s]]

LEMMA ColumnSumIsNat ==
  ASSUME NEW a \in Rows, NEW s \in Stocks, NEW L \in SUBSET Lines
  PROVE  SumOver(Column(a, s), L) \in Nat
<1>1. Column(a, s) \in [Lines -> Nat]
  BY DEF Column, Rows
<1> QED BY <1>1, SumIsNat, DataModel

(* When at most the row of x changes in a column, the sum follows it. *)
LEMMA ColumnSumOneChanged ==
  ASSUME NEW a \in Rows, NEW b \in Rows, NEW s \in Stocks, NEW x \in Lines,
         \A l \in Lines \ {x} : b[l][s] = a[l][s]
  PROVE  SumOver(Column(b, s), Lines)
           = SumOver(Column(a, s), Lines) - a[x][s] + b[x][s]
<1>1. Column(a, s) \in [Lines -> Nat] /\ Column(b, s) \in [Lines -> Nat]
  BY DEF Column, Rows
<1>2. \A l \in Lines \ {x} : Column(a, s)[l] = Column(b, s)[l]
  BY DEF Column
<1>3. Column(a, s)[x] = a[x][s] /\ Column(b, s)[x] = b[x][s]
  BY DEF Column
<1> DEFINE f == Column(a, s)
           g == Column(b, s)
<1>4. \A l \in Lines \ {x} : f[l] = g[l]
  BY <1>2
<1> HIDE DEF f, g
<1>5. SumOver(g, Lines) = SumOver(f, Lines) - f[x] + g[x]
  <2>1. f \in [Lines -> Nat] /\ g \in [Lines -> Nat]
    BY <1>1 DEF f, g
  <2>2. IsFiniteSet(Lines)
    BY DataModel
  <2> QED BY ONLY <1>4, <2>1, <2>2, SumOneChanged
<1> QED BY <1>3, <1>5 DEF f, g

(* sort, filter, min and max never pick a negative number of units, nor a  *)
(* stock of another variant.                                               *)
LEMMA PickFacts ==
  ASSUME NEW n \in Int, NEW v, NEW free \in [Stocks -> Int], NEW seen
  PROVE  /\ Pick(n, v, free, seen) \in [Stocks -> Nat]
         /\ \A s \in Stocks : Pick(n, v, free, seen)[s] > 0 => StockVariant[s] = v
<1>1. Usable(free) \in [Stocks -> Nat]
  BY DEF Usable, AtLeastZero
<1>2. \A s \in Stocks :
        SumOver(Usable(free), {t \in StocksOf(v) : Precedes(t, s, seen)}) \in Nat
  BY <1>1, SumIsNat, DataModel DEF StocksOf
<1> HIDE DEF Usable, SumOver
<1>3. ASSUME NEW s \in Stocks
      PROVE  /\ Pick(n, v, free, seen)[s] \in Nat
             /\ Pick(n, v, free, seen)[s] > 0 => StockVariant[s] = v
  <2> DEFINE m == SumOver(Usable(free), {t \in StocksOf(v) : Precedes(t, s, seen)})
  <2>1. m \in Nat
    BY <1>2
  <2>2. Pick(n, v, free, seen)[s] =
          IF s \in StocksOf(v) THEN AtLeastZero(Least(free[s], n - m)) ELSE 0
    BY DEF Pick
  <2> HIDE DEF m
  <2>3. AtLeastZero(Least(free[s], n - m)) \in Nat
    BY <2>1 DEF AtLeastZero, Least
  <2> QED BY <2>2, <2>3 DEF StocksOf
<1>4. Pick(n, v, free, seen) = [s \in Stocks |-> Pick(n, v, free, seen)[s]]
  BY DEF Pick
<1> HIDE DEF Pick
<1> QED BY <1>3, <1>4

(* Of a bulk_update in which at most one line touches a stock nothing is   *)
(* lost: the counter moves by what that line's row moves.                  *)
LEMMA BulkDeltaOfOne ==
  ASSUME NEW L \in SUBSET Lines, NEW d \in [L -> [Stocks -> Nat]], NEW s \in Stocks,
         \A l, k \in L : d[l][s] > 0 /\ d[k][s] > 0 => l = k
  PROVE  \/ /\ BulkDelta(d, L, s) = 0
            /\ \A l \in L : d[l][s] = 0
         \/ \E x \in L : /\ BulkDelta(d, L, s) = d[x][s]
                         /\ \A l \in L \ {x} : d[l][s] = 0
<1> DEFINE touching == {l \in L : d[l][s] > 0}
<1>1. \A l \in L : d[l][s] \in Nat
  OBVIOUS
<1>2. CASE touching = {}
  <2>1. BulkDelta(d, L, s) = 0
    BY <1>2 DEF BulkDelta
  <2> QED BY <1>1, <1>2, <2>1
<1>3. CASE touching # {}
  <2>1. PICK x \in touching : TRUE
    BY <1>3
  <2>2. touching = {x}
    BY <2>1
  <2>3. x \in Nat
    BY <2>1, DataModel
  <2>4. (CHOOSE l \in touching : \A k \in touching : l <= k) = x
    BY <2>2, <2>3
  <2>5. BulkDelta(d, L, s) = d[x][s]
    BY <1>3, <2>4 DEF BulkDelta
  <2>6. \A l \in L \ {x} : d[l][s] = 0
    BY <1>1, <2>2
  <2> QED BY <2>1, <2>5, <2>6
<1> QED BY <1>2, <1>3

(* Whatever a bulk_update loses, it adds no negative amount. *)
LEMMA BulkDeltaIsNat ==
  ASSUME NEW L \in SUBSET Lines, NEW d \in [L -> [Stocks -> Nat]], NEW s \in Stocks
  PROVE  BulkDelta(d, L, s) \in Nat
<1> DEFINE touching == {l \in L : d[l][s] > 0}
<1>1. CASE touching = {}
  BY <1>1 DEF BulkDelta
<1>2. CASE touching # {}
  <2>1. touching \in SUBSET Nat
    BY DataModel
  <2>2. \E l \in touching : \A k \in touching : l <= k
    BY <1>2, <2>1, LeastNatural
  <2>3. (CHOOSE l \in touching : \A k \in touching : l <= k) \in L
    BY <2>2
  <2> QED BY <1>2, <2>3 DEF BulkDelta
<1> QED BY <1>1, <1>2

LEMMA AllocatedIsNat ==
  ASSUME allocation \in Rows, NEW s \in Stocks
  PROVE  Allocated(s) \in Nat
BY ColumnSumIsNat DEF Allocated, Column

LEMMA LiveReservedIsNat ==
  ASSUME reservation \in Rows, NEW s \in Stocks, NEW mine
  PROVE  LiveReserved(s, mine) \in Nat
<1>1. {l \in Lines \ mine : live[OrderOf[l]]} \in SUBSET Lines
  OBVIOUS
<1> QED BY <1>1, ColumnSumIsNat DEF LiveReserved, Column

(* The counter stays exact when, stock by stock, either nothing changes or *)
(* one row changes and the counter changes by the same number of units.    *)
LEMMA CounterFollows ==
  ASSUME allocation \in Rows, allocation' \in Rows, CounterIsExact,
         \A s \in Stocks :
           \/ /\ quantity_allocated'[s] = quantity_allocated[s]
              /\ \A l \in Lines : allocation'[l][s] = allocation[l][s]
           \/ \E x \in Lines :
                /\ quantity_allocated'[s] =
                     quantity_allocated[s] - allocation[x][s] + allocation'[x][s]
                /\ \A l \in Lines \ {x} : allocation'[l][s] = allocation[l][s]
  PROVE  CounterIsExact'
<1> SUFFICES ASSUME NEW s \in Stocks
             PROVE  quantity_allocated'[s] = Allocated(s)'
  BY DEF CounterIsExact
<1>1. /\ Allocated(s) = SumOver(Column(allocation, s), Lines)
      /\ Allocated(s)' = SumOver(Column(allocation', s), Lines)
  BY DEF Allocated, Column
<1>2. quantity_allocated[s] = Allocated(s)
  BY DEF CounterIsExact
<1>3. CASE /\ quantity_allocated'[s] = quantity_allocated[s]
           /\ \A l \in Lines : allocation'[l][s] = allocation[l][s]
  <2>1. Column(allocation, s) = Column(allocation', s)
    BY <1>3 DEF Column
  <2> QED BY <1>1, <1>2, <1>3, <2>1
<1>4. ASSUME NEW x \in Lines,
             quantity_allocated'[s] =
               quantity_allocated[s] - allocation[x][s] + allocation'[x][s],
             \A l \in Lines \ {x} : allocation'[l][s] = allocation[l][s]
      PROVE  quantity_allocated'[s] = Allocated(s)'
  <2>1. SumOver(Column(allocation', s), Lines)
          = SumOver(Column(allocation, s), Lines) - allocation[x][s] + allocation'[x][s]
    BY <1>4, ColumnSumOneChanged
  <2> QED BY <1>1, <1>2, <1>4, <2>1
<1> QED BY <1>3, <1>4

(* deallocate_stock releases no more than each allocation has. *)
LEMMA ReleasedFacts ==
  ASSUME allocation \in Rows, NEW L \in SUBSET Lines, NEW n,
         \A l \in L : n[l] \in Int
  PROVE  /\ Released(n, L) \in [L -> [Stocks -> Nat]]
         /\ \A l \in L, s \in Stocks : Released(n, L)[l][s] <= allocation[l][s]
<1> DEFINE given(l, s) == SumOver(allocation[l], {t \in Stocks : t < s})
<1>1. \A l \in L, s \in Stocks : given(l, s) \in Nat /\ allocation[l][s] \in Nat
  <2> SUFFICES ASSUME NEW l \in L, NEW s \in Stocks
               PROVE  given(l, s) \in Nat /\ allocation[l][s] \in Nat
    OBVIOUS
  <2>1. allocation[l] \in [Stocks -> Nat]
    BY DEF Rows
  <2>2. {t \in Stocks : t < s} \in SUBSET Stocks /\ IsFiniteSet(Stocks)
    BY DataModel
  <2> QED BY <2>1, <2>2, SumIsNat
<1>2. \A l \in L, s \in Stocks :
        Released(n, L)[l][s] = AtLeastZero(Least(allocation[l][s], n[l] - given(l, s)))
  BY DEF Released
<1> HIDE DEF given
<1>3. \A l \in L, s \in Stocks :
        /\ Released(n, L)[l][s] \in Nat
        /\ Released(n, L)[l][s] <= allocation[l][s]
  BY <1>1, <1>2 DEF AtLeastZero, Least
<1>4. Released(n, L) = [l \in L |-> [s \in Stocks |-> Released(n, L)[l][s]]]
  BY DEF Released
<1> HIDE DEF Released
<1> QED BY <1>3, <1>4

LEMMA DeallocateTypes ==
  ASSUME TypeOK, NEW L \in SUBSET Lines, NEW n, \A l \in L : n[l] \in Int,
         Deallocate(n, L)
  PROVE  /\ allocation' \in Rows
         /\ quantity_allocated' \in [Stocks -> Int]
         /\ \A l \in Lines, s \in Stocks : allocation'[l][s] <= allocation[l][s]
         /\ \A l \in Lines \ L : allocation'[l] = allocation[l]
<1> DEFINE d == Released(n, L)
<1>1. allocation \in Rows
  BY DEF TypeOK, Rows
<1>2. /\ d \in [L -> [Stocks -> Nat]]
      /\ \A l \in L, s \in Stocks : d[l][s] <= allocation[l][s]
  BY <1>1, ReleasedFacts
<1>3. /\ allocation' = [l \in Lines |-> IF l \in L
                          THEN [s \in Stocks |-> allocation[l][s] - d[l][s]]
                          ELSE allocation[l]]
      /\ quantity_allocated' =
           [s \in Stocks |-> quantity_allocated[s] - BulkDelta(d, L, s)]
  BY DEF Deallocate
<1> HIDE DEF d
<1>4. \A s \in Stocks : BulkDelta(d, L, s) \in Nat
  BY <1>2, BulkDeltaIsNat
<1>5. quantity_allocated' \in [Stocks -> Int]
  BY <1>3, <1>4 DEF TypeOK
<1>6. \A l \in L, s \in Stocks : allocation[l][s] - d[l][s] \in Nat
                                 /\ allocation[l][s] - d[l][s] <= allocation[l][s]
  BY <1>1, <1>2 DEF Rows
<1>7. allocation' \in Rows
  BY <1>1, <1>3, <1>6 DEF Rows
<1> QED BY <1>1, <1>3, <1>5, <1>6, <1>7 DEF Rows

LEMMA DeallocateKeepsCounter ==
  ASSUME DistinctVariants, TypeOK, AllocationsMatchVariants, CounterIsExact,
         NEW o, NEW L \in SUBSET LinesOf(o), NEW n, \A l \in L : n[l] \in Int,
         Deallocate(n, L)
  PROVE  CounterIsExact'
<1> DEFINE d == Released(n, L)
<1>1. allocation \in Rows /\ L \in SUBSET Lines
  BY DEF TypeOK, Rows, LinesOf
<1>2. allocation' \in Rows
  BY <1>1, DeallocateTypes
<1>3. /\ d \in [L -> [Stocks -> Nat]]
      /\ \A l \in L, s \in Stocks : d[l][s] <= allocation[l][s]
  BY <1>1, ReleasedFacts
<1>4. /\ allocation' = [l \in Lines |-> IF l \in L
                          THEN [s \in Stocks |-> allocation[l][s] - d[l][s]]
                          ELSE allocation[l]]
      /\ quantity_allocated' =
           [s \in Stocks |-> quantity_allocated[s] - BulkDelta(d, L, s)]
  BY DEF Deallocate
<1> HIDE DEF d
<1>5. \A s \in Stocks : \A l, k \in L : d[l][s] > 0 /\ d[k][s] > 0 => l = k
  <2> SUFFICES ASSUME NEW s \in Stocks, NEW l \in L, NEW k \in L,
                      d[l][s] > 0, d[k][s] > 0
               PROVE  l = k
    OBVIOUS
  <2>1. allocation[l][s] > 0 /\ allocation[k][s] > 0
    BY <1>1, <1>3 DEF Rows
  <2>2. LineVariant[l] = LineVariant[k] /\ OrderOf[l] = OrderOf[k]
    BY <1>1, <2>1 DEF AllocationsMatchVariants, LinesOf
  <2> QED BY <1>1, <2>2 DEF DistinctVariants
<1>6. ASSUME NEW s \in Stocks
      PROVE  \/ /\ quantity_allocated'[s] = quantity_allocated[s]
                /\ \A l \in Lines : allocation'[l][s] = allocation[l][s]
             \/ \E x \in Lines :
                  /\ quantity_allocated'[s] =
                       quantity_allocated[s] - allocation[x][s] + allocation'[x][s]
                  /\ \A l \in Lines \ {x} : allocation'[l][s] = allocation[l][s]
  <2>1. \/ /\ BulkDelta(d, L, s) = 0
           /\ \A l \in L : d[l][s] = 0
        \/ \E x \in L : /\ BulkDelta(d, L, s) = d[x][s]
                        /\ \A l \in L \ {x} : d[l][s] = 0
    BY <1>1, <1>3, <1>5, BulkDeltaOfOne
  <2>2. quantity_allocated[s] \in Int
        /\ quantity_allocated'[s] = quantity_allocated[s] - BulkDelta(d, L, s)
    BY <1>4 DEF TypeOK
  <2>3. \A l \in Lines : allocation[l][s] \in Nat
    BY <1>1 DEF Rows
  <2>4. \A l \in Lines : allocation'[l][s] =
          IF l \in L THEN allocation[l][s] - d[l][s] ELSE allocation[l][s]
    BY <1>1, <1>4
  <2>5. CASE /\ BulkDelta(d, L, s) = 0
             /\ \A l \in L : d[l][s] = 0
    BY <2>2, <2>3, <2>4, <2>5
  <2>6. ASSUME NEW x \in L, BulkDelta(d, L, s) = d[x][s],
               \A l \in L \ {x} : d[l][s] = 0
        PROVE  /\ quantity_allocated'[s] =
                    quantity_allocated[s] - allocation[x][s] + allocation'[x][s]
               /\ \A l \in Lines \ {x} : allocation'[l][s] = allocation[l][s]
    <3>1. d[x][s] \in Nat /\ x \in Lines
      BY <1>1, <1>3
    <3>2. allocation'[x][s] = allocation[x][s] - d[x][s]
      BY <2>4, <3>1
    <3>3. \A l \in Lines \ {x} : allocation'[l][s] = allocation[l][s]
      BY <2>3, <2>4, <2>6
    <3> QED BY <2>2, <2>3, <2>6, <3>1, <3>2, <3>3
  <2> QED BY <1>1, <2>1, <2>5, <2>6
<1> QED BY <1>1, <1>2, <1>6, CounterFollows

-----------------------------------------------------------------------------
(* What allocate_stocks and reserve_stocks pick. *)
LEMMA AllocateTypes ==
  ASSUME TypeOK, NEW L \in SUBSET Lines, NEW n, \A l \in L : n[l] \in Int,
         NEW seen \in [Stocks -> Int], NEW held \in [Stocks -> Int]
  PROVE  /\ ToAllocate(n, L, seen, held) \in [L -> [Stocks -> Nat]]
         /\ \A l \in L, s \in Stocks : ToAllocate(n, L, seen, held)[l][s] > 0
                                       => StockVariant[s] = LineVariant[l]
<1> DEFINE free == [s \in Stocks |-> quantity[s] - seen[s] - held[s]]
<1>1. free \in [Stocks -> Int]
  BY DEF TypeOK
<1>2. ToAllocate(n, L, seen, held) =
        [l \in L |-> Pick(n[l], LineVariant[l], free, seen)]
  BY DEF ToAllocate
<1> HIDE DEF free
<1>3. \A l \in L : /\ Pick(n[l], LineVariant[l], free, seen) \in [Stocks -> Nat]
                   /\ \A s \in Stocks : Pick(n[l], LineVariant[l], free, seen)[s] > 0
                                        => StockVariant[s] = LineVariant[l]
  BY <1>1, PickFacts
<1> QED BY <1>2, <1>3

LEMMA CompleteCheckoutTypes ==
  ASSUME TypeOK, NEW o \in Orders, CompleteCheckout(o)
  PROVE  /\ allocation' \in Rows
         /\ quantity_allocated' \in [Stocks -> Int]
<1> DEFINE mine == LinesOf(o)
           seen == [s \in Stocks |-> 0]
           held == HeldByOthers(mine)
           enough == CanAllocate(Ordered, mine, seen, held)
           picked == ToAllocate(Ordered, mine, seen, held)
<1>1. mine \in SUBSET Lines /\ \A l \in mine : Ordered[l] \in Int
  BY DataModel DEF LinesOf
<1>2. seen \in [Stocks -> Int] /\ held \in [Stocks -> Int]
  <2>1. reservation \in Rows
    BY DEF TypeOK, Rows
  <2> QED BY <2>1, LiveReservedIsNat DEF HeldByOthers
<1>3. picked \in [mine -> [Stocks -> Nat]]
  <2> HIDE DEF mine, seen, held
  <2> QED BY <1>1, <1>2, AllocateTypes
<1>4. /\ allocation' = [l \in Lines |-> IF enough /\ l \in mine
                                        THEN picked[l] ELSE allocation[l]]
      /\ quantity_allocated' = [s \in Stocks |->
           quantity_allocated[s] + IF enough THEN BulkDelta(picked, mine, s) ELSE 0]
  BY DEF CompleteCheckout
<1> HIDE DEF mine, seen, held, enough, picked
<1>5. \A s \in Stocks : BulkDelta(picked, mine, s) \in Nat
  BY <1>1, <1>3, BulkDeltaIsNat
<1>6. allocation \in Rows /\ quantity_allocated \in [Stocks -> Int]
  BY DEF TypeOK, Rows
<1>7. allocation' \in Rows
  BY <1>3, <1>4, <1>6 DEF Rows
<1> QED BY <1>4, <1>5, <1>6, <1>7

LEMMA IncreaseAllocationsTypes ==
  ASSUME TypeOK, NEW l \in Lines, NEW n \in Nat, IncreaseAllocations(l, n)
  PROVE  /\ allocation' \in Rows
         /\ quantity_allocated' \in [Stocks -> Int]
         /\ \A s \in Stocks : quantity_allocated'[s] =
              quantity_allocated[s] - allocation[l][s] + allocation'[l][s]
         /\ \A k \in Lines \ {l} : allocation'[k] = allocation[k]
         /\ \A s \in Stocks : allocation'[l][s] > 0 => StockVariant[s] = LineVariant[l]
<1> DEFINE others == [s \in Stocks |-> Allocated(s) - allocation[l][s]]
           none == [s \in Stocks |-> 0]
           needed == [k \in {l} |-> n + SumOver(allocation[l], Stocks)]
           picked == ToAllocate(needed, {l}, others, none)
<1>1. allocation \in Rows /\ allocation[l] \in [Stocks -> Nat]
  BY DEF TypeOK, Rows
<1>2. others \in [Stocks -> Int] /\ none \in [Stocks -> Int]
  BY <1>1, AllocatedIsNat
<1>3. \A k \in {l} : needed[k] \in Int
  <2>1. SumOver(allocation[l], Stocks) \in Nat
    BY <1>1, SumIsNat, DataModel
  <2> QED BY <2>1
<1>4. /\ allocation' = [allocation EXCEPT ![l] = picked[l]]
      /\ quantity_allocated' = [s \in Stocks |->
           quantity_allocated[s] - allocation[l][s] + picked[l][s]]
  BY DEF IncreaseAllocations
<1>5. /\ picked \in [{l} -> [Stocks -> Nat]]
      /\ \A k \in {l}, s \in Stocks : picked[k][s] > 0 => StockVariant[s] = LineVariant[k]
  <2> DEFINE L == {l}
  <2>1. L \in SUBSET Lines
    OBVIOUS
  <2>2. \A k \in L : needed[k] \in Int
    BY <1>3
  <2> HIDE DEF others, none, needed, L
  <2>3. /\ ToAllocate(needed, L, others, none) \in [L -> [Stocks -> Nat]]
        /\ \A k \in L, s \in Stocks : ToAllocate(needed, L, others, none)[k][s] > 0
                                       => StockVariant[s] = LineVariant[k]
    BY ONLY TypeOK, <1>2, <2>1, <2>2, AllocateTypes
  <2> QED BY <2>3 DEF L
<1> HIDE DEF others, none, needed, picked
<1>6. allocation' \in Rows /\ allocation'[l] = picked[l]
  BY <1>1, <1>4, <1>5 DEF Rows
<1>7. \A s \in Stocks : /\ allocation[l][s] \in Nat /\ picked[l][s] \in Nat
                        /\ quantity_allocated[s] \in Int
  BY <1>1, <1>5 DEF TypeOK
<1>8. quantity_allocated' \in [Stocks -> Int]
  BY <1>4, <1>7
<1> QED BY <1>1, <1>4, <1>5, <1>6, <1>7, <1>8 DEF Rows

LEMMA ReserveStocksTypes ==
  ASSUME TypeOK, NEW o \in Orders, ReserveStocks(o)
  PROVE  reservation' \in Rows
<1> DEFINE mine == LinesOf(o)
           seen == [s \in Stocks |-> Allocated(s)]
           free == Reservable(mine)
           enough == \A l \in mine : Enough(Ordered[l], LineVariant[l], free)
<1>1. allocation \in Rows /\ reservation \in Rows
  BY DEF TypeOK, Rows
<1>2. free \in [Stocks -> Int]
  BY <1>1, AllocatedIsNat, LiveReservedIsNat DEF Reservable, TypeOK
<1>3. reservation' = [l \in Lines |->
           IF enough /\ l \in mine
           THEN Pick(Ordered[l], LineVariant[l], free, seen)
           ELSE reservation[l]]
  BY DEF ReserveStocks
<1> HIDE DEF mine, seen, free, enough
<1>4. \A l \in Lines : Pick(Ordered[l], LineVariant[l], free, seen) \in [Stocks -> Nat]
  BY <1>2, PickFacts, DataModel
<1> QED BY <1>1, <1>3, <1>4 DEF Rows

-----------------------------------------------------------------------------
(* Every step keeps the types.                                             *)
LEMMA TypeStep ==
  ASSUME TypeOK, [Next]_vars
  PROVE  TypeOK'
<1>1. ASSUME NEW o \in Orders, NEW next \in {"reserving", "checked"},
             CheckStock(o, next)
      PROVE  TypeOK'
  BY <1>1 DEF CheckStock, TypeOK, Stages, rows, holds, lines
<1>2. ASSUME NEW o \in Orders, ReserveStocks(o)
      PROVE  TypeOK'
  <2>1. reservation' \in [Lines -> [Stocks -> Nat]]
    BY <1>2, ReserveStocksTypes DEF Rows
  <2>2. live' \in [Orders -> BOOLEAN]
    <3>1. PICK b \in BOOLEAN : live' = [live EXCEPT ![o] = @ \/ b]
      BY <1>2 DEF ReserveStocks
    <3>2. live \in [Orders -> BOOLEAN]
      BY DEF TypeOK
    <3>3. (live[o] \/ b) \in BOOLEAN
      OBVIOUS
    <3> QED BY <3>1, <3>2, <3>3, Zenon
  <2>3. stage' \in [Orders -> Stages]
    BY <1>2 DEF ReserveStocks, TypeOK, Stages
  <2> QED BY <1>2, <2>1, <2>2, <2>3 DEF ReserveStocks, TypeOK, rows, lines
<1>3. ASSUME NEW o \in Orders, ReservationsExpire(o)
      PROVE  TypeOK'
  BY <1>3 DEF ReservationsExpire, TypeOK, rows, lines
<1>4. ASSUME NEW o \in Orders, CompleteCheckout(o)
      PROVE  TypeOK'
  <2>1. allocation' \in [Lines -> [Stocks -> Nat]]
        /\ quantity_allocated' \in [Stocks -> Int]
    BY <1>4, CompleteCheckoutTypes DEF Rows
  <2>2. stage' \in [Orders -> Stages]
    BY <1>4 DEF CompleteCheckout, TypeOK, Stages
  <2> QED BY <1>4, <2>1, <2>2 DEF CompleteCheckout, TypeOK, holds, lines
<1>5. ASSUME NEW o \in Orders, ConfirmOrder(o)
      PROVE  TypeOK'
  BY <1>5 DEF ConfirmOrder, TypeOK, Stages, rows, holds, lines
<1>6. ASSUME NEW o \in Orders, NEW w, NEW ship \in Amounts(o), NEW exceed,
             DecreaseStock(o, w, ship, exceed)
      PROVE  TypeOK'
  <2> DEFINE sent == {l \in LinesOf(o) : ship[l] > 0}
             At(l) == {s \in StocksOf(LineVariant[l]) : StockWarehouse[s] = w}
             taken == [s \in Stocks |-> SumOver(ship, {l \in sent : s \in At(l)})]
  <2>1. /\ ship \in [LinesOf(o) -> Nat]
        /\ LinesOf(o) \in SUBSET Lines
        /\ IsFiniteSet(LinesOf(o))
    BY FS_Subset, DataModel DEF Amounts, LinesOf
  <2>2. taken \in [Stocks -> Nat]
    <3>1. \A s \in Stocks : {l \in sent : s \in At(l)} \in SUBSET LinesOf(o)
      OBVIOUS
    <3> QED BY <2>1, <3>1, SumIsNat
  <2>3. sent \in SUBSET Lines /\ \A l \in sent : ship[l] \in Int
    BY <2>1
  <2>4. Deallocate(ship, sent)
    BY <1>6 DEF DecreaseStock
  <2>5. allocation' \in [Lines -> [Stocks -> Nat]]
        /\ quantity_allocated' \in [Stocks -> Int]
    <3> HIDE DEF sent
    <3> QED BY <2>3, <2>4, DeallocateTypes DEF Rows
  <2>6. /\ quantity' = [s \in Stocks |-> quantity[s] - taken[s]]
        /\ quantity_fulfilled' = [l \in Lines |->
             quantity_fulfilled[l] + IF l \in sent THEN ship[l] ELSE 0]
        /\ shipped' = [l \in Lines |-> [s \in Stocks |->
             shipped[l][s] + IF l \in sent /\ s \in At(l) THEN ship[l] ELSE 0]]
    BY <1>6 DEF DecreaseStock
  <2>7. stage' \in [Orders -> Stages]
    BY <1>6 DEF DecreaseStock, TypeOK, Stages
  <2> HIDE DEF taken, At
  <2>8. quantity' \in [Stocks -> Int]
    BY <2>2, <2>6 DEF TypeOK
  <2>9. quantity_fulfilled' \in [Lines -> Int]
    BY <2>1, <2>6 DEF TypeOK
  <2>10. shipped' \in [Lines -> [Stocks -> Nat]]
    BY <2>1, <2>6 DEF TypeOK
  <2> QED BY <1>6, <2>5, <2>7, <2>8, <2>9, <2>10 DEF DecreaseStock, TypeOK, holds
<1>7. ASSUME NEW o \in Orders, NEW move \in Amounts(o), NEW closes,
             MoveToFulfillment(o, move, closes)
      PROVE  TypeOK'
  <2> DEFINE mine == LinesOf(o)
  <2>1. mine \in SUBSET Lines /\ \A l \in mine : move[l] \in Int
    BY DEF Amounts, LinesOf
  <2>2. Deallocate(move, mine)
    BY <1>7 DEF MoveToFulfillment
  <2>3. allocation' \in [Lines -> [Stocks -> Nat]]
        /\ quantity_allocated' \in [Stocks -> Int]
    <3> HIDE DEF mine
    <3> QED BY <2>1, <2>2, DeallocateTypes DEF Rows
  <2>4. quantity_fulfilled' \in [Lines -> Int]
    BY <1>7, <2>1 DEF MoveToFulfillment, TypeOK
  <2>5. stage' \in [Orders -> Stages]
    BY <1>7 DEF MoveToFulfillment, TypeOK, Stages
  <2> QED BY <1>7, <2>3, <2>4, <2>5 DEF MoveToFulfillment, TypeOK, holds
<1>8. ASSUME NEW l \in Lines, NEW n \in 1..MaxOrdered, IncreaseAllocations(l, n)
      PROVE  TypeOK'
  <2>1. n \in Nat
    OBVIOUS
  <2>2. allocation' \in [Lines -> [Stocks -> Nat]]
        /\ quantity_allocated' \in [Stocks -> Int]
    BY <1>8, <2>1, IncreaseAllocationsTypes DEF Rows
  <2>3. line_quantity' \in [Lines -> Nat]
    BY <1>8, <2>1 DEF IncreaseAllocations, TypeOK
  <2> QED BY <1>8, <2>2, <2>3 DEF IncreaseAllocations, TypeOK, holds
<1>9. ASSUME NEW l \in Lines, NEW n \in 1..MaxOrdered, DecreaseAllocations(l, n)
      PROVE  TypeOK'
  <2> DEFINE L == {l}
             amount == [k \in {l} |-> n]
  <2>1. L \in SUBSET Lines /\ \A k \in L : amount[k] \in Int
    OBVIOUS
  <2>2. Deallocate(amount, L)
    BY <1>9 DEF DecreaseAllocations
  <2>3. allocation' \in [Lines -> [Stocks -> Nat]]
        /\ quantity_allocated' \in [Stocks -> Int]
    <3> HIDE DEF L, amount
    <3> QED BY <2>1, <2>2, DeallocateTypes DEF Rows
  <2>4. line_quantity' \in [Lines -> Nat]
    BY <1>9 DEF DecreaseAllocations, TypeOK
  <2> QED BY <1>9, <2>3, <2>4 DEF DecreaseAllocations, TypeOK, holds
<1>10. ASSUME NEW l \in Lines, NEW n \in 1..MaxOrdered, NEW s \in Stocks,
              ReturnProducts(l, s, n)
       PROVE  TypeOK'
  BY <1>10 DEF ReturnProducts, TypeOK, holds
<1>11. ASSUME NEW l \in Lines, NEW n \in 1..MaxOrdered,
              NEW from \in Stocks, NEW to \in Stocks,
              RestockFulfillment(l, from, to, n)
       PROVE  TypeOK'
  <2>1. OrderOf[l] \in Orders
    BY DataModel
  <2>2. quantity' \in [Stocks -> Int] /\ quantity_allocated' \in [Stocks -> Int]
    BY <1>11 DEF RestockFulfillment, TypeOK
  <2>3. allocation' \in [Lines -> [Stocks -> Nat]]
    BY <1>11 DEF RestockFulfillment, TypeOK
  <2>4. shipped' \in [Lines -> [Stocks -> Nat]]
    BY <1>11 DEF RestockFulfillment, TypeOK
  <2>5. stage' \in [Orders -> Stages] /\ quantity_fulfilled' \in [Lines -> Int]
    BY <1>11, <2>1 DEF RestockFulfillment, TypeOK, Stages
  <2> QED BY <1>11, <2>2, <2>3, <2>4, <2>5 DEF RestockFulfillment, TypeOK, holds
<1>12. ASSUME NEW s \in Stocks, NEW n \in 0..MaxQuantity, SetQuantity(s, n)
       PROVE  TypeOK'
  BY <1>12 DEF SetQuantity, TypeOK, holds, lines
<1>13. CASE DeleteExpiredReservations
  BY <1>13 DEF DeleteExpiredReservations, TypeOK, rows, lines
<1>14. CASE UNCHANGED vars
  BY <1>14 DEF vars, TypeOK
<1> QED BY <1>1, <1>2, <1>3, <1>4, <1>5, <1>6, <1>7, <1>8, <1>9, <1>10, <1>11,
           <1>12, <1>13, <1>14 DEF Next

LEMMA TypeInit == Init => TypeOK
BY DataModel DEF Init, TypeOK, Stages

(* Every value the ledger takes is of its database type: no allocation or  *)
(* reservation ever becomes negative, however deallocate_stock and the     *)
(* allocation loops split a line over stocks.                              *)
THEOREM TypesAreKept == Spec => []TypeOK
BY TypeInit, TypeStep, PTL DEF Spec

-----------------------------------------------------------------------------
(* The counter of every stock is exact.                                    *)

(* Rows that only shrink, of orders that stay orders, keep the other parts *)
(* of the ledger's invariant.                                              *)
LEMMA ShrinkingRows ==
  ASSUME allocation \in Rows, allocation' \in Rows,
         AllocationsMatchVariants, CartsHoldNothing,
         \A l \in Lines, s \in Stocks : allocation'[l][s] <= allocation[l][s],
         \A o \in Orders : IsOrder(o) => IsOrder(o)'
  PROVE  AllocationsMatchVariants' /\ CartsHoldNothing'
<1>1. \A l \in Lines, s \in Stocks : allocation[l][s] \in Nat /\ allocation'[l][s] \in Nat
  BY DEF Rows
<1>2. \A l \in Lines, s \in Stocks : allocation'[l][s] > 0 => allocation[l][s] > 0
  BY <1>1
<1>3. AllocationsMatchVariants'
  BY <1>2 DEF AllocationsMatchVariants
<1>4. ASSUME NEW l \in Lines, ~IsOrder(OrderOf[l])', NEW s \in Stocks
      PROVE  allocation'[l][s] = 0
  <2>1. ~IsOrder(OrderOf[l])
    BY <1>4, DataModel
  <2>2. allocation[l][s] = 0
    BY <2>1 DEF CartsHoldNothing
  <2> QED BY <1>1, <2>2
<1>5. CartsHoldNothing'
  BY <1>4 DEF CartsHoldNothing
<1> QED BY <1>3, <1>5

(* A call of deallocate_stock for lines of one order keeps the invariant.  *)
LEMMA DeallocateKeepsCounters ==
  ASSUME DistinctVariants, CounterInvariant, TypeOK',
         NEW o, NEW L \in SUBSET LinesOf(o), NEW n, \A l \in L : n[l] \in Int,
         Deallocate(n, L), \A p \in Orders : IsOrder(p) => IsOrder(p)'
  PROVE  CounterInvariant'
<1>1. TypeOK /\ AllocationsMatchVariants /\ CartsHoldNothing /\ CounterIsExact
  BY DEF CounterInvariant
<1>2. L \in SUBSET Lines
  BY DEF LinesOf
<1>3. allocation \in Rows /\ allocation' \in Rows
  BY <1>1 DEF TypeOK, Rows
<1>4. \A l \in Lines, s \in Stocks : allocation'[l][s] <= allocation[l][s]
  BY <1>1, <1>2, DeallocateTypes
<1>5. AllocationsMatchVariants' /\ CartsHoldNothing'
  BY ONLY <1>1, <1>3, <1>4, ShrinkingRows, \A p \in Orders : IsOrder(p) => IsOrder(p)'
<1>6. CounterIsExact'
  BY <1>1, DeallocateKeepsCounter
<1> QED BY <1>5, <1>6 DEF CounterInvariant

(* The order made of a checkout writes rows that were zero. *)
LEMMA CompleteCheckoutKeepsCounters ==
  ASSUME DistinctVariants, CounterInvariant, TypeOK',
         NEW o \in Orders, CompleteCheckout(o)
  PROVE  CounterInvariant'
<1> DEFINE mine == LinesOf(o)
           seen == [s \in Stocks |-> 0]
           held == HeldByOthers(mine)
           enough == CanAllocate(Ordered, mine, seen, held)
           picked == ToAllocate(Ordered, mine, seen, held)
<1>1. TypeOK /\ AllocationsMatchVariants /\ CartsHoldNothing /\ CounterIsExact
  BY DEF CounterInvariant
<1>2. mine \in SUBSET Lines /\ \A l \in mine : Ordered[l] \in Int
  BY DataModel DEF LinesOf
<1>3. seen \in [Stocks -> Int] /\ held \in [Stocks -> Int]
  <2>1. reservation \in Rows
    BY <1>1 DEF TypeOK, Rows
  <2> QED BY <2>1, LiveReservedIsNat DEF HeldByOthers
<1>4. /\ picked \in [mine -> [Stocks -> Nat]]
      /\ \A l \in mine, s \in Stocks : picked[l][s] > 0 => StockVariant[s] = LineVariant[l]
  <2> HIDE DEF mine, seen, held
  <2> QED BY ONLY <1>1, <1>2, <1>3, AllocateTypes
<1>5. /\ allocation' = [l \in Lines |-> IF enough /\ l \in mine
                                        THEN picked[l] ELSE allocation[l]]
      /\ quantity_allocated' = [s \in Stocks |->
           quantity_allocated[s] + IF enough THEN BulkDelta(picked, mine, s) ELSE 0]
      /\ stage[o] = "checked"
      /\ stage' = [stage EXCEPT ![o] = IF enough THEN "placed" ELSE "refused"]
  BY DEF CompleteCheckout
<1>6. \A l \in mine, s \in Stocks : allocation[l][s] = 0
  BY <1>1, <1>5 DEF CartsHoldNothing, IsOrder, LinesOf
<1>7. \A l, k \in mine : LineVariant[l] = LineVariant[k] => l = k
  BY DEF DistinctVariants, LinesOf
<1>8. \A l \in mine : OrderOf[l] = o
  BY DEF LinesOf
<1>9. \A l \in Lines \ mine : OrderOf[l] # o
  BY DEF LinesOf
<1> HIDE DEF mine, seen, held, enough, picked
<1>10. allocation \in Rows /\ allocation' \in Rows
       /\ quantity_allocated \in [Stocks -> Int] /\ stage \in [Orders -> Stages]
  BY <1>1 DEF TypeOK, Rows
<1>11. CASE ~enough
  <2>1. allocation' = allocation
    BY <1>5, <1>10, <1>11 DEF Rows
  <2>2. quantity_allocated' = quantity_allocated
    BY <1>5, <1>10, <1>11
  <2>3. CounterIsExact'
    BY <1>1, <2>1, <2>2 DEF CounterIsExact, Allocated
  <2>4. AllocationsMatchVariants'
    BY <1>1, <2>1 DEF AllocationsMatchVariants
  <2>5. \A p \in Orders : IsOrder(p) => IsOrder(p)'
    BY <1>5, <1>10 DEF IsOrder
  <2>6. CartsHoldNothing'
    BY <1>1, <2>1, <2>5, DataModel DEF CartsHoldNothing
  <2> QED BY <2>3, <2>4, <2>6 DEF CounterInvariant
<1>12. CASE enough
  <2>1. \A l \in mine : allocation'[l] = picked[l]
    BY <1>2, <1>5, <1>12
  <2>2. \A l \in Lines \ mine : allocation'[l] = allocation[l]
    BY <1>5
  <2>3. AllocationsMatchVariants'
    <3> SUFFICES ASSUME NEW l \in Lines, NEW s \in Stocks, allocation'[l][s] > 0
                 PROVE  StockVariant[s] = LineVariant[l]
      BY DEF AllocationsMatchVariants
    <3>1. CASE l \in mine
      BY <1>4, <2>1, <3>1
    <3>2. CASE l \notin mine
      BY <1>1, <2>2, <3>2 DEF AllocationsMatchVariants
    <3> QED BY <3>1, <3>2
  <2>4. CartsHoldNothing'
    <3> SUFFICES ASSUME NEW l \in Lines, ~IsOrder(OrderOf[l])', NEW s \in Stocks
                 PROVE  allocation'[l][s] = 0
      BY DEF CartsHoldNothing
    <3>1. IsOrder(o)'
      BY <1>5, <1>10, <1>12 DEF IsOrder
    <3>2. l \notin mine
      BY <1>8, <3>1
    <3>3. stage'[OrderOf[l]] = stage[OrderOf[l]]
      BY <1>5, <1>9, <1>10, <3>2, DataModel
    <3>4. ~IsOrder(OrderOf[l])
      BY <3>3 DEF IsOrder
    <3> QED BY <1>1, <2>2, <3>2, <3>4 DEF CartsHoldNothing
  <2>5. ASSUME NEW s \in Stocks
        PROVE  \/ /\ quantity_allocated'[s] = quantity_allocated[s]
                  /\ \A l \in Lines : allocation'[l][s] = allocation[l][s]
               \/ \E x \in Lines :
                    /\ quantity_allocated'[s] =
                         quantity_allocated[s] - allocation[x][s] + allocation'[x][s]
                    /\ \A l \in Lines \ {x} : allocation'[l][s] = allocation[l][s]
    <3>1. \A l, k \in mine : picked[l][s] > 0 /\ picked[k][s] > 0 => l = k
      BY <1>4, <1>7
    <3>2. \/ /\ BulkDelta(picked, mine, s) = 0
             /\ \A l \in mine : picked[l][s] = 0
          \/ \E x \in mine : /\ BulkDelta(picked, mine, s) = picked[x][s]
                             /\ \A l \in mine \ {x} : picked[l][s] = 0
      BY ONLY <1>2, <1>4, <3>1, BulkDeltaOfOne
    <3>3. quantity_allocated'[s] = quantity_allocated[s] + BulkDelta(picked, mine, s)
          /\ quantity_allocated[s] \in Int
      BY <1>5, <1>10, <1>12
    <3>4. \A l \in mine : picked[l][s] = 0 => allocation'[l][s] = allocation[l][s]
      BY <1>6, <2>1
    <3>5. CASE /\ BulkDelta(picked, mine, s) = 0
               /\ \A l \in mine : picked[l][s] = 0
      BY <2>2, <3>3, <3>4, <3>5
    <3>6. ASSUME NEW x \in mine, BulkDelta(picked, mine, s) = picked[x][s],
                 \A l \in mine \ {x} : picked[l][s] = 0
          PROVE  /\ quantity_allocated'[s] =
                      quantity_allocated[s] - allocation[x][s] + allocation'[x][s]
                 /\ \A l \in Lines \ {x} : allocation'[l][s] = allocation[l][s]
      <4>1. allocation[x][s] = 0 /\ allocation'[x][s] = picked[x][s] /\ picked[x][s] \in Nat
        BY <1>4, <1>6, <2>1
      <4>2. \A l \in Lines \ {x} : allocation'[l][s] = allocation[l][s]
        BY <2>2, <3>4, <3>6
      <4> QED BY <3>3, <3>6, <4>1, <4>2
    <3> QED BY <1>2, <3>2, <3>5, <3>6
  <2>6. CounterIsExact'
    BY ONLY <1>1, <1>10, <2>5, CounterFollows
  <2> QED BY <2>3, <2>4, <2>6 DEF CounterInvariant
<1> QED BY <1>11, <1>12

(* increase_allocations replaces the rows of one line of an order. *)
LEMMA IncreaseAllocationsKeepsCounters ==
  ASSUME CounterInvariant, TypeOK',
         NEW l \in Lines, NEW n \in Nat, IncreaseAllocations(l, n)
  PROVE  CounterInvariant'
<1>1. TypeOK /\ AllocationsMatchVariants /\ CartsHoldNothing /\ CounterIsExact
  BY DEF CounterInvariant
<1>2. /\ \A s \in Stocks : quantity_allocated'[s] =
           quantity_allocated[s] - allocation[l][s] + allocation'[l][s]
      /\ \A k \in Lines \ {l} : allocation'[k] = allocation[k]
      /\ \A s \in Stocks : allocation'[l][s] > 0 => StockVariant[s] = LineVariant[l]
  BY <1>1, IncreaseAllocationsTypes
<1>3. allocation \in Rows /\ allocation' \in Rows
  BY <1>1 DEF TypeOK, Rows
<1>4. CounterIsExact'
  BY <1>1, <1>2, <1>3, CounterFollows
<1>5. AllocationsMatchVariants'
  BY <1>1, <1>2 DEF AllocationsMatchVariants
<1>6. stage' = stage /\ stage[OrderOf[l]] = "placed"
  BY DEF IncreaseAllocations
<1>7. CartsHoldNothing'
  BY <1>1, <1>2, <1>6 DEF CartsHoldNothing, IsOrder
<1> QED BY <1>4, <1>5, <1>7 DEF CounterInvariant

(* cancel_fulfillment adds to the row of one stock, whose counter follows. *)
LEMMA RestockKeepsCounters ==
  ASSUME CounterInvariant, TypeOK', NEW l \in Lines, NEW n \in 1..MaxOrdered,
         NEW from \in Stocks, NEW to \in Stocks, RestockFulfillment(l, from, to, n)
  PROVE  CounterInvariant'
<1>1. TypeOK /\ AllocationsMatchVariants /\ CartsHoldNothing /\ CounterIsExact
  BY DEF CounterInvariant
<1>2. allocation \in Rows /\ allocation' \in Rows
  BY <1>1 DEF TypeOK, Rows
<1>3. /\ allocation' = [allocation EXCEPT ![l][to] = @ + n]
      /\ quantity_allocated' = [quantity_allocated EXCEPT ![to] = @ + n]
      /\ stage' = [stage EXCEPT ![OrderOf[l]] = "confirmed"]
      /\ StockVariant[to] = LineVariant[l]
  BY DEF RestockFulfillment, StocksOf
<1>4. \A k \in Lines, s \in Stocks : k # l \/ s # to =>
        allocation'[k][s] = allocation[k][s]
  BY <1>2, <1>3 DEF Rows
<1>5. ASSUME NEW s \in Stocks
      PROVE  \/ /\ quantity_allocated'[s] = quantity_allocated[s]
                /\ \A k \in Lines : allocation'[k][s] = allocation[k][s]
             \/ \E x \in Lines :
                  /\ quantity_allocated'[s] =
                       quantity_allocated[s] - allocation[x][s] + allocation'[x][s]
                  /\ \A k \in Lines \ {x} : allocation'[k][s] = allocation[k][s]
  <2>1. CASE s = to
    <3>1. allocation'[l][s] = allocation[l][s] + n
      BY <1>2, <1>3, <2>1 DEF Rows
    <3>2. quantity_allocated'[s] = quantity_allocated[s] + n
      BY <1>1, <1>3, <2>1 DEF TypeOK
    <3>3. /\ quantity_allocated[s] \in Int /\ allocation[l][s] \in Nat
          /\ n \in Nat
      BY <1>1, <1>2, DataModel DEF TypeOK, Rows
    <3>4. quantity_allocated'[s] =
            quantity_allocated[s] - allocation[l][s] + allocation'[l][s]
      BY <3>1, <3>2, <3>3
    <3> QED BY <1>4, <3>4
  <2>2. CASE s # to
    BY <1>1, <1>3, <1>4, <2>2 DEF TypeOK
  <2> QED BY <2>1, <2>2
<1>6. CounterIsExact'
  BY ONLY <1>1, <1>2, <1>5, CounterFollows
<1>7. AllocationsMatchVariants'
  BY <1>1, <1>3, <1>4 DEF AllocationsMatchVariants
<1>8. CartsHoldNothing'
  <2> SUFFICES ASSUME NEW k \in Lines, ~IsOrder(OrderOf[k])', NEW s \in Stocks
               PROVE  allocation'[k][s] = 0
    BY DEF CartsHoldNothing
  <2>1. stage \in [Orders -> Stages] /\ OrderOf[l] \in Orders /\ OrderOf[k] \in Orders
    BY <1>1, DataModel DEF TypeOK
  <2>2. OrderOf[k] # OrderOf[l]
    BY <1>3, <2>1 DEF IsOrder
  <2>3. ~IsOrder(OrderOf[k])
    BY <1>3, <2>1, <2>2 DEF IsOrder
  <2> QED BY <1>1, <1>4, <2>2, <2>3 DEF CartsHoldNothing
<1> QED BY <1>6, <1>7, <1>8 DEF CounterInvariant

(* Steps that change no allocation and no counter. *)
LEMMA SameRowsKeepCounters ==
  ASSUME CounterInvariant, TypeOK', allocation' = allocation,
         quantity_allocated' = quantity_allocated,
         \A o \in Orders : IsOrder(o) => IsOrder(o)'
  PROVE  CounterInvariant'
<1>1. AllocationsMatchVariants /\ CartsHoldNothing /\ CounterIsExact
  BY DEF CounterInvariant
<1>2. CounterIsExact'
  BY <1>1 DEF CounterIsExact, Allocated
<1>3. AllocationsMatchVariants' /\ CartsHoldNothing'
  BY <1>1, DataModel DEF AllocationsMatchVariants, CartsHoldNothing
<1> QED BY <1>2, <1>3 DEF CounterInvariant

LEMMA CounterStep ==
  ASSUME DistinctVariants, CounterInvariant, [Next]_vars
  PROVE  CounterInvariant'
<1>1. TypeOK
  BY DEF CounterInvariant
<1>2. TypeOK'
  BY <1>1, TypeStep
<1>3. stage \in [Orders -> Stages]
  BY <1>1 DEF TypeOK
<1>4. ASSUME NEW o \in Orders, NEW next \in {"reserving", "checked"},
             CheckStock(o, next)
      PROVE  CounterInvariant'
  <2>1. \A p \in Orders : IsOrder(p) => IsOrder(p)'
    BY <1>3, <1>4 DEF CheckStock, IsOrder
  <2> QED BY <1>2, <1>4, <2>1, SameRowsKeepCounters DEF CheckStock, rows
<1>5. ASSUME NEW o \in Orders, ReserveStocks(o)
      PROVE  CounterInvariant'
  <2>1. \A p \in Orders : IsOrder(p) => IsOrder(p)'
    BY <1>3, <1>5 DEF ReserveStocks, IsOrder
  <2> QED BY <1>2, <1>5, <2>1, SameRowsKeepCounters DEF ReserveStocks, rows
<1>6. ASSUME NEW o \in Orders, ReservationsExpire(o)
      PROVE  CounterInvariant'
  BY <1>2, <1>6, SameRowsKeepCounters DEF ReservationsExpire, rows, IsOrder
<1>7. ASSUME NEW o \in Orders, CompleteCheckout(o)
      PROVE  CounterInvariant'
  BY <1>2, <1>7, CompleteCheckoutKeepsCounters
<1>8. ASSUME NEW o \in Orders, ConfirmOrder(o)
      PROVE  CounterInvariant'
  <2>1. \A p \in Orders : IsOrder(p) => IsOrder(p)'
    BY <1>3, <1>8 DEF ConfirmOrder, IsOrder
  <2> QED BY <1>2, <1>8, <2>1, SameRowsKeepCounters DEF ConfirmOrder, rows
<1>9. ASSUME NEW o \in Orders, NEW w, NEW ship \in Amounts(o), NEW exceed,
             DecreaseStock(o, w, ship, exceed)
      PROVE  CounterInvariant'
  <2> DEFINE sent == {l \in LinesOf(o) : ship[l] > 0}
  <2>1. sent \in SUBSET LinesOf(o) /\ \A l \in sent : ship[l] \in Int
    BY DEF Amounts
  <2>2. Deallocate(ship, sent)
    BY <1>9 DEF DecreaseStock
  <2>3. \A p \in Orders : IsOrder(p) => IsOrder(p)'
    BY <1>3, <1>9 DEF DecreaseStock, IsOrder
  <2> HIDE DEF sent
  <2> QED BY <1>2, <2>1, <2>2, <2>3, DeallocateKeepsCounters
<1>10. ASSUME NEW o \in Orders, NEW move \in Amounts(o), NEW closes,
              MoveToFulfillment(o, move, closes)
       PROVE  CounterInvariant'
  <2> DEFINE mine == LinesOf(o)
  <2>1. mine \in SUBSET LinesOf(o) /\ \A l \in mine : move[l] \in Int
    BY DEF Amounts
  <2>2. Deallocate(move, mine)
    BY <1>10 DEF MoveToFulfillment
  <2>3. \A p \in Orders : IsOrder(p) => IsOrder(p)'
    BY <1>3, <1>10 DEF MoveToFulfillment, IsOrder
  <2> HIDE DEF mine
  <2> QED BY <1>2, <2>1, <2>2, <2>3, DeallocateKeepsCounters
<1>11. ASSUME NEW l \in Lines, NEW n \in 1..MaxOrdered, IncreaseAllocations(l, n)
       PROVE  CounterInvariant'
  <2>1. n \in Nat
    BY DataModel
  <2> QED BY <1>2, <1>11, <2>1, IncreaseAllocationsKeepsCounters
<1>12. ASSUME NEW l \in Lines, NEW n \in 1..MaxOrdered, DecreaseAllocations(l, n)
       PROVE  CounterInvariant'
  <2> DEFINE o == OrderOf[l]
             L == {l}
             amount == [k \in {l} |-> n]
  <2>1. L \in SUBSET LinesOf(o) /\ \A k \in L : amount[k] \in Int
    BY DEF LinesOf
  <2>2. Deallocate(amount, L)
    BY <1>12 DEF DecreaseAllocations
  <2>3. \A p \in Orders : IsOrder(p) => IsOrder(p)'
    BY <1>12 DEF DecreaseAllocations, IsOrder
  <2> HIDE DEF o, L, amount
  <2> QED BY <1>2, <2>1, <2>2, <2>3, DeallocateKeepsCounters
<1>13. ASSUME NEW l \in Lines, NEW n \in 1..MaxOrdered, NEW s \in Stocks,
              ReturnProducts(l, s, n)
       PROVE  CounterInvariant'
  BY <1>2, <1>13, SameRowsKeepCounters DEF ReturnProducts, IsOrder
<1>14. ASSUME NEW l \in Lines, NEW n \in 1..MaxOrdered,
              NEW from \in Stocks, NEW to \in Stocks,
              RestockFulfillment(l, from, to, n)
       PROVE  CounterInvariant'
  BY <1>2, <1>14, RestockKeepsCounters
<1>15. ASSUME NEW s \in Stocks, NEW n \in 0..MaxQuantity, SetQuantity(s, n)
       PROVE  CounterInvariant'
  BY <1>2, <1>15, SameRowsKeepCounters DEF SetQuantity, IsOrder
<1>16. CASE DeleteExpiredReservations
  BY <1>2, <1>16, SameRowsKeepCounters DEF DeleteExpiredReservations, rows, IsOrder
<1>17. CASE UNCHANGED vars
  BY <1>2, <1>17, SameRowsKeepCounters DEF vars, IsOrder
<1> QED BY <1>4, <1>5, <1>6, <1>7, <1>8, <1>9, <1>10, <1>11, <1>12, <1>13, <1>14,
           <1>15, <1>16, <1>17 DEF Next

LEMMA CounterInit == Init => CounterInvariant
<1> SUFFICES ASSUME Init PROVE CounterInvariant
  OBVIOUS
<1>1. TypeOK
  BY TypeInit
<1>2. allocation = [l \in Lines |-> [s \in Stocks |-> 0]]
      /\ quantity_allocated = [s \in Stocks |-> 0]
  BY DEF Init
<1>3. AllocationsMatchVariants /\ CartsHoldNothing
  BY <1>2 DEF AllocationsMatchVariants, CartsHoldNothing
<1>4. CounterIsExact
  <2> SUFFICES ASSUME NEW s \in Stocks PROVE Allocated(s) = 0
    BY <1>2 DEF CounterIsExact
  <2>1. \A l \in Lines : Column(allocation, s)[l] = 0
    BY <1>2 DEF Column
  <2> QED BY <2>1, SumZero DEF Allocated, Column
<1> QED BY <1>1, <1>3, <1>4 DEF CounterInvariant

(* The denormalised counter of every stock equals the sum of its           *)
(* Allocation rows after any sequence of requests, for any number of       *)
(* stocks, lines, orders and variants, when no order has two lines of one  *)
(* variant.                                                                *)
THEOREM CountersStayExact ==
  ASSUME DistinctVariants
  PROVE  Spec => []CounterIsExact
<1>1. CounterInvariant /\ [Next]_vars => CounterInvariant'
  BY CounterStep
<1>2. CounterInvariant => CounterIsExact
  BY DEF CounterInvariant
<1> QED BY CounterInit, <1>1, <1>2, PTL DEF Spec
=============================================================================
