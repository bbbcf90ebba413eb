------------------------------ MODULE Warehouse ------------------------------
(***************************************************************************)
(* The stock ledger of saleor/warehouse: Stock rows (quantity and the      *)
(* denormalised counter quantity_allocated), Allocation rows (units of a   *)
(* stock promised to an order line), Reservation rows (units held for a    *)
(* checkout line), and the functions of management.py, reservations.py and *)
(* availability.py that move units between them.                           *)
(*                                                                         *)
(* A checkout and the order made of it share one identifier, and so do a   *)
(* checkout line and its order line.  Every variant tracks inventory and   *)
(* none is a preorder; there is one channel and one country, without       *)
(* click-and-collect points.                                               *)
(*                                                                         *)
(* One action is one database transaction, or the part of one between two  *)
(* points at which other transactions can be seen: the functions that      *)
(* change allocations lock the Stock rows first (select_for_update), the   *)
(* availability check does not, so CheckStock is a step of its own.        *)
(***************************************************************************)
EXTENDS Sums

CONSTANTS
  Stocks,           \* primary keys of the Stock rows, ordered as in the database
  Lines,            \* primary keys of the checkout / order lines
  Orders,           \* the checkouts and the orders they become
  Variants,         \* product variants
  StockVariant,     \* Stock.product_variant
  StockWarehouse,   \* Stock.warehouse: its index in the channel's sort order
  LineVariant,      \* CheckoutLine.variant, OrderLine.variant
  OrderOf,          \* OrderLine.order
  Ordered,          \* CheckoutLine.quantity
  InitialQuantity,  \* Stock.quantity at the start
  HighStockFirst,   \* AllocationStrategy is PRIORITIZE_HIGH_STOCK
  MaxQuantity,      \* bound on a quantity a staff member types in
  MaxOrdered,       \* bound on the quantity an edited order line grows to
  MaxOverdraft      \* bound on how far a stock is shipped below zero

ASSUME DataModel ==
  /\ Stocks \subseteq Nat /\ IsFiniteSet(Stocks)
  /\ Lines \subseteq Nat /\ IsFiniteSet(Lines)
  /\ StockVariant \in [Stocks -> Variants]
  /\ StockWarehouse \in [Stocks -> Nat]
  /\ LineVariant \in [Lines -> Variants]
  /\ OrderOf \in [Lines -> Orders]
  /\ Ordered \in [Lines -> Nat \ {0}]
  /\ InitialQuantity \in [Stocks -> Nat]
  /\ HighStockFirst \in BOOLEAN
  /\ MaxQuantity \in Nat /\ MaxOrdered \in Nat /\ MaxOverdraft \in Nat

(* Stock.Meta.unique_together = [["warehouse", "product_variant"]]. *)
ASSUME OneStockPerWarehouse ==
  \A s, t \in Stocks : /\ StockVariant[s] = StockVariant[t]
                       /\ StockWarehouse[s] = StockWarehouse[t]
                       => s = t

(* No two lines of one order have the same variant: what carts make unless *)
(* a line is forced (forceNewLine, CheckoutLine's Meta allows duplicates). *)
DistinctVariants ==
  \A l, k \in Lines : OrderOf[l] = OrderOf[k] /\ LineVariant[l] = LineVariant[k]
                      => l = k

VARIABLES
  quantity,            \* Stock.quantity
  quantity_allocated,  \* Stock.quantity_allocated
  allocation,          \* Allocation.quantity_allocated, by order line and stock
  reservation,         \* Reservation.quantity_reserved, by checkout line and stock
  live,                \* reserved_until of a checkout's reservations is in the future
  stage,               \* how far a checkout or order has got
  line_quantity,       \* OrderLine.quantity
  quantity_fulfilled,  \* OrderLine.quantity_fulfilled
  shipped              \* FulfillmentLine.quantity of FULFILLED fulfillments

rows == <<quantity, quantity_allocated, allocation>>
holds == <<reservation, live>>
lines == <<line_quantity, quantity_fulfilled, shipped>>
vars == <<quantity, quantity_allocated, allocation, reservation, live, stage,
          line_quantity, quantity_fulfilled, shipped>>

(* "cart": an open checkout; "reserving" and "checked": the availability   *)
(* check of a cart mutation or of checkoutComplete has passed; "refused":  *)
(* the last mutation answered INSUFFICIENT_STOCK; "placed": an UNCONFIRMED *)
(* order; "confirmed": any later status; "closed": CANCELED or EXPIRED.    *)
Stages == {"cart", "reserving", "checked", "refused",
           "placed", "confirmed", "closed"}
IsOrder(o) == stage[o] \in {"placed", "confirmed", "closed"}

StocksOf(v) == {s \in Stocks : StockVariant[s] = v}
LinesOf(o) == {l \in Lines : OrderOf[l] = o}
Unfulfilled(l) == line_quantity[l] - quantity_fulfilled[l]

-----------------------------------------------------------------------------
(* What the queries return. *)

Allocated(s) == SumOver([l \in Lines |-> allocation[l][s]], Lines)

Reserved(s) == SumOver([l \in Lines |-> reservation[l][s]], Lines)

(* .not_expired().exclude_checkout_lines(mine) *)
LiveReserved(s, mine) ==
  SumOver([l \in Lines |-> reservation[l][s]],
          {l \in Lines \ mine : live[OrderOf[l]]})

(* sort_stocks: list.sort is stable, so ties keep the order of the primary keys. *)
Precedes(t, s, seen) ==
  LET Left(u) == quantity[u] - seen[u]
  IN  IF HighStockFirst
      THEN Left(t) > Left(s) \/ (Left(t) = Left(s) /\ t < s)
      ELSE StockWarehouse[t] < StockWarehouse[s]

(* The loop of _create_allocations and of _create_stock_reservations: take *)
(* from each stock of the variant, in order, what it has free until n      *)
(* units are found.                                                        *)
Usable(free) == [s \in Stocks |-> AtLeastZero(free[s])]
Enough(n, v, free) == SumOver(Usable(free), StocksOf(v)) >= n
PickAnywhere(n, v, free, seen) ==
  [s \in Stocks |->
     AtLeastZero(Least(free[s], n - SumOver(Usable(free),
                                     {t \in Stocks : Precedes(t, s, seen)})))]
Pick(n, v, free, seen) ==
  [s \in Stocks |->
     IF s \in StocksOf(v)
     THEN LET earlier == {t \in StocksOf(v) : Precedes(t, s, seen)}
          IN  AtLeastZero(Least(free[s], n - SumOver(Usable(free), earlier)))
     ELSE 0]

(* Stock.objects.bulk_update(stocks, ["quantity_allocated"]) after a loop  *)
(* that loads one Stock object per allocation and gives each                *)
(* F("quantity_allocated") + delta: the UPDATE is a CASE with one WHEN per *)
(* object, and of several WHENs for one row only the first applies.        *)
BulkDelta(delta, L, s) ==
  LET touching == {l \in L : delta[l][s] > 0}
  IN  IF touching = {} THEN 0
      ELSE delta[CHOOSE l \in touching : \A k \in touching : l <= k][s]

(* Two ways to get the loop of deallocate_stock wrong: to forget what the  *)
(* earlier allocations gave, or what this allocation has.                  *)
ReleasedFromEach(n, L) ==
  [l \in L |-> [s \in Stocks |-> Least(allocation[l][s], n[l])]]
ReleasedUnbounded(n, L) ==
  [l \in L |-> [s \in Stocks |->
     AtLeastZero(n[l] - SumOver(allocation[l], {t \in Stocks : t < s}))]]

(* deallocate_stock: n[l] units of each line, from its allocations in the  *)
(* order of the stocks' primary keys.                                      *)
Released(n, L) ==
  [l \in L |-> [s \in Stocks |->
     AtLeastZero(Least(allocation[l][s],
                       n[l] - SumOver(allocation[l], {t \in Stocks : t < s})))]]

(* deallocate_stock without its bulk_update of the stocks. *)
DeallocateRowsOnly(n, L) ==
  /\ allocation' = [l \in Lines |-> IF l \in L
                      THEN [s \in Stocks |-> allocation[l][s] - Released(n, L)[l][s]]
                      ELSE allocation[l]]
  /\ UNCHANGED quantity_allocated

Deallocate(n, L) ==
  LET d == Released(n, L)
  IN  /\ allocation' = [l \in Lines |-> IF l \in L
                          THEN [s \in Stocks |-> allocation[l][s] - d[l][s]]
                          ELSE allocation[l]]
      /\ quantity_allocated' =
           [s \in Stocks |-> quantity_allocated[s] - BulkDelta(d, L, s)]

-----------------------------------------------------------------------------
Init ==
  /\ quantity = InitialQuantity
  /\ quantity_allocated = [s \in Stocks |-> 0]
  /\ allocation = [l \in Lines |-> [s \in Stocks |-> 0]]
  /\ reservation = [l \in Lines |-> [s \in Stocks |-> 0]]
  /\ live = [o \in Orders |-> FALSE]
  /\ stage = [o \in Orders |-> "cart"]
  /\ line_quantity = Ordered
  /\ quantity_fulfilled = [l \in Lines |-> 0]
  /\ shipped = [l \in Lines |-> [s \in Stocks |-> 0]]

-----------------------------------------------------------------------------
(* Carts: the availability check, and the reservations. *)

(* check_stock_quantity_bulk: one line against the stocks of its variant,  *)
(* less every reservation of them, whoever holds it and expired or not.    *)
Suffices(l) ==
  LET S == StocksOf(LineVariant[l])
      available == NetSum([s \in Stocks |-> quantity[s] - Allocated(s)], S)
      reserved == SumOver([s \in Stocks |-> Reserved(s)], S)
  IN  Ordered[l] <= AtLeastZero(available - reserved)

(* The check of a cart mutation (next = "reserving") or of checkoutComplete *)
(* (next = "checked").  It takes no lock: the mutation goes on later.       *)
CheckStock(o, next) ==
  /\ stage[o] \in {"cart", "refused"}
  /\ stage' = [stage EXCEPT ![o] =
                 IF \A l \in LinesOf(o) : Suffices(l) THEN next ELSE "refused"]
  /\ UNCHANGED <<rows, holds, lines>>

(* What reserve_stocks may take, and the same without the query of the     *)
(* other checkouts' reservations.                                          *)
ReservableIgnoringOthers(mine) == [s \in Stocks |-> quantity[s] - Allocated(s)]
Reservable(mine) ==
  [s \in Stocks |-> quantity[s] - Allocated(s) - LiveReserved(s, mine)]

(* reserve_stocks, for all the lines of the checkout. *)
ReserveStocks(o) ==
  LET mine == LinesOf(o)
      seen == [s \in Stocks |-> Allocated(s)]
      free == Reservable(mine)
      enough == \A l \in mine : Enough(Ordered[l], LineVariant[l], free)
  IN  /\ stage[o] = "reserving"
      /\ reservation' = [l \in Lines |->
           IF enough /\ l \in mine
           THEN Pick(Ordered[l], LineVariant[l], free, seen)
           ELSE reservation[l]]
      /\ live' = [live EXCEPT ![o] = @ \/ enough]
      /\ stage' = [stage EXCEPT ![o] = IF enough THEN "cart" ELSE "refused"]
      /\ UNCHANGED <<rows, lines>>

(* Time passes reserved_until. *)
ReservationsExpire(o) ==
  /\ live[o]
  /\ live' = [live EXCEPT ![o] = FALSE]
  /\ UNCHANGED <<rows, reservation, stage, lines>>

(* The task below if it looked for reservations through their checkout. *)
DeleteExpiredOfCheckouts ==
  /\ \E l \in Lines, s \in Stocks : ~live[OrderOf[l]] /\ reservation[l][s] > 0
  /\ reservation' = [l \in Lines |->
       IF live[OrderOf[l]] \/ IsOrder(OrderOf[l]) THEN reservation[l]
       ELSE [s \in Stocks |-> 0]]
  /\ UNCHANGED <<rows, live, stage, lines>>

(* delete_expired_reservations_task *)
DeleteExpiredReservations ==
  /\ \E l \in Lines, s \in Stocks : ~live[OrderOf[l]] /\ reservation[l][s] > 0
  /\ reservation' = [l \in Lines |-> IF live[OrderOf[l]] THEN reservation[l]
                                     ELSE [s \in Stocks |-> 0]]
  /\ UNCHANGED <<rows, live, stage, lines>>

-----------------------------------------------------------------------------
(* Orders: allocate_stocks and its callers. *)

(* allocate_stocks for lines L, n[l] units each, when the query of the     *)
(* existing allocations returned seen and the one of reservations held.    *)
(* The maps are not updated between the lines of one call.                 *)
CanAllocate(n, L, seen, held) ==
  \A l \in L : Enough(n[l], LineVariant[l],
                      [s \in Stocks |-> quantity[s] - seen[s] - held[s]])
ToAllocateUnseen(n, L, seen, held) ==
  [l \in L |-> Pick(n[l], LineVariant[l],
                    [s \in Stocks |-> quantity[s] - held[s]], seen)]
ToAllocate(n, L, seen, held) ==
  [l \in L |-> Pick(n[l], LineVariant[l],
                    [s \in Stocks |-> quantity[s] - seen[s] - held[s]], seen)]

(* _prepare_stock_to_reserved_quantity_map with check_reservations=True,   *)
(* and with check_reservations=False.                                      *)
HeldByNobody(mine) == [s \in Stocks |-> 0]
HeldByOthers(mine) == [s \in Stocks |-> LiveReserved(s, mine)]

(* allocate_stocks at the end of create_order_from_checkout, with          *)
(* check_reservations=True: stocks_id is a generator that the query of the *)
(* reservations has used up, so the query of the allocations finds none.   *)
(* The order replaces the checkout: deleting the checkout lines only sets  *)
(* Reservation.checkout_line to NULL.  On InsufficientStock the            *)
(* transaction is rolled back.                                             *)
CompleteCheckout(o) ==
  LET mine == LinesOf(o)
      seen == [s \in Stocks |-> 0]
      held == HeldByOthers(mine)
      enough == CanAllocate(Ordered, mine, seen, held)
      picked == ToAllocate(Ordered, mine, seen, held)
  IN  /\ stage[o] = "checked"
      /\ stage' = [stage EXCEPT ![o] = IF enough THEN "placed" ELSE "refused"]
      /\ allocation' = [l \in Lines |-> IF enough /\ l \in mine
                                        THEN picked[l] ELSE allocation[l]]
      /\ quantity_allocated' = [s \in Stocks |->
           quantity_allocated[s] + IF enough THEN BulkDelta(picked, mine, s) ELSE 0]
      /\ UNCHANGED <<quantity, holds, lines>>

(* increase_allocations, for one line of an UNCONFIRMED order that staff   *)
(* edit: its allocations are deleted and made anew for n more units.       *)
IncreaseAllocations(l, n) ==
  LET others == [s \in Stocks |-> Allocated(s) - allocation[l][s]]
      none == [s \in Stocks |-> 0]
      needed == [k \in {l} |-> n + SumOver(allocation[l], Stocks)]
      picked == ToAllocate(needed, {l}, others, none)[l]
  IN  /\ stage[OrderOf[l]] = "placed"
      /\ line_quantity[l] > 0 /\ line_quantity[l] + n <= MaxOrdered
      /\ CanAllocate(needed, {l}, others, none)
      /\ allocation' = [allocation EXCEPT ![l] = picked]
      /\ quantity_allocated' = [s \in Stocks |->
           quantity_allocated[s] - allocation[l][s] + picked[s]]
      /\ line_quantity' = [line_quantity EXCEPT ![l] = @ + n]
      /\ UNCHANGED <<quantity, holds, stage, quantity_fulfilled, shipped>>

(* decrease_allocations, for a line of an UNCONFIRMED order made smaller,  *)
(* or deleted when nothing is left of it.                                  *)
DecreaseAllocations(l, n) ==
  /\ stage[OrderOf[l]] = "placed"
  /\ n <= line_quantity[l]
  /\ Deallocate([k \in {l} |-> n], {l})
  /\ line_quantity' = [line_quantity EXCEPT ![l] = @ - n]
  /\ UNCHANGED <<quantity, holds, stage, quantity_fulfilled, shipped>>

(* order_confirm, as far as stock is concerned. *)
ConfirmOrder(o) ==
  /\ stage[o] = "placed"
  /\ stage' = [stage EXCEPT ![o] = "confirmed"]
  /\ UNCHANGED <<rows, holds, lines>>

-----------------------------------------------------------------------------
(* Fulfillments. *)

(* create_fulfillments for one warehouse w: decrease_stock deallocates     *)
(* ship[l] units of each line wherever they are allocated, then takes them *)
(* from the stock in w.  Unless the caller allows it, a stock is not taken *)
(* below what remains allocated in it.  update_order_status follows.       *)
DecreaseStock(o, w, ship, exceed) ==
  LET sent == {l \in LinesOf(o) : ship[l] > 0}
      At(l) == {s \in StocksOf(LineVariant[l]) : StockWarehouse[s] = w}
      taken == [s \in Stocks |-> SumOver(ship, {l \in sent : s \in At(l)})]
  IN  /\ IsOrder(o) /\ sent # {}
      /\ \A l \in sent : At(l) # {} /\ ship[l] <= Unfulfilled(l)
      /\ Deallocate(ship, sent)
      /\ exceed \/ \A s \in Stocks :
                     taken[s] > 0 => quantity[s] - Allocated(s)' >= taken[s]
      /\ \A s \in Stocks : taken[s] > 0 => quantity[s] - taken[s] >= -MaxOverdraft
      /\ quantity' = [s \in Stocks |-> quantity[s] - taken[s]]
      /\ quantity_fulfilled' = [l \in Lines |->
           quantity_fulfilled[l] + IF l \in sent THEN ship[l] ELSE 0]
      /\ shipped' = [l \in Lines |-> [s \in Stocks |->
           shipped[l][s] + IF l \in sent /\ s \in At(l) THEN ship[l] ELSE 0]]
      /\ stage' = [stage EXCEPT ![o] = IF @ = "placed" THEN "confirmed" ELSE @]
      /\ UNCHANGED <<holds, line_quantity>>

(* _move_order_lines_to_target_fulfillment: unfulfilled units go to a      *)
(* fulfillment that ships nothing (returned, replaced or refunded lines;   *)
(* with closes, every line of an order that is cancelled or expires).      *)
MoveToFulfillment(o, move, closes) ==
  LET mine == LinesOf(o)
  IN  /\ stage[o] \in {"placed", "confirmed"}
      /\ \E l \in mine : move[l] > 0
      /\ \A l \in mine : move[l] <= Unfulfilled(l)
      /\ closes => \A l \in mine : move[l] = Unfulfilled(l)
      /\ Deallocate(move, mine)
      /\ quantity_fulfilled' = [l \in Lines |->
           quantity_fulfilled[l] + IF l \in mine THEN move[l] ELSE 0]
      /\ stage' = [stage EXCEPT ![o] = IF closes THEN "closed" ELSE "confirmed"]
      /\ UNCHANGED <<quantity, holds, line_quantity, shipped>>

(* cancel_fulfillment: restock_fulfillment_lines brings n units shipped    *)
(* from one stock back to a stock staff choose, allocated to the line      *)
(* again (increase_stock, allocate=True); the order is open again.         *)
RestockFulfillment(l, from, to, n) ==
  /\ shipped[l][from] >= n
  /\ to \in StocksOf(LineVariant[l])
  /\ quantity' = [quantity EXCEPT ![to] = @ + n]
  /\ allocation' = [allocation EXCEPT ![l][to] = @ + n]
  /\ quantity_allocated' = [quantity_allocated EXCEPT ![to] = @ + n]
  /\ quantity_fulfilled' = [quantity_fulfilled EXCEPT ![l] = @ - n]
  /\ shipped' = [shipped EXCEPT ![l][from] = @ - n]
  /\ stage' = [stage EXCEPT ![OrderOf[l]] = "confirmed"]
  /\ UNCHANGED <<holds, line_quantity>>

(* create_return_fulfillment: shipped units come back to their stock. *)
ReturnProducts(l, s, n) ==
  /\ shipped[l][s] >= n
  /\ quantity' = [quantity EXCEPT ![s] = @ + n]
  /\ shipped' = [shipped EXCEPT ![l][s] = @ - n]
  /\ UNCHANGED <<quantity_allocated, allocation, holds, stage,
                 line_quantity, quantity_fulfilled>>

(* Staff set the quantity of a stock: productVariantStocksUpdate and       *)
(* stockBulkUpdate write an absolute value.                                *)
SetQuantity(s, n) ==
  /\ quantity' = [quantity EXCEPT ![s] = n]
  /\ UNCHANGED <<quantity_allocated, allocation, holds, stage, lines>>

-----------------------------------------------------------------------------
Amounts(o) == [LinesOf(o) -> 0..MaxOrdered]

Next ==
  \/ \E o \in Orders :
       \/ \E next \in {"reserving", "checked"} : CheckStock(o, next)
       \/ ReserveStocks(o)
       \/ ReservationsExpire(o)
       \/ CompleteCheckout(o)
       \/ ConfirmOrder(o)
       \/ \E w \in {StockWarehouse[s] : s \in Stocks}, ship \in Amounts(o),
             exceed \in BOOLEAN : DecreaseStock(o, w, ship, exceed)
       \/ \E move \in Amounts(o), closes \in BOOLEAN :
            MoveToFulfillment(o, move, closes)
  \/ \E l \in Lines, n \in 1..MaxOrdered :
       \/ IncreaseAllocations(l, n)
       \/ DecreaseAllocations(l, n)
       \/ \E s \in Stocks : ReturnProducts(l, s, n)
       \/ \E from, to \in Stocks : RestockFulfillment(l, from, to, n)
  \/ \E s \in Stocks, n \in 0..MaxQuantity : SetQuantity(s, n)
  \/ DeleteExpiredReservations

Spec == Init /\ [][Next]_vars

-----------------------------------------------------------------------------
(* The daily celery tasks and the clock run for ever; nothing else must. *)
FairSpec == Spec /\ \A o \in Orders : WF_vars(ReservationsExpire(o))
                 /\ WF_vars(DeleteExpiredReservations)

TypeOK ==
  /\ quantity \in [Stocks -> Int]
  /\ quantity_allocated \in [Stocks -> Int]
  /\ allocation \in [Lines -> [Stocks -> Nat]]
  /\ reservation \in [Lines -> [Stocks -> Nat]]
  /\ live \in [Orders -> BOOLEAN]
  /\ stage \in [Orders -> Stages]
  /\ line_quantity \in [Lines -> Nat]
  /\ quantity_fulfilled \in [Lines -> Int]
  /\ shipped \in [Lines -> [Stocks -> Nat]]

(* Units free for sale in a stock: what management.py computes before it   *)
(* promises anything.                                                      *)
Free(s) == quantity[s] - Allocated(s)

(* The denormalised counter always equals the sum of the Allocation rows,  *)
(* through every allocation, edit, shipment, cancellation and restock.     *)
CounterIsExact == \A s \in Stocks : quantity_allocated[s] = Allocated(s)

(* What makes CounterIsExact inductive: a line is allocated stocks of its  *)
(* own variant, so that two lines of one call never meet in a stock, and a *)
(* cart has no allocations that its order could overwrite.                 *)
AllocationsMatchVariants ==
  \A l \in Lines, s \in Stocks :
    allocation[l][s] > 0 => StockVariant[s] = LineVariant[l]
CartsHoldNothing ==
  \A l \in Lines : ~IsOrder(OrderOf[l]) => \A s \in Stocks : allocation[l][s] = 0
CounterInvariant ==
  TypeOK /\ AllocationsMatchVariants /\ CartsHoldNothing /\ CounterIsExact

(* What is allocated to a line of an order is exactly what has not been    *)
(* fulfilled of it: no unit is promised twice, shipped while still         *)
(* promised, or left promised to a line that is done.                      *)
OwedIsAllocated ==
  \A l \in Lines : IsOrder(OrderOf[l]) =>
    SumOver(allocation[l], Stocks) = Unfulfilled(l)

(* What makes OwedIsAllocated inductive: the lines of a checkout are still *)
(* what the customer ordered, and nothing of them has been shipped or      *)
(* fulfilled, nor of an order that nobody has confirmed.                   *)
NothingShippedYet ==
  \A l \in Lines :
    /\ ~IsOrder(OrderOf[l]) =>
         /\ line_quantity[l] = Ordered[l]
         /\ \A s \in Stocks : shipped[l][s] = 0
    /\ ~IsOrder(OrderOf[l]) \/ stage[OrderOf[l]] = "placed" =>
         quantity_fulfilled[l] = 0
OwedInvariant == TypeOK /\ NothingShippedYet /\ OwedIsAllocated

(* Both sides of the ledger at once: what the stocks say is promised, and  *)
(* what the lines are owed.                                                *)
LedgerInvariant == CounterInvariant /\ OwedInvariant

(* Only three things push a stock (further) below what is promised from    *)
(* it: a checkout (whose allocation does not see other allocations), a     *)
(* shipment with allow_stock_to_be_exceeded, and a quantity typed in.      *)
OverbookingNeedsOverride ==
  [][\A s \in Stocks : Free(s)' < Free(s) /\ Free(s)' < 0 =>
       \/ \E o \in Orders : CompleteCheckout(o)
       \/ \E o \in Orders, w \in {StockWarehouse[t] : t \in Stocks} :
            \E ship \in Amounts(o) : DecreaseStock(o, w, ship, TRUE)
       \/ \E n \in 0..MaxQuantity : SetQuantity(s, n)]_vars

(* A checkout that becomes an order takes nothing another checkout holds   *)
(* by a live reservation, although its own reservations do not count.      *)
CheckoutHonoursReservations ==
  [][\A o \in Orders : stage[o] = "checked" /\ stage'[o] = "placed" =>
       \A s \in Stocks :
         LET mine == SumOver([l \in Lines |-> allocation'[l][s]], LinesOf(o))
         IN  mine > 0 => mine + LiveReserved(s, LinesOf(o)) <= quantity[s]]_vars

(* After reserve_stocks the live reservations and the allocations of a     *)
(* stock the checkout reserved from still fit in its quantity together.    *)
ReservationsFit ==
  [][\A o \in Orders, l \in Lines, s \in Stocks :
       /\ stage[o] = "reserving" /\ stage'[o] = "cart"
       /\ l \in LinesOf(o) /\ reservation'[l][s] > 0
       => LiveReserved(s, {})' + Allocated(s) <= quantity[s]]_vars

(* The reservations of a checkout that became an order are gone sooner or  *)
(* later: they outlive the checkout lines (SET_NULL), so only              *)
(* delete_expired_reservations_task removes them.                          *)
OrphansAreRemoved ==
  \A o \in Orders : IsOrder(o) ~>
    \A l \in LinesOf(o), s \in Stocks : reservation[l][s] = 0

-----------------------------------------------------------------------------
(* What docs, comments and tests say that the code does not do.            *)

(* allocate_stocks takes what is "available in stock", and "if there is    *)
(* less quantity in stocks" raises InsufficientStock (its docstring).      *)
CheckoutRespectsAllocations ==
  [][\A o \in Orders, l \in Lines, s \in Stocks :
       /\ stage[o] = "checked" /\ stage'[o] = "placed"
       /\ l \in LinesOf(o) /\ allocation'[l][s] > 0
       => Free(s)' >= 0]_vars
=============================================================================
