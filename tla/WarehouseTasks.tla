--------------------------- MODULE WarehouseTasks ---------------------------
(***************************************************************************)
(* The celery tasks that work on the stock ledger beside the requests of   *)
(* Warehouse: the daily resynchronisation of Stock.quantity_allocated      *)
(* (saleor/warehouse/tasks.py) and the batch that expires unpaid orders    *)
(* (_expire_orders, deallocate_stock_for_orders).  Neither locks a row     *)
(* between reading the allocations and writing the counters, so each reads *)
(* in one step and writes in another.                                      *)
(***************************************************************************)
EXTENDS Warehouse

CONSTANT ReturnOnCancel   \* variants with return_on_cancel set

ASSUME ReturnOnCancelType == ReturnOnCancel \subseteq Variants

VARIABLES
  counted,   \* update_stocks_quantity_allocated_task: the sum it read for a
             \* mismatched stock, or Unread
  batch,     \* _expire_orders: ids_batch
  decrement  \* deallocate_stock_for_orders: what each counter will lose, or
             \* Unread while the allocations have not been read

taskVars == <<counted, batch, decrement>>
allVars == <<vars, taskVars>>

Unread == -1
NothingRead == [s \in Stocks |-> Unread]

TasksInit == Init /\ counted = NothingRead /\ batch = {} /\ decrement = NothingRead

-----------------------------------------------------------------------------
(* The query below if it looked for counters that are too low only. *)
ReadLowCounters ==
  /\ counted = NothingRead
  /\ counted' = [s \in Stocks |-> IF quantity_allocated[s] < Allocated(s)
                                  THEN Allocated(s) ELSE Unread]
  /\ UNCHANGED <<vars, batch, decrement>>

(* update_stocks_quantity_allocated_task: one query for the stocks whose   *)
(* counter differs from the sum, then bulk_update of absolute values.      *)
ReadMismatches ==
  /\ counted = NothingRead
  /\ counted' = [s \in Stocks |-> IF quantity_allocated[s] # Allocated(s)
                                  THEN Allocated(s) ELSE Unread]
  /\ UNCHANGED <<vars, batch, decrement>>

WriteCounters ==
  /\ counted # NothingRead
  /\ quantity_allocated' = [s \in Stocks |-> IF counted[s] = Unread
                              THEN quantity_allocated[s] ELSE counted[s]]
  /\ counted' = NothingRead
  /\ UNCHANGED <<quantity, allocation, holds, stage, lines, batch, decrement>>

(* _expire_orders: unpaid UNCONFIRMED orders past their age. *)
SelectUnpaid(B) ==
  /\ batch = {}
  /\ B # {} /\ \A o \in B : stage[o] = "placed"
  /\ batch' = B
  /\ UNCHANGED <<vars, counted, decrement>>

(* The lines the batch deallocates, as the query finds them when it runs:  *)
(* those of UNCONFIRMED orders, and of UNFULFILLED ones if the variant says *)
(* so; other orders of the batch keep their allocations.                   *)
IsUnfulfilled(o) ==
  stage[o] = "confirmed" /\ \A l \in LinesOf(o) : quantity_fulfilled[l] <= 0
BatchLines ==
  {l \in Lines : /\ OrderOf[l] \in batch
                 /\ \/ stage[OrderOf[l]] = "placed"
                    \/ /\ IsUnfulfilled(OrderOf[l])
                       /\ LineVariant[l] \in ReturnOnCancel}

(* deallocate_stock_for_orders, its first query: one Stock object per      *)
(* allocation, of which bulk_update will apply one per row of the table.   *)
ReadAllocations ==
  /\ batch # {} /\ decrement = NothingRead
  /\ \E first \in [Stocks -> Lines] :
       /\ \A s \in Stocks : \A l \in BatchLines :
            allocation[l][s] > 0 =>
              first[s] \in BatchLines /\ allocation[first[s]][s] > 0
       /\ decrement' = [s \in Stocks |-> IF first[s] \in BatchLines
                          THEN allocation[first[s]][s] ELSE 0]
  /\ UNCHANGED <<vars, counted, batch>>

(* The rest of the transaction: the query set is evaluated again by        *)
(* allocations.update(quantity_allocated=0), the counters lose what was    *)
(* read before, and every order of the batch becomes EXPIRED.              *)
ExpireBatch ==
  /\ decrement # NothingRead
  /\ allocation' = [l \in Lines |-> IF l \in BatchLines
                      THEN [s \in Stocks |-> 0] ELSE allocation[l]]
  /\ quantity_allocated' = [s \in Stocks |-> quantity_allocated[s] - decrement[s]]
  /\ stage' = [o \in Orders |-> IF o \in batch THEN "closed" ELSE stage[o]]
  /\ batch' = {} /\ decrement' = NothingRead
  /\ UNCHANGED <<quantity, holds, lines, counted>>

TaskStep ==
  \/ ReadMismatches
  \/ WriteCounters
  \/ \E B \in SUBSET Orders : SelectUnpaid(B)
  \/ ReadAllocations
  \/ ExpireBatch

TasksNext == (Next /\ UNCHANGED taskVars) \/ TaskStep

TasksSpec == TasksInit /\ [][TasksNext]_allVars

(* Celery beat starts the resynchronisation every day. *)
FairTasksSpec == TasksSpec /\ WF_allVars(ReadMismatches) /\ WF_allVars(WriteCounters)

TasksTypeOK ==
  /\ TypeOK
  /\ counted \in [Stocks -> Nat \cup {Unread}]
  /\ batch \in SUBSET Orders
  /\ decrement \in [Stocks -> Nat \cup {Unread}]

(* Once only the resynchronisation runs, every counter becomes and stays   *)
(* exact, whatever a write that raced with a request or a batch left.      *)
QuietCountersBecomeExact ==
  <>[][ReadMismatches \/ WriteCounters]_allVars => <>[]CounterIsExact
=============================================================================
