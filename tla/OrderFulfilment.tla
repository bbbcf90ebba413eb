--------------------------- MODULE OrderFulfilment ---------------------------
(***************************************************************************)
(* One order from its confirmation to its end: Order.status, the           *)
(* quantity_fulfilled of its lines, its fulfillments, the captured amount  *)
(* of its payment and the units that left the shelf for it, under the      *)
(* mutations of saleor/graphql/order and the expiry task.                  *)
(*                                                                         *)
(* A mutation validates on rows it reads without a lock and writes later,  *)
(* in a transaction of its own: a read step and a write step.  Where the   *)
(* code computes from the row it validated, the job keeps that copy.  A    *)
(* handler on_commit is a third step.                                      *)
(*                                                                         *)
(* A unit costs one coin, amounts are calculated without the shipping      *)
(* price; gift cards and the channels named "shared" are left out, and a   *)
(* call is about one line.  A fulfillment line is known by its             *)
(* fulfillment, its order line and whether it has a stock.  A call that    *)
(* fails is one that ends without its write (Fail).                        *)
(***************************************************************************)
EXTENDS Sums, Sequences

CONSTANTS
  Lines, Quantity,  \* the order lines and what was ordered
  Shipping,         \* shipping price of the order
  Requests,         \* calls that may be in progress at the same time
  Kinds,            \* the mutations that are called, and whether the task runs
  AutoApprove,      \* SiteSettings.fulfillment_auto_approve
  MaxFulfillments   \* bound on the fulfillments of the order

AllKinds == {"confirm", "fulfill", "approve", "cancelFulfillment", "return",
             "replace", "refundProducts", "cancelOrder", "orderRefund", "expire"}

ASSUME OrderModel ==
  /\ IsFiniteSet(Lines) /\ "none" \notin Lines /\ Quantity \in [Lines -> Nat \ {0}] /\ Shipping \in Nat
  /\ Kinds \subseteq AllKinds /\ AutoApprove \in BOOLEAN /\ MaxFulfillments \in Nat

VARIABLES
  status,        \* Order.status
  captured,      \* Payment.captured_amount
  fulfilled,     \* OrderLine.quantity_fulfilled
  fulfillments,  \* in the order of their creation
  gone,          \* units off the shelf for the order, less those put back
  step, job,     \* where each call is, and what it asks for and has read
  task,          \* where the expiry task is, and what it selected
  astray         \* history: the status was written by a confirmation that had read
                 \* another one, or an update_order_status was due and never ran

order    == <<status, captured, fulfilled, fulfillments, gone, astray>>
requests == <<step, job>>
vars     == <<order, requests, task>>

Open  == {"UNCONFIRMED", "UNFULFILLED", "PARTIALLY_FULFILLED"}
OrderStatus == Open \cup {"FULFILLED", "PARTIALLY_RETURNED", "RETURNED", "CANCELED", "EXPIRED"}

\* CANCELED is told apart: "canceled" by fulfillmentCancel, "closed" if the
\* fulfillment was created so, for the rest of an order.  "deleted" rows are gone.
FulfillmentStatus ==
  {"fulfilled", "waiting", "returned", "refunded", "refunded_and_returned",
   "replaced", "canceled", "closed", "deleted"}
Places == {"stock", "none"}
Fulfillment == [status : FulfillmentStatus, units : [Places -> [Lines -> Nat]]]

NoUnits == [p \in Places |-> [l \in Lines |-> 0]]
Empty(s) == [status |-> s, units |-> NoUnits]
Holding(s, p, l, q) == [Empty(s) EXCEPT !.units[p][l] = q]

UnitsIn(f, l) == f.units["stock"][l] + f.units["none"][l]

\* FulfillmentLine.quantity in the fulfillments of fs with a status in S: of one
\* order line, and of all.
Count(fs, S, l) == [i \in DOMAIN fs |-> IF fs[i].status \in S THEN UnitsIn(fs[i], l) ELSE 0]
Held(fs, S, l) == SumOver(Count(fs, S, l), DOMAIN fs)
HeldAll(fs, S) == SumOver([l \in Lines |-> Held(fs, S, l)], Lines)
Ordered == SumOver(Quantity, Lines)
Price == Ordered + Shipping

Min2(a, b) == IF a < b THEN a ELSE b
\* (mutant) the whole line, whatever is fulfilled
RestOrdered(l) == Quantity[l]
\* What create_cancel_fulfillment and the expiry take of a line.
Rest(l) == Min2(Quantity[l] - fulfilled[l], Quantity[l])
Remaining == SumOver([l \in Lines |-> Rest(l)], Lines)

FullyPaid == captured = Price

NoJob == [kind |-> "none", from |-> 0, place |-> "none", line |-> "none", amount |-> 0,
          refund |-> FALSE, was |-> "none", copy |-> 0, captured |-> 0, memory |-> "none"]
Idle == [pc |-> "idle", unpaid |-> FALSE, open |-> FALSE]
-----------------------------------------------------------------------------
Init ==
  /\ IF "confirm" \in Kinds THEN status = "UNCONFIRMED" /\ captured = 0
                             ELSE status = "UNFULFILLED" /\ captured = Price
  /\ fulfilled = [l \in Lines |-> 0]
  /\ fulfillments = <<>>
  /\ gone = [l \in Lines |-> 0]
  /\ step = [r \in Requests |-> "idle"]
  /\ job = [r \in Requests |-> NoJob]
  /\ task = Idle
  /\ astray = FALSE

\* A call has validated what it read.
Ask(r, j) ==
  /\ step[r] = "idle" /\ j.kind \in Kinds
  /\ step' = [step EXCEPT ![r] = "read"]
  /\ job' = [job EXCEPT ![r] = j]
  /\ UNCHANGED <<order, task>>

At(r, kind, s) == job[r].kind = kind /\ step[r] = s

Finish(r) ==
  /\ step' = [step EXCEPT ![r] = "idle"]
  /\ job' = [job EXCEPT ![r] = NoJob]

\* The transaction commits; update_order_status follows on an order in memory.
ThenUpdate(r, memory) ==
  /\ step' = [step EXCEPT ![r] = "committed"]
  /\ job' = [job EXCEPT ![r] = [NoJob EXCEPT !.kind = job[r].kind, !.memory = memory]]

\* The bound is looked at when a call begins, too: one that cannot write is not made.
Room(n) == Len(fulfillments) + n <= MaxFulfillments

\* update_order_status: the status of an order whose fulfillments are fs.
StatusOf(fs, done, old) ==
  LET replaced == HeldAll(fs, {"replaced"})
      returned == HeldAll(fs, {"returned", "refunded_and_returned"})
      total == Ordered - replaced
      awaiting == \E i \in DOMAIN fs : fs[i].status = "waiting"
      units == NetSum(done, Lines) - replaced
  IN IF total = 0 THEN old
     ELSE IF units <= 0 THEN "UNFULFILLED"
     ELSE IF 0 < returned /\ returned < total THEN "PARTIALLY_RETURNED"
     ELSE IF returned = total THEN "RETURNED"
     ELSE IF units < total \/ awaiting THEN "PARTIALLY_FULFILLED"
     ELSE "FULFILLED"

\* (mutant) only an untouched order moves on
UpdatedOnce(memory) ==
  IF memory = "UNFULFILLED" THEN StatusOf(fulfillments, fulfilled, memory) ELSE status
\* It writes only what differs from the status in memory.
Differs(memory) == StatusOf(fulfillments, fulfilled, memory) # memory
Updated(memory) == IF Differs(memory) THEN StatusOf(fulfillments, fulfilled, memory) ELSE status

UpdateOrderStatus(r) ==
  /\ step[r] = "committed" /\ job[r].kind # "orderRefund"
  /\ status' = Updated(job[r].memory)
  /\ Finish(r)
  /\ astray' = (astray /\ ~Differs(job[r].memory))
  /\ UNCHANGED <<captured, fulfilled, fulfillments, gone, task>>
-----------------------------------------------------------------------------
(* orderConfirm.                                                           *)

OrderConfirm(r) ==
  /\ status = "UNCONFIRMED"
  /\ Ask(r, [NoJob EXCEPT !.kind = "confirm"])

\* order.save(): the status that was read.
SaveUnconfirmed(r) ==
  /\ At(r, "confirm", "read")
  /\ status' = "UNCONFIRMED"
  /\ astray' = (astray \/ status # "UNCONFIRMED")
  /\ step' = [step EXCEPT ![r] = "payable"]
  /\ UNCHANGED <<captured, fulfilled, fulfillments, gone, job, task>>

Pay(r) ==
  /\ At(r, "confirm", "payable")
  /\ status' = "UNFULFILLED"
  /\ captured' = Price
  /\ astray' = (astray \/ status # "UNCONFIRMED")
  /\ Finish(r)
  /\ UNCHANGED <<fulfilled, fulfillments, gone, task>>
-----------------------------------------------------------------------------
(* orderFulfill and fulfillmentApprove.                                    *)

OrderFulfill(r, l, q) ==
  /\ Room(1)
  /\ q <= Quantity[l] - fulfilled[l]
  /\ FullyPaid \/ ~AutoApprove
  /\ Ask(r, [NoJob EXCEPT !.kind = "fulfill", !.line = l, !.amount = q, !.copy = fulfilled[l]])

CreateFulfillments(r) ==
  /\ At(r, "fulfill", "read") /\ Room(1)
  /\ LET j == job[r]  l == j.line IN
     /\ fulfilled' = [fulfilled EXCEPT ![l] = j.copy + j.amount]
     /\ fulfillments' = Append(fulfillments,
          Holding(IF AutoApprove THEN "fulfilled" ELSE "waiting", "stock", l, j.amount))
     /\ gone' = IF AutoApprove THEN [gone EXCEPT ![l] = @ + j.amount] ELSE gone
  /\ IF AutoApprove THEN ThenUpdate(r, status) ELSE Finish(r)
  /\ UNCHANGED <<status, captured, task, astray>>

\* (mutant) the units were taken when the fulfillment was created
DecreaseNothing(n) == gone' = gone
DecreaseStock(n) == gone' = [l \in Lines |-> gone[l] + fulfillments[n].units["stock"][l]]

FulfillmentApprove(r, n) ==
  /\ fulfillments[n].status = "waiting" /\ FullyPaid
  /\ Ask(r, [NoJob EXCEPT !.kind = "approve", !.from = n, !.was = "waiting"])

\* save() of the object that was read: a row deleted meanwhile is inserted again.
ApproveFulfillment(r) ==
  /\ At(r, "approve", "read")
  /\ LET n == job[r].from IN
     /\ fulfillments' = [fulfillments EXCEPT ![n].status = "fulfilled"]
     /\ DecreaseStock(n)
     /\ status' = StatusOf(fulfillments', fulfilled, status)
  /\ Finish(r)
  /\ astray' = FALSE
  /\ UNCHANGED <<captured, fulfilled, task>>
-----------------------------------------------------------------------------
(* fulfillmentCancel.                                                      *)

FulfillmentCancel(r, n) ==
  /\ fulfillments[n].status \notin {"canceled", "closed", "deleted"}
  /\ Ask(r, [NoJob EXCEPT !.kind = "cancelFulfillment", !.from = n, !.was = fulfillments[n].status])

\* (mutant) units that never had a stock do not count
UnfulfillStocked(n) ==
  fulfilled' = [l \in Lines |-> fulfilled[l] - fulfillments[n].units["stock"][l]]
Unfulfill(n) == fulfilled' = [l \in Lines |-> fulfilled[l] - UnitsIn(fulfillments[n], l)]

CancelWaitingFulfillment(r) ==
  /\ At(r, "cancelFulfillment", "read") /\ job[r].was = "waiting"
  /\ LET n == job[r].from IN
     /\ fulfillments[n].status # "deleted"
     /\ Unfulfill(n)
     /\ fulfillments' = [fulfillments EXCEPT ![n] = Empty("deleted")]
  /\ status' = StatusOf(fulfillments', fulfilled', status)
  /\ Finish(r)
  /\ astray' = FALSE
  /\ UNCHANGED <<captured, gone, task>>

\* Locks the row and looks at its lines, whatever its status is by now.
CancelFulfillment(r) ==
  /\ At(r, "cancelFulfillment", "read") /\ job[r].was # "waiting"
  /\ LET n == job[r].from IN
     /\ fulfillments[n].status # "deleted"
     /\ Unfulfill(n)
     /\ gone' = [l \in Lines |-> gone[l] - UnitsIn(fulfillments[n], l)]
     /\ fulfillments' = [fulfillments EXCEPT ![n].status = "canceled"]
  /\ status' = StatusOf(fulfillments', fulfilled', status)
  /\ Finish(r)
  /\ astray' = FALSE
  /\ UNCHANGED <<captured, task>>
-----------------------------------------------------------------------------
(* fulfillmentReturnProducts, with or without replacement and refund, and  *)
(* fulfillmentRefundProducts.  Units come from an order line (from = 0) or *)
(* from a fulfillment line.                                                *)

CellOf(n, p, l) == fulfillments[n].units[p][l]

\* clean_lines and clean_fulfillment_lines; from REFUNDED only goods come back,
\* from RETURNED only coins.
MayMove(n, p, l, q, from) ==
  IF n = 0 THEN q <= Rest(l)
  ELSE q <= CellOf(n, p, l) /\ fulfillments[n].status \in {"fulfilled", "waiting"} \cup from

MoveJob(kind, n, p, l, q, refund) ==
  [NoJob EXCEPT !.kind = kind, !.from = n, !.place = IF n = 0 THEN "none" ELSE p, !.line = l,
     !.amount = q, !.refund = refund,
     !.was = IF n = 0 THEN "none" ELSE fulfillments[n].status,
     !.copy = IF n = 0 THEN fulfilled[l] ELSE CellOf(n, p, l),
     !.captured = IF refund THEN captured ELSE 0]

\* A fulfillment line without a stock cannot be returned: increase_stock fails.
ReturnProducts(r, n, p, l, q, refund) ==
  /\ Room(1) /\ MayMove(n, p, l, q, {"refunded"}) /\ (n # 0 => p = "stock")
  /\ refund => captured > 0
  /\ Ask(r, [MoveJob("return", n, p, l, q, refund) EXCEPT !.memory = status])

ReplaceProducts(r, n, p, l, q) ==
  /\ Room(2) /\ MayMove(n, p, l, q, {"refunded"})
  /\ Ask(r, MoveJob("replace", n, p, l, q, FALSE))

RefundProducts(r, n, p, l, q) ==
  /\ Room(1) /\ MayMove(n, p, l, q, {"returned"})
  /\ captured > 0
  /\ Ask(r, MoveJob("refundProducts", n, p, l, q, TRUE))

\* The row of the fulfillment line that the job is about still exists.
RowExists(j) == j.from # 0 /\ CellOf(j.from, j.place, j.line) > 0

\* The fulfillments once the units of j are taken from where j read them and
\* added become the targets; fulfillments left without lines are deleted.
Moved(j, targets) ==
  LET taken == IF RowExists(j)
               THEN [fulfillments EXCEPT ![j.from].units[j.place][j.line] = j.copy - j.amount]
               ELSE fulfillments
      all == taken \o targets
  IN [i \in DOMAIN all |->
        IF all[i].status \in {"fulfilled", "waiting"} /\ all[i].units = NoUnits
        THEN Empty("deleted") ELSE all[i]]

Move(r, targets) ==
  LET j == job[r] IN
  /\ Room(Len(targets))
  /\ fulfillments' = Moved(j, targets)
  /\ fulfilled' = IF j.from = 0 THEN [fulfilled EXCEPT ![j.line] = j.copy + j.amount] ELSE fulfilled

\* (mutant) lines that were refunded already are not skipped
RefundAgain(j) == IF ~j.refund THEN 0 ELSE Min2(j.captured, j.amount)
\* _calculate_refund_amount, capped by the amount the payment had when it was
\* read.  The gateway refuses more than it has now, and all is rolled back.
RefundAmount(j) == IF ~j.refund \/ j.was = "refunded" THEN 0 ELSE Min2(j.captured, j.amount)
PayBack(amount) == amount <= captured /\ captured' = captured - amount

Target(j, s) == Holding(s, j.place, j.line, j.amount)

CreateReturnFulfillment(r) ==
  /\ At(r, "return", "read")
  /\ LET j == job[r]
         returned == IF j.refund THEN "refunded_and_returned" ELSE "returned"
         paidBack == RowExists(j) /\ fulfillments[j.from].status = "refunded" IN
     /\ Move(r, IF paidBack /\ ~j.refund
                THEN <<Empty(returned), Target(j, "refunded_and_returned")>>
                ELSE <<Target(j, returned)>>)
     /\ PayBack(RefundAmount(j))
     /\ gone' = IF j.from = 0 THEN gone ELSE [gone EXCEPT ![j.line] = @ - j.amount]
     /\ ThenUpdate(r, j.memory)
  /\ UNCHANGED <<status, task, astray>>

\* The return fulfillment is created too.
ProcessReplace(r) ==
  /\ At(r, "replace", "read")
  /\ Move(r, <<Target(job[r], "replaced"), Empty("returned")>>)
  /\ ThenUpdate(r, status)
  /\ UNCHANGED <<status, captured, gone, task, astray>>

CreateRefundFulfillment(r) ==
  /\ At(r, "refundProducts", "read")
  /\ Move(r, <<Target(job[r], "refunded")>>)
  /\ PayBack(RefundAmount(job[r]))
  /\ Finish(r)
  /\ UNCHANGED <<status, gone, task, astray>>
-----------------------------------------------------------------------------
(* orderCancel and orderRefund.                                            *)

OrderCancel(r) ==
  /\ \A i \in DOMAIN fulfillments : fulfillments[i].status \notin {"fulfilled", "waiting"}
  /\ status \notin {"CANCELED", "EXPIRED"}
  /\ Ask(r, [NoJob EXCEPT !.kind = "cancelOrder"])

\* The units not fulfilled yet get a fulfillment that is created CANCELED.  One
\* without units is left out: nothing ever looks at it.
Close ==
  /\ fulfillments' = fulfillments \o
       IF Remaining = 0 THEN <<>>
       ELSE <<[status |-> "closed",
               units |-> [NoUnits EXCEPT !["none"] = [l \in Lines |-> Rest(l)]]]>>
  /\ fulfilled' = [l \in Lines |-> fulfilled[l] + Rest(l)]

CancelOrder(r) ==
  /\ At(r, "cancelOrder", "read")
  /\ Close
  /\ status' = "CANCELED"
  /\ Finish(r)
  /\ UNCHANGED <<captured, gone, task, astray>>

OrderRefund(r, amount) ==
  /\ Room(1) /\ captured > 0
  /\ Ask(r, [NoJob EXCEPT !.kind = "orderRefund", !.amount = amount])

\* The coins go to the staff member who asks (customer_id).
GatewayRefund(r) ==
  /\ At(r, "orderRefund", "read")
  /\ PayBack(job[r].amount)
  /\ step' = [step EXCEPT ![r] = "committed"]
  /\ UNCHANGED <<status, fulfilled, fulfillments, gone, job, task, astray>>

CreateRefunded(r) ==
  /\ At(r, "orderRefund", "committed") /\ Room(1)
  /\ fulfillments' = Append(fulfillments, Empty("refunded"))
  /\ Finish(r)
  /\ UNCHANGED <<status, captured, fulfilled, gone, task, astray>>
-----------------------------------------------------------------------------
(* expire_orders_task, on an order that is old enough.                     *)

SelectUnpaid ==
  /\ "expire" \in Kinds /\ task.pc = "idle"
  /\ task' = [task EXCEPT !.pc = "selected", !.unpaid = (status = "UNCONFIRMED" /\ captured = 0)]
  /\ UNCHANGED <<order, requests>>

ExpireUnpaid ==
  /\ task.pc = "selected"
  /\ status' = IF task.unpaid THEN "EXPIRED" ELSE status
  /\ task' = [task EXCEPT !.pc = "unpaidDone"]
  /\ UNCHANGED <<captured, fulfilled, fulfillments, gone, requests, astray>>

\* (mutant) orders that are partly fulfilled are left out
UntouchedOnly(s) == s \in {"UNCONFIRMED", "UNFULFILLED"}
MayExpire(s) == s \in {"UNCONFIRMED", "UNFULFILLED", "PARTIALLY_FULFILLED"}

SelectOpen ==
  /\ task.pc = "unpaidDone"
  /\ task' = [task EXCEPT !.pc = "listed", !.open = MayExpire(status)]
  /\ UNCHANGED <<order, requests>>

\* (mutant) the price of one unit for each line
AmountPerLine == Cardinality({l \in Lines : Rest(l) > 0})
AmountTotal == Remaining

\* The refund is for the units not fulfilled; if it fails, the order stays.
ExpireOpen ==
  /\ task.pc = "listed"
  /\ task' = Idle
  /\ IF task.open /\ AmountTotal <= captured
     THEN /\ captured' = captured - AmountTotal
          /\ Close
          /\ status' = "EXPIRED"
     ELSE UNCHANGED <<status, captured, fulfilled, fulfillments>>
  /\ UNCHANGED <<gone, requests, astray>>

ExpireOrders == SelectUnpaid \/ ExpireUnpaid \/ SelectOpen \/ ExpireOpen
-----------------------------------------------------------------------------
\* The call fails before it writes, or its worker dies.
Fail(r) ==
  /\ step[r] # "idle"
  /\ Finish(r)
  /\ astray' = (astray \/ (step[r] = "committed" /\ job[r].kind # "orderRefund"))
  /\ UNCHANGED <<status, captured, fulfilled, fulfillments, gone, task>>

Sources == {0} \cup DOMAIN fulfillments

Begin(r) ==
  \/ OrderConfirm(r) \/ OrderCancel(r)
  \/ \E l \in Lines : \E q \in 1..Quantity[l] : OrderFulfill(r, l, q)
  \/ \E n \in DOMAIN fulfillments : FulfillmentApprove(r, n) \/ FulfillmentCancel(r, n)
  \/ \E n \in Sources, p \in Places, l \in Lines : \E q \in 1..Quantity[l] :
       \/ \E refund \in BOOLEAN : ReturnProducts(r, n, p, l, q, refund)
       \/ ReplaceProducts(r, n, p, l, q)
       \/ RefundProducts(r, n, p, l, q)
  \/ \E amount \in 1..Price : OrderRefund(r, amount)

Proceed(r) ==
  \/ SaveUnconfirmed(r) \/ Pay(r)
  \/ CreateFulfillments(r) \/ ApproveFulfillment(r) \/ UpdateOrderStatus(r)
  \/ CancelWaitingFulfillment(r) \/ CancelFulfillment(r)
  \/ CreateReturnFulfillment(r) \/ ProcessReplace(r) \/ CreateRefundFulfillment(r)
  \/ CancelOrder(r) \/ GatewayRefund(r) \/ CreateRefunded(r)

Next ==
  \/ \E r \in Requests : Begin(r) \/ Proceed(r) \/ Fail(r)
  \/ ExpireOrders

Spec == Init /\ [][Next]_vars

\* Celery beat starts the task again and again (settings.py, "expire-orders").
FairSpec == Spec /\ WF_vars(ExpireOrders)
-----------------------------------------------------------------------------
(* Properties.                                                             *)

Movers == {"return", "replace", "refundProducts"}
Job == [kind : AllKinds \cup {"none"}, from : Nat, place : Places, line : Lines \cup {"none"},
        amount : Nat, refund : BOOLEAN, was : FulfillmentStatus \cup {"none"}, copy : Int,
        captured : Nat, memory : OrderStatus \cup {"none"}]
Expiry == [pc : {"idle", "selected", "unpaidDone", "listed"}, unpaid : BOOLEAN, open : BOOLEAN]

\* What the validation lets through, of the rows as they were read.
Validated(j) ==
  /\ j.kind = "fulfill" => j.from = 0
  /\ j.kind \in Movers \cup {"fulfill"} => j.line \in Lines /\ j.amount > 0
  /\ j.line # "none" /\ j.from = 0 =>
       j.place = "none" /\ j.was = "none" /\ j.copy + j.amount <= Quantity[j.line]
  /\ j.line # "none" /\ j.from # 0 =>
       j.amount <= j.copy /\ j.was \in {"fulfilled", "waiting", "refunded", "returned"}
  /\ j.kind \in {"return", "replace"} => j.was # "returned"
  /\ j.kind = "return" => (j.from # 0 => j.place = "stock") /\ j.memory \in OrderStatus
  /\ j.kind = "refundProducts" => j.was # "refunded"
  /\ j.kind \in {"approve", "cancelFulfillment"} =>
       j.from # 0 /\ j.was \notin {"none", "canceled", "closed", "deleted"}
  /\ j.kind = "approve" => j.was = "waiting"

\* Columns keep their types; no fulfillment line has a negative quantity, which
\* the database would refuse, and no line is fulfilled beyond what was ordered,
\* although calls write what they computed from rows read earlier.
TypeOK ==
  /\ status \in OrderStatus /\ captured \in 0..Price
  /\ fulfilled \in [Lines -> Int] /\ \A l \in Lines : fulfilled[l] <= Quantity[l]
  /\ gone \in [Lines -> Int]
  /\ fulfillments \in Seq(Fulfillment)
  /\ step \in [Requests -> {"idle", "read", "payable", "committed"}] /\ job \in [Requests -> Job]
  /\ \A r \in Requests :
       /\ job[r].from \in 0..Len(fulfillments)
       /\ step[r] = "read" => Validated(job[r])
       /\ step[r] = "committed" =>
            \/ job[r].kind = "orderRefund"
            \/ job[r] = [NoJob EXCEPT !.kind = job[r].kind, !.memory = job[r].memory]
               /\ job[r].memory \in OrderStatus
  /\ task \in Expiry /\ astray \in BOOLEAN

Moves(r) == step'[r] # step[r]

\* What r computes from is no longer what the row says.
Stale(r) ==
  LET j == job[r] IN
  \/ j.from = 0 /\ j.line # "none" /\ fulfilled[j.line] # j.copy
  \/ j.from # 0 /\ fulfillments[j.from].status # j.was
  \/ j.from # 0 /\ j.line # "none" /\ CellOf(j.from, j.place, j.line) # j.copy

\* quantity_fulfilled of a line moves with the units its fulfillments hold, the
\* cancelled ones aside (order/actions.py: _increase_order_line_quantity,
\* restock_fulfillment_lines, _move_order_lines_to_target_fulfillment), whatever
\* calls interleave - except in a step that computes from a row which changed
\* after it was read.
Live == FulfillmentStatus \ {"canceled", "deleted"}
LinesFollowFulfillments ==
  [][\A l \in Lines :
       \/ fulfilled'[l] - fulfilled[l] = Held(fulfillments', Live, l) - Held(fulfillments, Live, l)
       \/ \E r \in Requests : Moves(r) /\ Stale(r)]_vars

\* Units with a stock in a fulfillment that left the warehouse and has not come
\* back: fulfilled ones, also after their coins were paid back or a replacement
\* was ordered.
Shipped(fs, l) ==
  SumOver([i \in DOMAIN fs |->
             IF fs[i].status \in {"fulfilled", "refunded", "replaced"} THEN fs[i].units["stock"][l] ELSE 0],
          DOMAIN fs)

\* Calls whose units never left or are already back: those of a fulfillment that
\* waits for approval or was returned, and units cancelled with a fulfillment
\* that had no stock for them.
Misplaced(r) ==
  LET j == job[r]  f == fulfillments[j.from] IN
  /\ j.from # 0
  /\ IF j.kind = "cancelFulfillment"
     THEN f.status \in {"returned", "refunded_and_returned"} \/ f.units["none"] # NoUnits["none"]
     ELSE f.status \in {"waiting", "returned"}

\* The shelf loses exactly the units that are shipped and gets exactly those that
\* come back (_decrease_stocks, increase_stock): the exceptions are stale rows and
\* the calls of Misplaced, which the code accepts.
ShelfFollowsFulfillments ==
  [][\A l \in Lines :
       \/ gone'[l] - gone[l] = Shipped(fulfillments', l) - Shipped(fulfillments, l)
       \/ \E r \in Requests : Moves(r) /\ job[r].kind # "approve" /\ (Stale(r) \/ Misplaced(r))
       \/ \E r \in Requests : Moves(r) /\ job[r].kind = "approve" /\ Stale(r)]_vars

\* Coins are paid back for units at most once: a step that lowers the captured
\* amount puts as many units into refunded or closed fulfillments as it pays coins,
\* however refunds, returns and the expiry overlap.  The exceptions are a stale
\* row, and orderRefund, whose amount is typed in.
PaidBack(fs) == HeldAll(fs, {"refunded", "refunded_and_returned", "closed"})
CoinsGoBackOnce ==
  [][\/ captured - captured' <= IF captured' < captured
                                THEN PaidBack(fulfillments') - PaidBack(fulfillments) ELSE 0
     \/ \E r \in Requests : Moves(r) /\ (Stale(r) \/ job[r].kind = "orderRefund")]_vars

\* An open order (UNCONFIRMED, UNFULFILLED, PARTIALLY_FULFILLED) does not stay
\* open past its age (_expire_orders), unless less is captured than the units not
\* yet fulfilled cost: then every refund fails and the task tries forever.
OpenOrdersExpire ==
  "expire" \in Kinds => (status \in Open ~> (status \notin Open \/ captured < Remaining))

\* Fulfillments do not wait for approval and no products are returned, replaced or
\* refunded.  Those calls leave the status to chance: refunds never update it, and
\* returns update it from an order they read long before.
Plain == AutoApprove /\ Kinds \cap Movers = {}

\* At rest, an order that was not closed has the status its fulfillments call for
\* (update_order_status), although several calls update it from orders in memory
\* which others have changed.  It goes astray only by a confirmation that took a
\* changed order for an unconfirmed one (order_confirm.py:92), or if a worker dies
\* between the transaction and the update that follows it on_commit.
StatusFollowsLines ==
  /\ Plain /\ \A r \in Requests : step[r] = "idle"
  /\ ~astray /\ status \notin {"UNCONFIRMED", "CANCELED", "EXPIRED"}
  => status = StatusOf(fulfillments, fulfilled, status)

\* An order that expires leaves nothing captured for units that were not
\* fulfilled (_expire_orders, create_fulfillments_for_expired_orders).  Exceptions:
\* it was confirmed and paid after the task had listed it as unpaid; it was over
\* before and a confirmation revived it; its quantity_fulfilled is wrong already.
UndeliveredIsPaidBack ==
  [][Plain /\ status' = "EXPIRED" /\ status # "EXPIRED" =>
       \/ captured' <= HeldAll(fulfillments', {"fulfilled"}) + Shipping
       \/ task.unpaid /\ captured > 0
       \/ HeldAll(fulfillments, {"closed"}) > 0
       \/ \E l \in Lines : fulfilled[l] # Held(fulfillments, Live, l)]_vars

\* "permanently canceled order" (order/__init__.py:23).  Refuted: a customer who
\* cancels while the order is being confirmed pays for an order that is over.
CanceledIsPermanent == [][status = "CANCELED" => status' = "CANCELED"]_vars
=============================================================================
