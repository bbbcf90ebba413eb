# Aixinwu-core: a TLA+ development

Aixinwu-core is the backend of the charity shop of Shanghai Jiao Tong
University: a fork of Saleor (Django, GraphQL, celery, PostgreSQL) in which
students spend a balance of coins, earn coins by donating goods and by logging
in, and collect what they bought from a warehouse.  Requests are served by many
web workers against one database; a mutation is *not* one transaction unless it
says so, so a request is a sequence of transactions and unlocked reads that
interleave with those of other requests and of the celery tasks.  That is where
the difficulty of this system lies, and what these modules are about.

All paths below are relative to `src/saleor/`.

## 1. Inventory

| Component | State | Operations | Correct when |
|---|---|---|---|
| Stock ledger `warehouse/` | `Stock` (quantity, quantity_allocated), `Allocation`, `Reservation`, preorder rows | `allocate_stocks`, `deallocate_stock`, `increase_stock`, `decrease_stock`, `increase_/decrease_allocations`, `reserve_stocks`, availability checks, `deallocate_stock_for_orders` | the counter is the sum of the allocations; every unit an order is owed is allocated once; promises fit in the quantity unless somebody overrode that; reservations keep others out and their owner in |
| Stock tasks `warehouse/tasks.py` | the same rows | clean-up of expired reservations, daily resynchronisation of the counters | stale writes are repaired; nothing is removed that is live |
| Checkout `checkout/complete_checkout.py`, `graphql/checkout/` | `Checkout`, its lines, voucher usage, payment | `checkoutComplete` (check, pay, lock, create order, delete checkout), retries of it | at most one order per checkout, charged once; a voucher is used once per order |
| Orders `order/actions.py`, `order/utils.py`, `graphql/order/` | `Order.status`, `OrderLine.quantity(_fulfilled)`, `Fulfillment(Line)` | confirm, fulfill, approve, cancel a fulfillment, return, refund, cancel, expire | no unit is shipped or refunded twice; the status is that of the lines |
| Order expiry `order/tasks.py` | the same, and voucher usage | `_expire_orders`: a batch of unpaid orders, then paid ones one by one with a refund | an order is expired at most once and only if nothing else happened to it |
| Coins `account/models.py` (balance), `account/events.py`, `graphql/donation/`, `graphql/account/`, `payment/gateways/balance/`, `plugins/openid_connect/` | `User.balance`, `BalanceEvent` log, `Donation.status`, payments | pay an order, refund, confirm a donation (one, many), login bonus, invitation bonus, manual correction | the balance is the sum of the events; no bonus, donation or refund is paid twice; no balance below zero |
| Payments `payment/` | `Payment`, `Transaction`, captured amount | authorise, capture, refund, void through gateways | captured is what was taken less what was returned |
| Discounts `discount/` | `VoucherCode.used`, `VoucherCustomer` | count, release, expire | usage equals the orders that use the code |
| Catalogue, channels, shipping, tax, menus, pages, attributes, translations, search | rows edited by staff | create, update, delete | (no concurrency of its own) |
| Plugins, webhooks, apps `webhook/`, `plugins/webhook/`, `app/` | `Webhook`, `App.removed_at`, `EventPayload`, `EventDelivery`, `EventDeliveryAttempt`, the celery queue | `trigger_webhooks_async`, `send_webhook_request_async`, retries by celery and by staff, deletion of webhooks and apps, two clean-up tasks | a delivery is received once per request for it, or failed, and never forgotten; clean-up takes nothing that is still to be sent |
| Thumbnails, exports, e-mail | files | make, send | external I/O |

How they meet: `checkoutComplete` checks the stock, pays with coins through the
payment gateway, and calls `allocate_stocks`; confirming, fulfilling, cancelling,
returning and expiring an order call `deallocate_stock` / `decrease_stock` /
`increase_stock` and, for money, the gateway's refund, which adds to
`User.balance`; the tasks of celery beat work on the same rows with no lock of
their own.  Mutations announce what they did by `call_event`, which ends in
`trigger_webhooks_async`; nothing waits for a delivery.

### What is hard here

The list with lines is in `PROJECT.json` under `hazards`.  In short: checks made
before a lock is taken; denormalised copies (`quantity_allocated`, `balance`,
`quantity_fulfilled`, `used`) written from values read earlier; loops that split
one quantity over several rows; bulk updates with several objects for one row;
rows that outlive their owner; tasks that select rows first and act on them by
id later; retries of a request whose answer was late; work announced by a
message after the rows it is about were committed; raw deletes of rows that
others still refer to.

## 2. Modules

| Module | Models | Composes |
|---|---|---|
| `Sums` | `Sum(...)`, `sum(...)`, `min`, `max` as operators without recursion | |
| `SumsProofs` | facts about sums: type, one row taken out, changed or appended, parts, net sums with negative terms, and what a greedy loop over sorted rows takes in all | `Sums` |
| `Warehouse` | the stock ledger with carts, checkouts, orders and fulfillments as its callers | `Sums` |
| `WarehouseProofs` | type correctness and exactness of the counters | `Warehouse`, `SumsProofs` |
| `LedgerProofs` | what lines are owed, overbooking, reservations | `WarehouseProofs` |
| `WarehouseTasks` | resynchronisation and expiry batch, beside all the requests | `Warehouse` |
| `WarehouseTasksProofs` | type correctness beside the tasks, and the safety half of the repair | `WarehouseTasks`, `WarehouseProofs` |
| `Placement` | what placing an order promises: one order per checkout, and answers that name it | |
| `Checkout` | `checkoutComplete` and `orderCreateFromCheckout` step by step, the voucher code and the payment | implements `Placement` |
| `CheckoutProofs` | the safety properties of `Checkout`, and that it implements `Placement` | `Checkout` |
| `CoinLedger` | balances, their event log, donations, bonuses and the coins of orders | `Sums` |
| `CoinLedgerProofs` | its types, log, debts, bonuses and grants | `CoinLedger`, `SumsProofs` |
| `OrderFulfilment` | one order from its confirmation to its end: fulfillments, returns, refunds, cancellation, expiry | `Sums` |
| `OrderFulfilmentProofs` | its types, and that lines, shelf, coins and status follow the fulfillments | `OrderFulfilment`, `SumsProofs` |
| `WebhookDelivery` | asynchronous webhooks: rows, queue, workers, retries, clean-up | |
| `WebhookDeliveryProofs` | no delivery forgotten, received twice, or lost with a shared payload | `WebhookDelivery`, `SumsProofs` |
| `MCWarehouse`, `MCWarehouseTasks`, `MCCheckout`, `MCCoinLedger`, `MCOrderFulfilment`, `MCWebhookDelivery` | instances for TLC | |

The modules meet where one component's answer is another's input: `RollBack` in
`Checkout` is the refusal of `CompleteCheckout` in `Warehouse`; the order that
`CreateOrder` makes is where `OrderFulfilment` starts; `OrderConfirm` and the
refunds of `OrderFulfilment` move `captured`, and the same calls move the balance
in `CoinLedger`.  They are kept apart because the interleavings that matter are
inside each of them: the transactions of one side touch the rows of the other
under that side's own lock.

### `Warehouse`

State: `quantity`, `quantity_allocated` (the two columns of `Stock`), `allocation`
and `reservation` (quantity by line and stock; 0 stands for no row, as every
query sums quantities), `live` (`reserved_until` of a checkout's reservations is
in the future), `stage` of each checkout or order, the two quantities of an order
line, and `shipped` (units in FULFILLED fulfillment lines, by line and stock).
A checkout and its order share an identifier, a checkout line and its order
line too.

| Action | Code |
|---|---|
| `CheckStock` | `check_stock_quantity_bulk`, by a cart mutation or by `checkoutComplete`; no lock, so a step of its own |
| `ReserveStocks` | `reserve_stocks` with `replace=True` |
| `ReservationsExpire`, `DeleteExpiredReservations` | the clock; `delete_expired_reservations_task` |
| `CompleteCheckout` | the locked transaction of `create_order_from_checkout`: `allocate_stocks` with `check_reservations=True`, rolled back on `InsufficientStock` |
| `IncreaseAllocations`, `DecreaseAllocations` | `increase_allocations`, `decrease_allocations` through `change_order_line_quantity` and `delete_order_line` |
| `ConfirmOrder` | `orderConfirm`, its effect on the stage |
| `DecreaseStock` | `create_fulfillments` -> `decrease_stock` for one warehouse, with `update_order_status` |
| `MoveToFulfillment` | `_move_order_lines_to_target_fulfillment`: return, replace, refund, cancel, expire |
| `RestockFulfillment` | `cancel_fulfillment` -> `restock_fulfillment_lines` -> `increase_stock(allocate=True)` |
| `ReturnProducts` | `create_return_fulfillment`: returned units go back on the shelf |
| `SetQuantity` | `productVariantStocksUpdate`, `stockBulkUpdate` |

Two definitions carry details that decide the properties.  `BulkDelta` is the
`bulk_update` of several `Stock` objects of one row with `F()` expressions:
Django emits a `CASE` whose first matching `WHEN` applies.  `CompleteCheckout`
passes a map of zeros as `seen`: the generator `stocks_id` of `allocate_stocks`
is exhausted by the query of the reservations.

Abstracted: one channel, one country, no collection points; every variant tracks
inventory and is not a preorder; `AllocationError` in `deallocate_stock` (the
callers log it, and `OwedIsAllocated` says a line never lacks what is taken from
it); webhooks; rows of quantity 0 (`delete_empty_allocations_task` removes them
and nothing else).

### `WarehouseTasks`

Adds the celery tasks whose reads and writes are not under one lock, each as a
read and a write step: `ReadMismatches`/`WriteCounters`
(`update_stocks_quantity_allocated_task`), `SelectUnpaid`/`ReadAllocations`/
`ExpireBatch` (`_expire_orders`, `deallocate_stock_for_orders`).

### `Checkout`

A request (`Requests`) is a program counter `step` and what it has read: `seen`
(its copy of the `Checkout` row), `voucher` (`checkout_info.voucher`), `counted`
(its usage is committed) and `answer`.  Shared are the `Checkout` rows
(`checkouts`, `code`, `price`), the voucher code (`used`, `is_active`,
`customers`), `orders` and `payments`.  `price` is the cached total with
`price_expiration`: stale, or computed with or without the voucher.  An order is
named by the request that makes it.

| Action | Code |
|---|---|
| `GetCheckout` | `get_checkout`; without the row, `checkoutComplete` answers with the order of the token |
| `FetchCheckoutInfo` | `fetch_checkout_info`, `validate_checkout` (app), `_fetch_checkout_prices_if_expired` (client), which saves the `voucher_code` it has read |
| `CheckUsage`, `IncreaseUsage` | the first transaction of `create_order_from_checkout`: the unlocked reads of code and voucher, then the increment |
| `FindOrder`, `CreateOrder`, `RollBack` | its second transaction: the row is locked and gone; the order is made and the checkout deleted; `InsufficientStock` or `GiftCardNotApplicable` |
| `FindPayment`, `InsertPayment` | the two halves of `Payment.objects.get_or_create` in `create_payment` |
| `Reply`, `Crash` | the answer of `orderCreateFromCheckout`; the worker dies |
| `AddPromoCode`, `RemovePromoCode`, `EditLines`, `PricesExpire`, `RefreshPrices` | the customer's other requests, and the clock |
| `DeleteExpiredCheckouts`, `ExpireOrders` | the celery tasks, the latter with `_bulk_release_voucher_usage` |

A retry is another request for the same checkout.  `Keepers` are calls of
`orderCreateFromCheckout` with `removeCheckout: false`.

Abstracted: one voucher with one code, for the entire order, valid in the channel
at all times; addresses, delivery methods, taxes and lines; stock (the refusal of
`allocate_stocks` is `RollBack`, what it does is in `Warehouse`); payments made by
`checkoutPaymentCreate` before completion; confirmation of orders, and the second
loop of `_expire_orders`, which expires the paid ones.

`Placement` knows nothing of steps, vouchers or payments: `Place(r, c)` turns an
open checkout into the order of `r`, `Answer(r, c)` tells `r` the order of `c`,
`Drop(S)` removes checkouts.  `Checkout` maps to it by `Open`, `OrderOf` and `Told`.

### `CoinLedger`

`row` holds the columns of `User` that requests overwrite (`balance`,
`last_login`, `continuous`), `logged` the sum of the deltas in the account's
`BalanceEvent` rows, `status` and `granted` the donations and their net events,
`unconfirmed` and `captured` the orders.  A request has a `job`, a program counter
`step` and `objects`, the `User` objects it has read and will save: with all
columns, or only those in `update_fields`.

| Action | Code |
|---|---|
| `OrderConfirm`, `SaveConfirmed`, `Pay` | `orderConfirm`: the user of the request, read at its start, pays |
| `Refund`, `FinishRefund` | `payment/gateway.py` `refund` under `with_locked_payment`; the balance gateway adds to an unlocked user |
| `DonationCreate`; `DonationUpdate`, `SaveUpdate`; `DonationComplete`, `SaveDonation`, `ReadDonator`, `GrantDonation`; `DonationBulkComplete` and its steps | `graphql/donation/`: the status, then the coins, in transactions of their own |
| `CustomerUpdate`, `BalanceUpdate` | a whole-row save of a user; a balance typed in, with the event of the difference |
| `UpdateContinuousDays`; `SignIn`, `UpdateUserDetails`; `SignUp`, `GetOrCreate`, `CommitSignUp` | the daily bonus with and without its lock; `plugins/openid_connect/utils.py`: an account found or made, the first-login and the invitation bonus |
| `NextDay`, `Crash` | the clock; a worker that dies, or a request the database refuses |

Abstracted: coins are counted in units of the smallest bonus; price and donator of
a donation do not change; user codes are unique; a write of a balance and its event
are one step, and so are the `bulk_update` and `bulk_create` of a batch; a lagging
replica is a read that is stale, which every request's is anyway.  Left out: a
customer created with a typed-in balance, the `importusers` command, and
`process_payment` of the balance gateway, which nothing reaches.

### `OrderFulfilment`

`status`, `captured` and `fulfilled` (`quantity_fulfilled`) are columns;
`fulfillments` is the sequence of `Fulfillment` rows, each with the units of its
lines, told apart by whether they have a stock; `gone` counts the units that left
the shelf less those put back.  CANCELED is split in three: `canceled` by
`fulfillmentCancel`, `closed` when created so for the rest of an order, `deleted`
when the row is gone.  A call reads, validates and keeps its copy (`job`), and writes
in a later step; `update_order_status`, which runs on_commit, is a third.

| Action | Code |
|---|---|
| `OrderConfirm`, `SaveUnconfirmed`, `Pay` | `orderConfirm` |
| `OrderFulfill`, `CreateFulfillments` | `orderFulfill` |
| `FulfillmentApprove`, `ApproveFulfillment` | `fulfillmentApprove`, when fulfillments wait for approval |
| `FulfillmentCancel`, `CancelWaitingFulfillment`, `CancelFulfillment` | `fulfillmentCancel` |
| `ReturnProducts`, `ReplaceProducts`, `RefundProducts` and the `Create...` and `Process...` steps | `graphql/order/mutations/fulfillment_return_products.py`, `fulfillment_refund_products.py`, `order/actions.py` |
| `OrderCancel`, `CancelOrder`; `OrderRefund`, `GatewayRefund`, `CreateRefunded` | `orderCancel`, `orderRefund` |
| `UpdateOrderStatus` | `update_order_status` after the commit |
| `SelectUnpaid`, `ExpireUnpaid`, `SelectOpen`, `ExpireOpen` | the two loops of `_expire_orders` |
| `Fail` | an error, or a worker that dies: the call ends without its next write |

Abstracted: a unit costs one coin; amounts are without the shipping price; a call is
about one line; gift cards, drafts, line edits, notes and the channels named
`shared` (leases) are left out; `is_fully_paid` is `captured = Price`, as confirming
writes `fully-charged` and every refund rewrites `charge_status`.

### `WebhookDelivery`

`payloads`, `delivery` (the status, or that there is no row) and `attempts` are the
three tables; `webhook` and `removed` say which webhooks are active, inactive, being
deleted, or of a deleted app; `queue` says how many celery messages of each
delivery and number of `retries` there are; `trigger`, `worker`, `asking` and `removal` are the program counters of
the request that raises an event, the workers, `eventDeliveryRetry` and
`remove_apps_task`.  `young` events are within `EVENT_PAYLOAD_DELETE_PERIOD`.

| Action | Code |
|---|---|
| `Trigger`, `TriggerWebhooks`, `Send`, `TriggerFails` | `get_webhooks_for_event`; `trigger_webhooks_async` statement by statement |
| `Take`, `Post`, `Record`, `Clear`, `ClearPayload`, `RowIsGone`, `WorkerDies` | `send_webhook_request_async`: `get_delivery_for_webhook`; `create_attempt` and the request; `attempt_update` with `handle_webhook_retry` or `delivery_update`; `clear_successful_delivery`; a row somebody deleted |
| `EventDeliveryRetry`, `SendAgain`, `SendAgainFails` | `eventDeliveryRetry` through `WebhookPlugin.event_delivery_retry` |
| `WebhookUpdate`, `WebhookDelete`, `DeleteWebhook`, `DeleteWebhookFails`, `AppDelete` | the mutations of these names |
| `SelectDeliveries`, `RemoveAttempts`, `RemoveDeliveries`, `RemovePayloads`, `RemoveWebhook` | `remove_apps_task`, one step per raw delete; a statement that a foreign key refuses ends the run |
| `DeliveriesAge`, `DeleteEventPayloads` | the clock; `delete_event_payloads_task` |

Celery acknowledges a message before it runs the task (no `acks_late` anywhere), so
a worker that dies loses it.  A delete with its cascade is one step, as Django wraps
it in a transaction.  Each webhook has an app of its own; the replica that
`get_webhooks_for_event` reads does not lag; `DELETE_APP_TTL` may pass at once.

## 3. Runs

Runs that pass:

| Run | Question | Bounds |
|---|---|---|
| `split` | are units split over stocks counted, owed, shipped and released exactly once? | 1 variant in 2 stocks (1 and 2 units), orders of 2 and of 1 unit |
| `compete` | the inductive invariant, of the counters and of what is owed; what checkouts and reservations may take from each other; are reservations that outlive their checkout removed (with fairness)? | 2 variants, 3 lines, 2 orders, 1 and 2 units, quantities typed in up to 1, shipping 1 below zero |
| `resync` | do raced counters become exact again? | 1 stock, 2 orders of one unit |
| `place` | are answers, once-per-customer and usage right while everything around changes? | 2 checkouts of one customer, 1 client and 1 app that keeps its checkout, limit 2 |
| `race` | is one order made, named by every answer, and paid by its maker? does the code implement `Placement`? | 1 checkout, 3 clients (symmetric), single-use code |
| `coins` | does the event log explain the balance, and is a completed donation granted once, whatever interleaves and wherever a worker dies? | 1 account, 2 donations, 1 order, 3 requests of the seven kinds about goods and money |
| `logins` | can payments lead into debt, can a bonus be given twice a day, does the log explain the balances? | 2 accounts, one of them not registered, 1 order, 3 days, 3 requests |
| `orders` | do `quantity_fulfilled`, the shelf and the captured amount follow the fulfillments? | 1 line of 1 unit, 3 fulfillments, 2 calls at a time, fulfillments wait for approval |
| `expire` | does the status follow the fulfillments, are undelivered units paid back, is every open order over in the end (with fairness)? | 1 line of 2 units, 2 fulfillments, 2 calls at a time, the expiry task |
| `webhooks` | is a delivery ever forgotten, received twice, or lost with a payload it shares? are deliveries, deleted apps and unused payloads settled in the end (with fairness)? | 1 event, 2 webhooks that share its payload, 2 workers, 1 retry by celery, 1 call by staff |

Several properties say "this relation holds, except in a step that ...": the
exceptions are the places where the code does break it, by a row that changed
between read and write or by a call it accepts, and the property is that there are
no others.  `MovesAreLogged`, `SecondBonusIsRaced`, `LinesFollowFulfillments`,
`ShelfFollowsFulfillments`, `CoinsGoBackOnce`, `UndeliveredIsPaidBack` and
`StatusFollowsLines` are of this kind; each names its exceptions with their lines.
The last two hold only in shops that do without a few calls, which their premise
`Plain` names: `fulfillmentRefundProducts` never updates the status of the order,
`fulfillmentReturnProducts` updates it from the order it read when it began, and a
fulfillment that waits, is returned or is replaced keeps what was captured for its units.

Why the bounds are enough: two stocks are what it takes to split a line, and
three units in all let one order be split and the other compete for the rest;
two orders are what it takes for one to take what the other was promised; a
second line in an order is what a per-line loop or a bulk update can confuse.
Every loop of the code is over the stocks of a variant or the lines of an order,
and each has a first, a middle and an exhausted case in these instances.
`MaxQuantity` bounds what staff type in, `MaxOrdered` how far a line is edited,
`MaxOverdraft` how far `allow_stock_to_be_exceeded` goes; all three appear only
in guards or in the sets of inputs.

For the checkout, a race needs a winner and a loser; a third client is what it
takes to find the two payments that the first two have inserted.  Two checkouts
of one customer are what it takes to share a code, and a limit of 2 lets the
limit be reached or not.  Nothing else of `Checkout` is bounded: requests are made
once and checkouts go away, so the model may stop, which is why these runs do not
check for deadlock.  `place` has an app in place of the second client because the proofs
cover any mixture.

For `CoinLedger`, lost updates need two requests on one account, and a third lets
one interfere with the saved half of another; two donations are what a batch can
confuse.  For the logins, three days tell "yesterday" from "earlier".  Orders of one
unit let a fulfillment be returned, refunded and replaced within three fulfillments;
the orders of two units in `expire` can be partly fulfilled.  `MaxFulfillments` and
`MaxDay` are bounds of the model.  For `WebhookDelivery`, two webhooks are what it
takes to share a payload and two workers to be at it at the same time; one retry of
five tells the first from the last, and `MaxCalls` bounds the calls of staff and apps.
The run has no webhook with a subscription query: such a webhook shares its payload
with none, and the hazards are in the sharing.  With `Subscribed` set to one of the
two webhooks TLC finds the same properties to hold (140,621 states).

Runs that show a disagreement between the code and what its documentation says
(section `findings` of `PROJECT.json` quotes both):

| Run | Disagreement |
|---|---|
| `overbooking` | `allocate_stocks` does not see other allocations when it checks reservations |
| `revived` | an order cancelled while it is being confirmed becomes open again and is charged |

Further behaviour the models have, with no run of its own:

- Stock: a checkout's own reservation counts against it in the availability check
  (`warehouse/availability.py:303`); with two lines of one variant in one order the
  counter moves once (`warehouse/management.py:151`), and so it does when a batch
  expires several orders of one variant (`management.py:650`), until the
  resynchronisation; reservations survive their checkout (`warehouse/models.py:525`).
- Checkout: a refused request keeps the usage it has counted, as the release is
  rolled back with the order (`complete_checkout.py:1314`); an expired order does not
  give its usage back, as `Order.voucher_code` is never set (`order/tasks.py:53`);
  more orders than `usage_limit`, or than one for a single-use code, when requests
  read the voucher before another one counts (`checkout/utils.py:528`,
  `complete_checkout.py:1294`); `checkoutComplete` drops an inactive code without an
  error (`checkout/fetch.py:426`); when a worker dies between order and payment, the
  retry answers success without a payment (`checkout_complete.py:337`); two payments
  of one order, as `get_or_create` has no unique constraint (`payment/utils.py:391`).
- Coins: the updates that `LosesUpdate` and `Unlogged` name; a donation saved as
  completed by a worker that dies is never granted (`donation_complete.py:77`).
- Orders: what `Stale` and `Misplaced` name; the status that
  `fulfillmentRefundProducts` leaves behind (`order/actions.py:1260`); cancelling a refunded fulfillment puts
  units on the shelf that never left it; a paid order expires as unpaid when it was
  confirmed after the task had listed it (`order/tasks.py:116`); `orderRefund` pays
  the coins to the user of the request (`order_refund.py:101`); an order whose refund
  fails is tried again by every run (`order/actions.py:1663`).
- Webhooks: nothing sends a pending delivery again that a dead process left
  (`transport.py:175`); `delete_event_payloads_task` also takes a payload that was
  made an instant ago and has no delivery yet, and the trigger then fails at the
  foreign key (`core/tasks.py:33`); `remove_apps_task` fails half-way while a payload
  is shared with the webhook of another app (`app/tasks.py:69`), and the next run
  goes on, as the deliveries are gone by then; `get_delivery_for_webhook` looks at
  the webhook and not at its app, so a deleted app still gets what was triggered.

Fairness.  `FairSpec` of `Warehouse` assumes that time passes and that celery beat
starts `delete_expired_reservations_task` again and again; `FairTasksSpec` that it
starts and finishes the resynchronisation; `FairSpec` of `OrderFulfilment` that the
expiry task, which beat starts again, takes its next step.  All are entries of the
beat schedule in `settings.py`.  `FairSpec` of `WebhookDelivery` assumes that workers
consume the queue and go on, that a request which raised an event or asked for a
retry goes on unless it fails, and that beat starts the two clean-up tasks; that a
worker or a request may die instead is not excluded, and `dropped` remembers it.
Nothing is assumed of users, staff or receivers, and nothing at all in `Checkout` and
`CoinLedger`, whose properties are safety properties: a worker may die at any step.

## 4. Proofs

Every type invariant, safety invariant and action property of the passing runs is
proved for all values of the constants, `ImplementsPlacement` for the case the run
checks.  The inductive invariants were given to TLC first, on the instances of
section 3, and only then proved.  The section `theorems` of `PROJECT.json` lists the
results; this one gives the arguments.

Assumptions: those of the data model, which each module states in an `ASSUME`
(finite sets of primary keys, of requests and of workers; column types; `"none"`,
which stands for a missing stock, is no order line), and, where a theorem says so,
`DistinctVariants`: no order has two lines of one variant.  It is needed: such an
order is the counterexample to exact counters without it (section 3).  Sums are
cardinalities of sets of units, so that no proof needs induction over data; the one
minimum that is needed (`LeastNatural`) comes from well-foundedness of `<` on `Nat`.
`PartsInduction` in `SumsProofs` is what takes the place of induction over a finite
set, and `Sorts` and `GreedyTakesAll` speak of any loop that goes through rows in
some order and takes from each what is left to take: in all it takes what it is
asked for, or everything there is.

### Stock

`TypesAreKept`: the conjunct that needs an argument is that allocations stay natural
numbers, which rests on `ReleasedFacts` (no loop iteration of `deallocate_stock`
takes more than its row has) and `PickFacts` (no loop iteration of the allocation
takes a negative number).

`CountersStayExact` (`DistinctVariants`): `CounterIsExact` alone is not inductive.
Two lines of one call whose rows meet in a stock would make `bulk_update` lose one of
the deltas, and an order made of a checkout overwrites the rows of its lines; so
`CounterInvariant` adds `AllocationsMatchVariants` (rows are in stocks of the line's
own variant, hence under `DistinctVariants` two lines of an order never meet) and
`CartsHoldNothing`.  `BulkDeltaOfOne` then says that the counter moves by what the one
row moves, and `CounterFollows` that a sum in which one row changes moves with it.

`AllocatedUntilFulfilled` (`OwedIsAllocated`, for any data): the inductive invariant is
`OwedInvariant`, which adds that nothing is shipped before there is an order.  The
argument is what the two loops do in all: `ReleasedInAll` (`deallocate_stock` releases
what it is asked for, or all a line has, and the invariant says it has enough) and its
counterpart for `_create_allocations`, `PickedInAll`.  `LedgerIsSound` puts both invariants together
as `LedgerInvariant`, which TLC checks in `compete`.

`OthersNeverOverbook`, `CheckoutsHonourReservations` and `ReservationsAlwaysFit` are
properties of single steps, from `TypeOK`: the first for any data, by what each call
does to quantity less allocations; the other two under `DistinctVariants`, without
which two lines check their reservations against the same units.

`TasksKeepTypes` carries the types over to the modules of the tasks.  Of
`QuietCountersBecomeExact` the safety half is proved: one reading followed by one
writing, with nothing in between, makes every counter exact whatever it was
(`OneQuietRoundRepairs`), and the task alone never spoils it again
(`QuietCountersStayExact`).  That the task does run is fairness.

### Checkout

`CheckoutProofs` proves, for any numbers of checkouts, requests and customers and
any mixture of clients, apps and vouchers, that `CheckoutInvariant` is inductive
(`InvariantHolds`), and from it `TypeOK`, `OneOrderPerCheckout`, `AnswerIsTheOrder`,
`OncePerCustomerHolds` and `UsageCoversOrders`.  `OneOrderPerCheckout` is not
inductive: that the locked transaction makes no second order follows from the
checkout being there, so `OrdersAreConsistent` says that the checkout of an order
is gone (unless kept), and that a request whose order exists is past `CreateOrder`.
`OncePerCustomerHolds` needs `UsesAreRecorded`: a request that counted has left a
`VoucherCustomer`, and no expiry removes one, as no order has a `voucher_code` -
the property rests on the very omission noted in section 3.  `UsageCoversOrders`
follows from `used` being the number of requests that counted.  `OwnOrdersArePayable`
(`Spec => []OwnOrderIsPayable`) adds `OwnOrderIsHandled`: the maker's answer is its own
order from `CreateOrder` on, and a client never takes the short way of the app.

`ImplementsPlacementWithoutKeepers` (`Keepers = {}`) is the refinement: `CreateOrder`
is `Place`, the step to `answered` is `Answer`, a clean-up is `Drop`, everything else
a stutter.  Without keepers `Open` is just the set of checkouts that exist, and the
order of a checkout is unique, so the choice in `OrderOf` is determined.  With keepers
`Placement` is not what the code implements: a checkout that is kept may become
several orders.

### Coins

`TypesAreKept` is where most of the work is: each step must find the objects it uses,
so `TypeOK` says what a request has read and of whom at each `step`.

`LogExplainsBalances` (`MovesAreLogged`) follows from it action by action: a save sets
the balance to what was read plus a delta, and the log gets the delta; when the row is
still as it was read they agree, and `LosesUpdate` and `Unlogged` are the rest.

`NobodyGetsIntoDebt` (`NeverInDebt`): rows alone are not inductive, as a stale save may
write any balance that some request holds in memory.  `Solvent` therefore speaks of the
rows, of every copy of them, and of a payer who has been found able to pay.

`BonusesAreGivenOnce` (`SecondBonusIsRaced`) from `BonusDatesTheRow`: an account that got
a bonus today has today's `last_login`, so a request that gives another had read the
row before, or is the sign-up that does not look.

`DonationsAreGrantedOnce` (`GrantsFollowStatus`): the property speaks of the moment when
no request is between its two transactions; the inductive invariant `GrantsAddUp` of
every moment.  For each donation that was not misjudged from a stale read, what has been
granted and what the requests that saved a status still owe add up to what the status
is worth, where a request that died owes for ever.

### Orders

`TypesAreKept`: a validated call must still find, when it writes, fulfillments and lines
it can write to, whatever ran in between; so `TypeOK` keeps what validation established
of the copies a call holds (`Validated`).

`LinesFollow`, `ShelfFollows` and `CoinsGoBack` compare two sums over the fulfillments
before and after each step.  `Tally` is such a sum; a row that is appended, changes its
status or gives up units changes it by its own part (`TallyOfAppend` and the lemmas
after it), and a step that is not `Stale` computes exactly that part from the rows it
has read, since they are unchanged.

`StatusFollows` and `ExpiryLeavesNothing` are proved where the properties have content
(`Plain`).  The first needs `PlainInvariant`: which fulfillments and calls there are
(`PlainRows`, `PlainCalls`); `StatusIsDue`, that the status is right or a call which
will update it holds an order with the status of the column in memory; and `Untouched`,
that before the confirmation nothing is fulfilled or paid.  The second follows from
`PlainRows` and what `_expire_orders` moves into the closing fulfillment.  The attempt to
prove `StatusFollowsLines` found two things.  The history variable `astray` was
cleared by every update, also by one that writes nothing because the order in memory has
the right status already (`Differs`): with lines of three units that leaves a wrong
status unexplained, which the runs with two units do not reach.  And without `Plain`
calls leave the status to chance (section 3).

### Webhooks

`TypesAreKept` and, beside it, the invariant that the foreign keys hold (`RowsOK`):
`MadeOnce` (a delivery is made by its trigger, once), `RemovalIsOfRemoved` (the clean-up
in progress is of a deleted app) and `WorkersKnow` (what a worker has seen of the
delivery in its hands; in particular that it had been received, when it is about to
clear it).

`NoDeliveryIsForgotten` (`OpenDeliveryIsInHand`) is inductive with `RowsOK` once it also
covers deliveries that succeeded and are not cleared (`AllHeld`).  `SharedPayloadsAreSafe`
(`OnlyReceivedIsCleared`) is a property of the steps, from `RowsOK`.
`EventsAreReceivedOnce` (`ReceivedOncePerAsking`) is an argument by counting: `Once` bounds
the requests received plus those that may yet be made - by the trigger, by the messages
on the queue, by a worker that has not posted or may still retry, by a call of staff - by
one plus the number of times staff asked; each step moves a chance from one of these to
the next.

### Model-checked only

- Everything under fairness, as liveness is out of the prover's reach:
  `OrphansAreRemoved`, the liveness half of `QuietCountersBecomeExact`,
  `OpenOrdersExpire`, `DeliveriesSettle`, `DeletedAppsAreRemoved`, `UnusedPayloadsGo`.
- The two disagreements of section 3: a proof cannot show a property violated.
- `StatusFollowsLines` and `UndeliveredIsPaidBack` say nothing of shops outside `Plain`,
  and `Placement` nothing of checkouts that are kept; no run does either.

## 5. Plan

1. (done) stock ledger, its tasks, its counters proved.
2. (done) `Checkout`: the checkout lock, voucher usage, retries, payment rows; its
   safety properties and the refinement of `Placement` proved.
3. (done) `CoinLedger`: balances, events, donations, bonuses.
4. (done) `OrderFulfilment`: fulfillments, returns, refunds, cancellation, both loops
   of the expiry task.
5. (done) `WebhookDelivery`: asynchronous webhooks and the two tasks that clean up
   after them.
6. (done) Proofs of every safety invariant and action property of the passing runs.
   Left: the refinement of an abstract specification in which a checkout that is kept
   may become several orders.
7. An abstract `StockLedger` (promises fit in the quantity) that `Warehouse`
   without overrides implements.
8. Preorders and click-and-collect in `Warehouse`; the `shared` channels (leases),
   granted refunds and line edits in `OrderFulfilment`.

## 6. Not modelled

- Catalogue, channels, shipping, tax, menus, pages, attributes, translations,
  search: rows edited by staff one at a time, with no protocol between them.
- Synchronous webhooks and external payment gateways (the shop has neither),
  transaction items, observability, installation of apps; the contents of payloads.
- Thumbnails, exports, e-mail: external I/O.
- GraphQL plumbing (schema, types, permissions, dataloaders), migrations, populate
  scripts and generated data: most of the lines of the repository, and no state that
  two requests share.
- Preorders and click-and-collect of the stock ledger; drafts, line edits, notes and
  leases of orders; customers created with a balance, and `importusers`.
