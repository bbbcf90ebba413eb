------------------------------- MODULE Checkout -------------------------------
(* Turning a checkout into an order: checkoutComplete and                    *)
(* orderCreateFromCheckout, with the usage of a voucher code and the payment *)
(* of the order.  A request is a sequence of unlocked reads and short        *)
(* transactions; the steps of several requests, of the customer's edits of   *)
(* the checkout and of the clean-up tasks interleave, and a worker may die   *)
(* between any two of them.                                                  *)
(*                                                                           *)
(* One voucher with one code.  An order is identified by the request that    *)
(* creates it.  Lines, addresses, shipping and stock are left out:           *)
(* InsufficientStock and GiftCardNotApplicable may be raised at any time.    *)
EXTENDS Naturals, FiniteSets

CONSTANTS
    Checkouts,          \* rows of Checkout at the start
    Requests,           \* calls of the two mutations, each made at most once
    NoOrder,            \* no order, or a null one
    Customers,
    CustomerOf,         \* the e-mail of each checkout
    Apps,               \* requests that are orderCreateFromCheckout
    Keepers,            \* those of Apps with removeCheckout: false
    UsageLimit,         \* Voucher.usage_limit; 0 stands for NULL
    OncePerCustomer,    \* Voucher.apply_once_per_customer
    SingleUse           \* Voucher.single_use

\* The rows of Order, as far as they matter here.
OrderRows == [checkout : Checkouts, voucher : BOOLEAN, voucher_code : BOOLEAN,
              discounted : BOOLEAN, status : {"unconfirmed", "expired"}]

ASSUME CheckoutModel ==
    /\ IsFiniteSet(Requests)
    /\ NoOrder \notin Requests
    /\ NoOrder \notin OrderRows
    /\ CustomerOf \in [Checkouts -> Customers]
    /\ Apps \subseteq Requests
    /\ Keepers \subseteq Apps
    /\ UsageLimit \in Nat
    /\ OncePerCustomer \in BOOLEAN
    /\ SingleUse \in BOOLEAN

VARIABLES
    checkouts,          \* the rows of Checkout that exist
    code,               \* Checkout.voucher_code is set
    price,              \* the cached total: "stale", "full" or "discounted"
    used,               \* VoucherCode.used
    is_active,          \* VoucherCode.is_active
    customers,          \* the rows of VoucherCustomer
    orders,             \* Order rows by creating request
    payments,           \* Payment rows: the order, and the inserting request
    step,               \* how far each request is
    target,             \* the checkout it is about
    seen,               \* the Checkout row it has read: code and price
    voucher,            \* checkout_info.voucher is not None
    counted,            \* the request has increased the usage of the code
    answer              \* the order the request has made or found

rows == <<checkouts, code, price>>
discount == <<used, is_active, customers>>
request == <<step, target, seen, voucher, counted, answer>>
vars == <<rows, discount, orders, payments, request>>

Prices == {"stale", "full", "discounted"}
Steps == {"idle", "fetch", "check", "increase", "create", "reply",
          "pay", "insert", "answered", "failed", "crashed"}
Ended == {"idle", "answered", "failed", "crashed"}

Placed == {o \in Requests : orders[o] # NoOrder}

\* Mutant: the token is not looked at.
AnyOrders(c) == Placed

\* Order.objects.get_by_checkout_token
OrdersOf(c) == {o \in Placed : orders[o].checkout = c}
PaymentsOf(o) == {p \in payments : p.order = o}

\* The filters of get_voucher_for_checkout: the code is active and
\* Voucher.active finds the limit not reached.
VoucherActive ==
    /\ is_active
    /\ UsageLimit = 0 \/ used < UsageLimit

\* Mutant: the rows of VoucherCustomer are not looked at.
MayAlwaysUse(customer) == TRUE

\* Voucher.validate_once_per_customer, and the created flag of get_or_create in
\* add_voucher_usage_by_customer.
MayUse(customer) == OncePerCustomer => customer \notin customers

Priced(discounted) == IF discounted THEN "discounted" ELSE "full"

Init ==
    /\ checkouts = Checkouts
    /\ code = [c \in Checkouts |-> FALSE]
    /\ price = [c \in Checkouts |-> "stale"]
    /\ used = 0
    /\ is_active = TRUE
    /\ customers = {}
    /\ orders = [r \in Requests |-> NoOrder]
    /\ payments = {}
    /\ step = [r \in Requests |-> "idle"]
    /\ target \in [Requests -> Checkouts]
    /\ seen = [r \in Requests |-> [code |-> FALSE, price |-> "stale"]]
    /\ voucher = [r \in Requests |-> FALSE]
    /\ counted = [r \in Requests |-> FALSE]
    /\ answer = [r \in Requests |-> NoOrder]

Goto(r, s) == step' = [step EXCEPT ![r] = s]

\* Mutant: the row is not looked for again under the lock.
AlwaysExists(c) == TRUE

\* Checkout.objects.select_for_update().filter(pk=checkout_pk).first()
StillExists(c) == c \in checkouts

\* Mutant: checkoutComplete answers as soon as there is an order.
AfterPlacing(r) == "reply"

\* checkoutComplete goes on to create_payment, orderCreateFromCheckout does not.
AfterOrder(r) == IF r \in Apps THEN "reply" ELSE "pay"

\* The order is None: checkoutComplete fails on its attributes.
AfterNone(r) == IF r \in Apps THEN "reply" ELSE "failed"

-----------------------------------------------------------------------------
(* What customers and tasks do to a checkout meanwhile.                      *)

\* checkoutAddPromoCode: refused unless the voucher is active and applicable;
\* the prices are invalidated.
AddPromoCode(c) ==
    /\ c \in checkouts
    /\ VoucherActive
    /\ MayUse(CustomerOf[c])
    /\ code' = [code EXCEPT ![c] = TRUE]
    /\ price' = [price EXCEPT ![c] = "stale"]
    /\ UNCHANGED <<checkouts, discount, orders, payments, request>>

\* checkoutRemovePromoCode: by its id a voucher is removed also when it is no
\* longer active.
RemovePromoCode(c) ==
    /\ c \in checkouts
    /\ code[c]
    /\ code' = [code EXCEPT ![c] = FALSE]
    /\ price' = [price EXCEPT ![c] = "stale"]
    /\ UNCHANGED <<checkouts, discount, orders, payments, request>>

\* An edit of the lines: invalidate_checkout_prices and, within it,
\* recalculate_checkout_discount, which drops a code that applies no longer.
EditLines(c) ==
    /\ c \in checkouts
    /\ code' = [code EXCEPT ![c] = @ /\ VoucherActive /\ MayUse(CustomerOf[c])]
    /\ price' = [price EXCEPT ![c] = "stale"]
    /\ UNCHANGED <<checkouts, discount, orders, payments, request>>

\* price_expiration passes.
PricesExpire(c) ==
    /\ c \in checkouts
    /\ price[c] # "stale"
    /\ price' = [price EXCEPT ![c] = "stale"]
    /\ UNCHANGED <<checkouts, code, discount, orders, payments, request>>

\* A query of the total: _fetch_checkout_prices_if_expired.
RefreshPrices(c) ==
    /\ c \in checkouts
    /\ price[c] = "stale"
    /\ price' = [price EXCEPT ![c] = Priced(code[c] /\ VoucherActive)]
    /\ UNCHANGED <<checkouts, code, discount, orders, payments, request>>

\* delete_expired_checkouts
DeleteExpiredCheckouts(S) ==
    /\ S # {}
    /\ checkouts' = checkouts \ S
    /\ UNCHANGED <<code, price, discount, orders, payments, request>>

-----------------------------------------------------------------------------
(* The steps of a request.                                                   *)

\* get_checkout.  Without the row, checkoutComplete answers with the order of
\* the checkout if there is one, and fails otherwise.
GetCheckout(r) ==
    LET c == target[r] IN
    /\ step[r] = "idle"
    /\ \/ /\ c \in checkouts
          /\ seen' = [seen EXCEPT ![r] = [code |-> code[c], price |-> price[c]]]
          /\ Goto(r, "fetch")
          /\ UNCHANGED answer
       \/ /\ c \notin checkouts
          /\ r \notin Apps
          /\ \E o \in OrdersOf(c) : answer' = [answer EXCEPT ![r] = o]
          /\ Goto(r, "answered")
          /\ UNCHANGED seen
       \/ /\ c \notin checkouts
          /\ r \in Apps \/ OrdersOf(c) = {}
          /\ Goto(r, "failed")
          /\ UNCHANGED <<seen, answer>>
    /\ UNCHANGED <<rows, discount, orders, payments, target, voucher, counted>>

\* fetch_checkout_info reads the voucher.  orderCreateFromCheckout validates
\* it; checkoutComplete refreshes stale prices, saving the row it has read
\* (which fails when the row is gone).
FetchCheckoutInfo(r) ==
    LET c == target[r]
        refresh == r \notin Apps /\ seen[r].price = "stale"
    IN
    /\ step[r] = "fetch"
    /\ voucher' = [voucher EXCEPT ![r] = seen[r].code /\ VoucherActive]
    /\ \/ /\ \/ refresh /\ c \notin checkouts
             \/ r \in Apps /\ seen[r].code /\ ~voucher'[r]
          /\ Goto(r, "failed")
          /\ UNCHANGED <<code, price>>
       \/ /\ refresh
          /\ c \in checkouts
          /\ code' = [code EXCEPT ![c] = seen[r].code]
          /\ price' = [price EXCEPT ![c] = Priced(voucher'[r])]
          /\ Goto(r, "check")
       \/ /\ ~refresh
          /\ r \in Apps /\ seen[r].code => voucher'[r]
          /\ Goto(r, "check")
          /\ UNCHANGED <<code, price>>
    /\ UNCHANGED <<checkouts, discount, orders, payments, target, seen, counted,
                   answer>>

\* get_voucher_for_checkout(with_lock=True): code and voucher are read before
\* the lock is taken, and not again.
CheckUsage(r) ==
    /\ step[r] = "check"
    /\ Goto(r, IF voucher[r] /\ VoucherActive THEN "increase" ELSE "create")
    /\ UNCHANGED <<rows, discount, orders, payments, target, seen, voucher,
                   counted, answer>>

\* increase_voucher_usage, and the commit of its transaction.
IncreaseUsage(r) ==
    LET customer == CustomerOf[target[r]] IN
    /\ step[r] = "increase"
    /\ \/ /\ MayUse(customer)
          /\ used' = IF UsageLimit = 0 THEN used ELSE used + 1
          /\ customers' = IF OncePerCustomer THEN customers \cup {customer}
                                             ELSE customers
          /\ is_active' = (is_active /\ ~SingleUse)
          /\ counted' = [counted EXCEPT ![r] = TRUE]
          /\ Goto(r, "create")
       \/ /\ ~MayUse(customer)
          /\ Goto(r, "failed")
          /\ UNCHANGED <<discount, counted>>
    /\ UNCHANGED <<rows, orders, payments, target, seen, voucher, answer>>

\* The locked transaction finds no checkout: somebody else has placed the order,
\* or the checkout was deleted and the order is None.
FindOrder(r) ==
    LET found == OrdersOf(target[r]) IN
    /\ step[r] = "create"
    /\ ~StillExists(target[r])
    /\ \/ \E o \in found :
            /\ answer' = [answer EXCEPT ![r] = o]
            /\ Goto(r, AfterOrder(r))
       \/ /\ found = {}
          /\ Goto(r, AfterNone(r))
          /\ UNCHANGED answer
    /\ UNCHANGED <<rows, discount, orders, payments, target, seen, voucher, counted>>

\* The locked transaction makes the order.  The voucher read before is passed
\* on, and read again only when there was none; Order.voucher_code is not set.
CreateOrder(r) ==
    LET c == target[r]
        applies == voucher[r] \/ (code[c] /\ VoucherActive)
        total == IF price[c] = "stale" THEN Priced(applies /\ code[c]) ELSE price[c]
    IN
    /\ step[r] = "create"
    /\ StillExists(c)
    /\ orders' = [orders EXCEPT ![r] =
                     [checkout |-> c, voucher |-> applies, voucher_code |-> FALSE,
                      discounted |-> total = "discounted", status |-> "unconfirmed"]]
    /\ price' = [price EXCEPT ![c] = total]
    /\ checkouts' = IF r \in Keepers THEN checkouts ELSE checkouts \ {c}
    /\ answer' = [answer EXCEPT ![r] = r]
    /\ Goto(r, AfterOrder(r))
    /\ UNCHANGED <<code, discount, payments, target, seen, voucher, counted>>

\* InsufficientStock or GiftCardNotApplicable: release_voucher_code_usage runs
\* in the transaction that the exception rolls back.
RollBack(r) ==
    /\ step[r] = "create"
    /\ StillExists(target[r])
    /\ Goto(r, "failed")
    /\ UNCHANGED <<rows, discount, orders, payments, target, seen, voucher,
                   counted, answer>>

\* create_payment is Payment.objects.get_or_create, with no unique constraint:
\* the rows are looked up ...
FindPayment(r) ==
    LET n == Cardinality(PaymentsOf(answer[r])) IN
    /\ step[r] = "pay"
    /\ \/ n = 0 /\ Goto(r, "insert")
       \/ n = 1 /\ Goto(r, "answered")
       \/ n > 1 /\ Goto(r, "failed")
    /\ UNCHANGED <<rows, discount, orders, payments, target, seen, voucher,
                   counted, answer>>

\* ... and one is inserted if none was found.
InsertPayment(r) ==
    /\ step[r] = "insert"
    /\ payments' = payments \cup {[order |-> answer[r], by |-> r]}
    /\ Goto(r, "answered")
    /\ UNCHANGED <<rows, discount, orders, target, seen, voucher, counted, answer>>

\* orderCreateFromCheckout answers without a payment.
Reply(r) ==
    /\ step[r] = "reply"
    /\ Goto(r, "answered")
    /\ UNCHANGED <<rows, discount, orders, payments, target, seen, voucher,
                   counted, answer>>

\* The worker dies, or an exception that is not modelled ends the request.
Crash(r) ==
    /\ step[r] \notin Ended
    /\ Goto(r, "crashed")
    /\ UNCHANGED <<rows, discount, orders, payments, target, seen, voucher,
                   counted, answer>>

\* Mutant: every order of the batch counts as one of the code.
WholeBatch(batch) == batch

\* _bulk_release_voucher_usage looks for orders that have a voucher_code.
CodeHolders(batch) == {o \in batch : orders[o].voucher_code}

\* The unpaid batch of _expire_orders, with _bulk_release_voucher_usage: the
\* usage of the orders that have the code, and the customers of the batch.
ExpireOrders(batch) ==
    LET holders == CodeHolders(batch) IN
    /\ batch # {}
    /\ \A o \in batch : orders[o].status = "unconfirmed"
    /\ UsageLimit # 0 => Cardinality(holders) <= used
    /\ orders' = [o \in Requests |->
                     IF o \in batch THEN [orders[o] EXCEPT !.status = "expired"]
                                    ELSE orders[o]]
    /\ used' = IF UsageLimit = 0 THEN used ELSE used - Cardinality(holders)
    /\ customers' = IF holders = {} THEN customers
                    ELSE customers \ {CustomerOf[orders[o].checkout] : o \in batch}
    /\ UNCHANGED <<rows, is_active, payments, request>>

Step(r) ==
    \/ GetCheckout(r) \/ FetchCheckoutInfo(r) \/ CheckUsage(r) \/ IncreaseUsage(r)
    \/ FindOrder(r) \/ CreateOrder(r) \/ RollBack(r)
    \/ FindPayment(r) \/ InsertPayment(r) \/ Reply(r) \/ Crash(r)

Next ==
    \/ \E r \in Requests : Step(r)
    \/ \E c \in Checkouts :
          \/ AddPromoCode(c) \/ RemovePromoCode(c) \/ EditLines(c)
          \/ PricesExpire(c) \/ RefreshPrices(c)
    \/ \E S \in SUBSET checkouts : DeleteExpiredCheckouts(S)
    \/ \E batch \in SUBSET Placed : ExpireOrders(batch)

Spec == Init /\ [][Next]_vars

-----------------------------------------------------------------------------
\* Every variable has the type of its column, or of the local variable.
TypeOK ==
    /\ checkouts \subseteq Checkouts
    /\ code \in [Checkouts -> BOOLEAN]
    /\ price \in [Checkouts -> Prices]
    /\ used \in Nat
    /\ is_active \in BOOLEAN
    /\ customers \subseteq Customers
    /\ orders \in [Requests -> OrderRows \cup {NoOrder}]
    /\ payments \subseteq [order : Requests, by : Requests]
    /\ step \in [Requests -> Steps]
    /\ target \in [Requests -> Checkouts]
    /\ seen \in [Requests -> [code : BOOLEAN, price : Prices]]
    /\ voucher \in [Requests -> BOOLEAN]
    /\ counted \in [Requests -> BOOLEAN]
    /\ answer \in [Requests -> Requests \cup {NoOrder}]

\* However often a client repeats a request, and whatever runs at the same time,
\* a checkout becomes one order (create_order_from_checkout locks the row, looks
\* for it again and deletes it); only removeCheckout: false makes further ones.
OneOrderPerCheckout ==
    \A o1, o2 \in Placed \ Keepers :
        orders[o1].checkout = orders[o2].checkout => o1 = o2

\* An answer names the order of the checkout that was asked for, also when it is
\* found after the race is lost (get_by_checkout_token).
AnswerIsTheOrder ==
    \A r \in Requests : answer[r] # NoOrder =>
        /\ answer[r] \in Placed
        /\ orders[answer[r]].checkout = target[r]

\* Why a checkout becomes one order: an order is made by the request of its
\* checkout, once, before any answer, and its checkout is gone afterwards; only
\* a request that has an order gets to its payment.
OrdersAreConsistent ==
    /\ \A o \in Placed :
          /\ orders[o].checkout = target[o]
          /\ step[o] \notin {"idle", "fetch", "check", "increase", "create"}
    /\ \A o \in Placed \ Keepers : orders[o].checkout \notin checkouts
    /\ \A r \in Requests : step[r] \in {"pay", "insert"} => answer[r] # NoOrder

\* A checkoutComplete that has made the order does not answer before the order
\* has a payment, whoever inserted it.
OwnOrderIsPayable ==
    \A r \in Placed \ Apps :
        step[r] = "answered" => PaymentsOf(r) # {}

\* Two requests of one customer never both use a code that applies once per
\* customer, even when both checkouts held the code from before
\* (add_voucher_usage_by_customer).
OncePerCustomerHolds ==
    OncePerCustomer =>
        \A r1, r2 \in Requests :
            counted[r1] /\ counted[r2]
                /\ CustomerOf[target[r1]] = CustomerOf[target[r2]] => r1 = r2

\* The usage of a code covers the live orders whose requests have counted it:
\* neither racing increments nor an expiry take a use away from an order.
UsageCoversOrders ==
    UsageLimit # 0 =>
        used >= Cardinality({o \in Placed : counted[o] /\ orders[o].status = "unconfirmed"})

\* Why OncePerCustomerHolds and UsageCoversOrders hold: a request counts once, it
\* leaves a VoucherCustomer, and no expired order ever gives a use back.
UsesAreRecorded ==
    /\ \A o \in Placed : ~orders[o].voucher_code
    /\ \A r \in Requests : counted[r] =>
          /\ step[r] \notin {"idle", "fetch", "check", "increase"}
          /\ OncePerCustomer => CustomerOf[target[r]] \in customers
    /\ UsageLimit # 0 => used = Cardinality({r \in Requests : counted[r]})

\* The inductive invariant behind the theorems.
CheckoutInvariant ==
    /\ TypeOK
    /\ OrdersAreConsistent
    /\ OneOrderPerCheckout
    /\ AnswerIsTheOrder
    /\ UsesAreRecorded
    /\ OncePerCustomerHolds

\* The state of Placement: checkouts without an order, the order that
\* get_by_checkout_token finds, and the order each answer names.
Open == {c \in checkouts : OrdersOf(c) = {}}

TheOrder(S) == IF S = {} THEN NoOrder ELSE CHOOSE o \in S : TRUE

OrderOf == [c \in Checkouts |-> TheOrder(OrdersOf(c))]

Told == [r \in Requests |-> IF step[r] = "answered" THEN answer[r] ELSE NoOrder]

Abstract == INSTANCE Placement WITH open <- Open, placed <- OrderOf, told <- Told

\* With every order-placing request deleting its checkout, the code keeps the
\* promise of Placement (create_order_from_checkout and checkoutComplete).
ImplementsPlacement == Abstract!Spec
=============================================================================
