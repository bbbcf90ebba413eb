---------------------------- MODULE CheckoutProofs ----------------------------
(* Placing orders, for every number of requests and checkouts: types, one    *)
(* order per checkout, a code used once per customer, and Placement.         *)
EXTENDS Checkout, FiniteSetTheorems, TLAPS

\* The steps of a request and the actions around it, one operator per group, so
\* that a proof by cases has one step per action.
Around ==
    \/ \E c \in Checkouts :
          \/ AddPromoCode(c) \/ RemovePromoCode(c) \/ EditLines(c)
          \/ PricesExpire(c) \/ RefreshPrices(c)
    \/ \E S \in SUBSET checkouts : DeleteExpiredCheckouts(S)

\* Neither a customer's edit nor the removal of checkouts touches orders or
\* requests (checkoutAddPromoCode, delete_expired_checkouts and the like).
LEMMA AroundFacts ==
    ASSUME TypeOK, Around
    PROVE  /\ checkouts' \subseteq checkouts
           /\ code' \in [Checkouts -> BOOLEAN]
           /\ price' \in [Checkouts -> Prices]
           /\ UNCHANGED <<discount, orders, payments, request>>
<1>1. ASSUME NEW c \in Checkouts, AddPromoCode(c)
      PROVE  /\ checkouts' = checkouts
             /\ code' \in [Checkouts -> BOOLEAN]
             /\ price' \in [Checkouts -> Prices]
             /\ UNCHANGED <<discount, orders, payments, request>>
  BY <1>1 DEF AddPromoCode, TypeOK, Prices
<1>2. ASSUME NEW c \in Checkouts, RemovePromoCode(c)
      PROVE  /\ checkouts' = checkouts
             /\ code' \in [Checkouts -> BOOLEAN]
             /\ price' \in [Checkouts -> Prices]
             /\ UNCHANGED <<discount, orders, payments, request>>
  BY <1>2 DEF RemovePromoCode, TypeOK, Prices
<1>3. ASSUME NEW c \in Checkouts, EditLines(c)
      PROVE  /\ checkouts' = checkouts
             /\ code' \in [Checkouts -> BOOLEAN]
             /\ price' \in [Checkouts -> Prices]
             /\ UNCHANGED <<discount, orders, payments, request>>
  BY <1>3 DEF EditLines, TypeOK, Prices
<1>4. ASSUME NEW c \in Checkouts, PricesExpire(c)
      PROVE  /\ checkouts' = checkouts
             /\ code' \in [Checkouts -> BOOLEAN]
             /\ price' \in [Checkouts -> Prices]
             /\ UNCHANGED <<discount, orders, payments, request>>
  BY <1>4 DEF PricesExpire, TypeOK, Prices
<1>5. ASSUME NEW c \in Checkouts, RefreshPrices(c)
      PROVE  /\ checkouts' = checkouts
             /\ code' \in [Checkouts -> BOOLEAN]
             /\ price' \in [Checkouts -> Prices]
             /\ UNCHANGED <<discount, orders, payments, request>>
  BY <1>5 DEF RefreshPrices, Priced, TypeOK, Prices
<1>6. ASSUME NEW S \in SUBSET checkouts, DeleteExpiredCheckouts(S)
      PROVE  /\ checkouts' \subseteq checkouts
             /\ UNCHANGED <<code, price, discount, orders, payments, request>>
  BY <1>6 DEF DeleteExpiredCheckouts
<1> QED
  BY <1>1, <1>2, <1>3, <1>4, <1>5, <1>6 DEF Around, TypeOK

\* What every step of a request leaves as it is: the other requests and the
\* checkout it is about.
LEMMA OthersUntouched ==
    ASSUME TypeOK, NEW r \in Requests, Step(r)
    PROVE  /\ target' = target
           /\ \A q \in Requests \ {r} :
                /\ step'[q] = step[q]
                /\ seen'[q] = seen[q]
                /\ voucher'[q] = voucher[q]
                /\ counted'[q] = counted[q]
                /\ answer'[q] = answer[q]
                /\ orders'[q] = orders[q]
<1>1. CASE GetCheckout(r)
  BY <1>1 DEF GetCheckout, Goto, TypeOK
<1>2. CASE FetchCheckoutInfo(r)
  BY <1>2 DEF FetchCheckoutInfo, Goto, TypeOK
<1>3. CASE CheckUsage(r)
  BY <1>3 DEF CheckUsage, Goto, TypeOK
<1>4. CASE IncreaseUsage(r)
  BY <1>4 DEF IncreaseUsage, Goto, TypeOK
<1>5. CASE FindOrder(r)
  BY <1>5 DEF FindOrder, Goto, TypeOK
<1>6. CASE CreateOrder(r)
  BY <1>6 DEF CreateOrder, Goto, TypeOK
<1>7. CASE RollBack(r)
  BY <1>7 DEF RollBack, Goto, TypeOK
<1>8. CASE FindPayment(r)
  BY <1>8 DEF FindPayment, Goto, TypeOK
<1>9. CASE InsertPayment(r)
  BY <1>9 DEF InsertPayment, Goto, TypeOK
<1>10. CASE Reply(r)
  BY <1>10 DEF Reply, Goto, TypeOK
<1>11. CASE Crash(r)
  BY <1>11 DEF Crash, Goto, TypeOK
<1> QED
  BY <1>1, <1>2, <1>3, <1>4, <1>5, <1>6, <1>7, <1>8, <1>9, <1>10, <1>11 DEF Step

\* The types are kept by every step of a request.
LEMMA StepKeepsTypes ==
    ASSUME TypeOK, OrdersAreConsistent, NEW r \in Requests, Step(r)
    PROVE  TypeOK'
<1> DEFINE c == target[r]
<1>0. c \in Checkouts
  BY DEF TypeOK
<1>1. CASE GetCheckout(r)
  <2>1. [code |-> code[c], price |-> price[c]] \in [code : BOOLEAN, price : Prices]
    BY <1>0 DEF TypeOK
  <2>2. seen' \in [Requests -> [code : BOOLEAN, price : Prices]]
    BY <1>1, <2>1 DEF GetCheckout, TypeOK
  <2>3. answer' \in [Requests -> Requests \cup {NoOrder}]
    BY <1>1 DEF GetCheckout, TypeOK, OrdersOf, Placed
  <2>4. step' \in [Requests -> Steps]
    BY <1>1 DEF GetCheckout, TypeOK, Steps, Goto
  <2> QED
    BY <1>1, <2>2, <2>3, <2>4 DEF GetCheckout, TypeOK, rows, discount
<1>2. CASE FetchCheckoutInfo(r)
  <2>1. seen[r].code \in BOOLEAN
    BY DEF TypeOK
  <2>2. voucher' \in [Requests -> BOOLEAN]
    BY <1>2 DEF FetchCheckoutInfo, TypeOK
  <2>3. code' \in [Checkouts -> BOOLEAN]
    BY <1>2, <2>1 DEF FetchCheckoutInfo, TypeOK
  <2>4. price' \in [Checkouts -> Prices]
    BY <1>2 DEF FetchCheckoutInfo, TypeOK, Priced, Prices
  <2>5. step' \in [Requests -> Steps]
    BY <1>2 DEF FetchCheckoutInfo, TypeOK, Steps, Goto
  <2> QED
    BY <1>2, <2>2, <2>3, <2>4, <2>5 DEF FetchCheckoutInfo, TypeOK, discount
<1>3. CASE CheckUsage(r)
  BY <1>3, CheckoutModel DEF CheckUsage, TypeOK, Steps, rows, discount, Goto
<1>4. CASE IncreaseUsage(r)
  <2>1. CustomerOf[c] \in Customers
    BY <1>0, CheckoutModel
  <2>2. customers' \subseteq Customers
    BY <1>4, <2>1 DEF IncreaseUsage, TypeOK, discount
  <2>3. used' \in Nat
    BY <1>4 DEF IncreaseUsage, TypeOK, discount
  <2>4. is_active' \in BOOLEAN
    BY <1>4 DEF IncreaseUsage, TypeOK, discount
  <2>5. counted' \in [Requests -> BOOLEAN] /\ step' \in [Requests -> Steps]
    BY <1>4 DEF IncreaseUsage, TypeOK, Steps, Goto
  <2> QED
    BY <1>4, <2>2, <2>3, <2>4, <2>5 DEF IncreaseUsage, TypeOK, rows
<1>5. CASE FindOrder(r)
  <2>1. answer' \in [Requests -> Requests \cup {NoOrder}]
    BY <1>5 DEF FindOrder, TypeOK, OrdersOf, Placed
  <2>2. step' \in [Requests -> Steps]
    BY <1>5 DEF FindOrder, TypeOK, Steps, AfterOrder, AfterNone, Goto
  <2> QED
    BY <1>5, <2>1, <2>2 DEF FindOrder, TypeOK, rows, discount
<1>6. CASE CreateOrder(r)
  BY <1>6, CheckoutModel DEF CreateOrder, TypeOK, Steps, OrderRows, AfterOrder, VoucherActive, Priced, Prices, discount, Goto
<1>7. CASE RollBack(r)
  BY <1>7, CheckoutModel DEF RollBack, TypeOK, Steps, rows, discount, Goto
<1>8. CASE FindPayment(r)
  BY <1>8, CheckoutModel DEF FindPayment, TypeOK, Steps, rows, discount, Goto
<1>9. CASE InsertPayment(r)
  <2>1. answer[r] \in Requests
    BY <1>9 DEF InsertPayment, TypeOK, OrdersAreConsistent
  <2>2. payments' \subseteq [order : Requests, by : Requests]
    BY <1>9, <2>1 DEF InsertPayment, TypeOK
  <2> QED
    BY <1>9, <2>2 DEF InsertPayment, TypeOK, Steps, rows, discount, Goto
<1>10. CASE Reply(r)
  BY <1>10, CheckoutModel DEF Reply, TypeOK, Steps, rows, discount, Goto
<1>11. CASE Crash(r)
  BY <1>11, CheckoutModel DEF Crash, TypeOK, Steps, rows, discount, Goto
<1> QED
  BY <1>1, <1>2, <1>3, <1>4, <1>5, <1>6, <1>7, <1>8, <1>9, <1>10, <1>11 DEF Step

\* A step of a request keeps orders and requests consistent, makes no second
\* order of a checkout, and answers with the checkout's own order.
LEMMA StepKeepsOrders ==
    ASSUME TypeOK, OrdersAreConsistent, OneOrderPerCheckout, AnswerIsTheOrder,
           NEW r \in Requests, Step(r)
    PROVE  /\ OrdersAreConsistent'
           /\ OneOrderPerCheckout'
           /\ AnswerIsTheOrder'
<1> DEFINE c == target[r]
           Early == {"idle", "fetch", "check", "increase", "create"}
<1>0. /\ target' = target
      /\ \A q \in Requests \ {r} : /\ step'[q] = step[q]
                                   /\ answer'[q] = answer[q]
                                   /\ orders'[q] = orders[q]
  BY OthersUntouched
<1>s. DOMAIN step = Requests /\ DOMAIN answer = Requests /\ DOMAIN orders = Requests
  BY DEF TypeOK
<1>a. ASSUME orders' = orders, checkouts' = checkouts,
             r \in Placed => step'[r] \notin Early,
             step'[r] \in {"pay", "insert"} => answer'[r] # NoOrder,
             answer'[r] # NoOrder => answer'[r] \in OrdersOf(c)
      PROVE  /\ OrdersAreConsistent'
             /\ OneOrderPerCheckout'
             /\ AnswerIsTheOrder'
  <2>1. Placed' = Placed
    BY <1>a DEF Placed
  <2>2. OrdersAreConsistent'
    <3>1. ASSUME NEW o \in Placed
          PROVE  orders'[o].checkout = target'[o] /\ step'[o] \notin Early
      BY <1>0, <1>a DEF OrdersAreConsistent, Placed
    <3>2. \A o \in Placed \ Keepers : orders'[o].checkout \notin checkouts'
      BY <1>a DEF OrdersAreConsistent
    <3>3. \A q \in Requests : step'[q] \in {"pay", "insert"} => answer'[q] # NoOrder
      BY <1>0, <1>a DEF OrdersAreConsistent
    <3> QED
      BY <2>1, <3>1, <3>2, <3>3 DEF OrdersAreConsistent
  <2>3. OneOrderPerCheckout'
    BY <2>1, <1>a DEF OneOrderPerCheckout
  <2>4. AnswerIsTheOrder'
    BY <2>1, <1>0, <1>a DEF AnswerIsTheOrder, OrdersOf
  <2> QED
    BY <2>2, <2>3, <2>4
<1>b. answer[r] # NoOrder => answer[r] \in OrdersOf(c)
  BY DEF AnswerIsTheOrder, OrdersOf
<1>1. CASE GetCheckout(r)
  <2>1. r \notin Placed
    BY <1>1 DEF GetCheckout, OrdersAreConsistent
  <2>2. orders' = orders /\ checkouts' = checkouts
    BY <1>1 DEF GetCheckout, rows
  <2>3. step'[r] \in {"fetch", "answered", "failed"}
    BY <1>1, <1>s DEF GetCheckout, Goto
  <2>4. answer'[r] # NoOrder => answer'[r] \in OrdersOf(c)
    BY <1>1, <1>b, <1>s DEF GetCheckout
  <2> QED
    BY <2>1, <2>2, <2>3, <2>4, <1>a
<1>2. CASE FindOrder(r)
  <2>1. r \notin Placed
    BY <1>2 DEF FindOrder, OrdersAreConsistent
  <2>2. orders' = orders /\ checkouts' = checkouts
    BY <1>2 DEF FindOrder, rows
  <2>3. step'[r] \in {"pay", "insert"} => answer'[r] # NoOrder
    BY <1>2, <1>s, CheckoutModel DEF FindOrder, Goto, AfterNone, OrdersOf, Placed
  <2>4. answer'[r] # NoOrder => answer'[r] \in OrdersOf(c)
    BY <1>2, <1>b, <1>s DEF FindOrder
  <2> QED
    BY <2>1, <2>2, <2>3, <2>4, <1>a
<1>3. CASE CreateOrder(r)
  <2>1. r \notin Placed /\ c \in checkouts
    BY <1>3 DEF CreateOrder, OrdersAreConsistent, StillExists
  <2>2. /\ orders'[r] # NoOrder
        /\ orders'[r].checkout = c
    <3>1. orders'[r] \in OrderRows /\ orders'[r].checkout = c
      <4> DEFINE applies == voucher[r] \/ (code[c] /\ VoucherActive)
                 total == IF price[c] = "stale" THEN Priced(applies /\ code[c])
                                                ELSE price[c]
      <4>1. orders'[r] = [checkout |-> c, voucher |-> applies, voucher_code |-> FALSE,
                          discounted |-> total = "discounted", status |-> "unconfirmed"]
        BY <1>3, <1>s DEF CreateOrder
      <4> HIDE DEF total
      <4>2. c \in Checkouts /\ voucher[r] \in BOOLEAN
        BY DEF TypeOK
      <4> QED
        BY <4>1, <4>2 DEF OrderRows
    <3> QED
      BY <1>3, <1>s, <3>1, CheckoutModel
  <2>3. Placed' = Placed \cup {r}
    BY <2>2, <1>0 DEF Placed
  <2>4. checkouts' \subseteq checkouts /\ (r \notin Keepers => c \notin checkouts')
    BY <1>3 DEF CreateOrder
  <2>5. answer'[r] = r /\ step'[r] \in {"reply", "pay"}
    BY <1>3, <1>s DEF CreateOrder, Goto, AfterOrder
  <2>6. OrdersAreConsistent'
    <3>1. ASSUME NEW o \in Placed'
          PROVE  orders'[o].checkout = target'[o] /\ step'[o] \notin Early
      BY <1>0, <2>2, <2>3, <2>5 DEF OrdersAreConsistent, Placed
    <3>2. ASSUME NEW o \in Placed' \ Keepers
          PROVE  orders'[o].checkout \notin checkouts'
      BY <1>0, <2>2, <2>3, <2>4 DEF OrdersAreConsistent, Placed
    <3>3. \A q \in Requests : step'[q] \in {"pay", "insert"} => answer'[q] # NoOrder
      BY <1>0, <2>5, CheckoutModel DEF OrdersAreConsistent
    <3> QED
      BY <3>1, <3>2, <3>3 DEF OrdersAreConsistent
  <2>7. OneOrderPerCheckout'
    <3>1. \A o \in Placed \ Keepers : o # r /\ orders'[o].checkout # c
      BY <1>0, <2>1 DEF OrdersAreConsistent, Placed
    <3> QED
      BY <1>0, <2>2, <2>3, <3>1 DEF OneOrderPerCheckout, Placed
  <2>8. AnswerIsTheOrder'
    <3>1. ASSUME NEW q \in Requests, q # r, answer'[q] # NoOrder
          PROVE  /\ answer'[q] \in Placed
                 /\ orders'[answer'[q]].checkout = target'[q]
      <4>1. answer[q] \in Placed /\ answer[q] # r /\ answer'[q] = answer[q]
        BY <1>0, <2>1, <3>1 DEF AnswerIsTheOrder
      <4>2. orders'[answer[q]] = orders[answer[q]]
        BY <4>1, <1>0 DEF Placed
      <4> QED
        BY <4>1, <4>2, <1>0, <3>1 DEF AnswerIsTheOrder
    <3> QED
      BY <2>2, <2>3, <2>5, <3>1, <1>0 DEF AnswerIsTheOrder
  <2> QED
    BY <2>6, <2>7, <2>8
<1>4. CASE FetchCheckoutInfo(r)
  <2>1. orders' = orders /\ checkouts' = checkouts /\ answer' = answer
    BY <1>4 DEF FetchCheckoutInfo
  <2>2. r \notin Placed
    BY <1>4 DEF FetchCheckoutInfo, OrdersAreConsistent
  <2>3. step'[r] \notin {"pay", "insert"}
    BY <1>4, <1>s DEF FetchCheckoutInfo, Goto
  <2> QED
    BY <2>1, <2>2, <2>3, <1>a, <1>b
<1>5. CASE CheckUsage(r)
  <2>1. orders' = orders /\ checkouts' = checkouts /\ answer' = answer
    BY <1>5 DEF CheckUsage, rows
  <2>2. r \notin Placed
    BY <1>5 DEF CheckUsage, OrdersAreConsistent
  <2>3. step'[r] \notin {"pay", "insert"}
    BY <1>5, <1>s DEF CheckUsage, Goto
  <2> QED
    BY <2>1, <2>2, <2>3, <1>a, <1>b
<1>6. CASE IncreaseUsage(r)
  <2>1. orders' = orders /\ checkouts' = checkouts /\ answer' = answer
    BY <1>6 DEF IncreaseUsage, rows
  <2>2. r \notin Placed
    BY <1>6 DEF IncreaseUsage, OrdersAreConsistent
  <2>3. step'[r] \notin {"pay", "insert"}
    BY <1>6, <1>s DEF IncreaseUsage, Goto
  <2> QED
    BY <2>1, <2>2, <2>3, <1>a, <1>b
<1>7. CASE RollBack(r)
  <2>1. orders' = orders /\ checkouts' = checkouts /\ answer' = answer
    BY <1>7 DEF RollBack, rows
  <2>2. r \notin Placed
    BY <1>7 DEF RollBack, OrdersAreConsistent
  <2>3. step'[r] \notin {"pay", "insert"}
    BY <1>7, <1>s DEF RollBack, Goto
  <2> QED
    BY <2>1, <2>2, <2>3, <1>a, <1>b
<1>8. CASE FindPayment(r)
  <2>1. orders' = orders /\ checkouts' = checkouts /\ answer' = answer
    BY <1>8 DEF FindPayment, rows
  <2>2. step'[r] \in {"insert", "answered", "failed", "crashed"}
    BY <1>8, <1>s DEF FindPayment, Goto
  <2>3. step'[r] = "insert" => answer[r] # NoOrder
    BY <1>8, <1>s DEF FindPayment, Goto, OrdersAreConsistent
  <2> QED
    BY <2>1, <2>2, <2>3, <1>a, <1>b
<1>9. CASE InsertPayment(r)
  <2>1. orders' = orders /\ checkouts' = checkouts /\ answer' = answer
    BY <1>9 DEF InsertPayment, rows
  <2>2. step'[r] \in {"insert", "answered", "failed", "crashed"}
    BY <1>9, <1>s DEF InsertPayment, Goto
  <2>3. step'[r] = "insert" => answer[r] # NoOrder
    BY <1>9, <1>s DEF InsertPayment, Goto, OrdersAreConsistent
  <2> QED
    BY <2>1, <2>2, <2>3, <1>a, <1>b
<1>10. CASE Reply(r)
  <2>1. orders' = orders /\ checkouts' = checkouts /\ answer' = answer
    BY <1>10 DEF Reply, rows
  <2>2. step'[r] \in {"insert", "answered", "failed", "crashed"}
    BY <1>10, <1>s DEF Reply, Goto
  <2>3. step'[r] = "insert" => answer[r] # NoOrder
    BY <1>10, <1>s DEF Reply, Goto, OrdersAreConsistent
  <2> QED
    BY <2>1, <2>2, <2>3, <1>a, <1>b
<1>11. CASE Crash(r)
  <2>1. orders' = orders /\ checkouts' = checkouts /\ answer' = answer
    BY <1>11 DEF Crash, rows
  <2>2. step'[r] \in {"insert", "answered", "failed", "crashed"}
    BY <1>11, <1>s DEF Crash, Goto
  <2>3. step'[r] = "insert" => answer[r] # NoOrder
    BY <1>11, <1>s DEF Crash, Goto, OrdersAreConsistent
  <2> QED
    BY <2>1, <2>2, <2>3, <1>a, <1>b
<1> QED
  BY <1>1, <1>2, <1>3, <1>4, <1>5, <1>6, <1>7, <1>8, <1>9, <1>10, <1>11 DEF Step

\* A step of a request counts the code at most once per request and at most once
\* per customer, and records it (increase_voucher_usage).
LEMMA StepKeepsUses ==
    ASSUME TypeOK, UsesAreRecorded, OncePerCustomerHolds,
           NEW r \in Requests, Step(r)
    PROVE  UsesAreRecorded' /\ OncePerCustomerHolds'
<1> DEFINE Early == {"idle", "fetch", "check", "increase"}
           Counting == {q \in Requests : counted[q]}
<1>0. /\ target' = target
      /\ \A q \in Requests \ {r} : /\ step'[q] = step[q]
                                   /\ counted'[q] = counted[q]
                                   /\ orders'[q] = orders[q]
  BY OthersUntouched
<1>s. DOMAIN step = Requests /\ DOMAIN counted = Requests /\ DOMAIN orders = Requests
  BY DEF TypeOK
<1>e. counted[r] => step[r] \notin Early
  BY DEF UsesAreRecorded
<1>a. ASSUME used' = used, customers' = customers, counted' = counted,
             orders'[r] # NoOrder => ~orders'[r].voucher_code,
             counted[r] => step'[r] \notin Early
      PROVE  UsesAreRecorded' /\ OncePerCustomerHolds'
  <2>1. \A o \in Placed' : ~orders'[o].voucher_code
    BY <1>0, <1>a DEF UsesAreRecorded, Placed
  <2>2. ASSUME NEW q \in Requests, counted'[q]
        PROVE  /\ step'[q] \notin Early
               /\ OncePerCustomer => CustomerOf[target'[q]] \in customers'
    BY <1>0, <1>a, <2>2 DEF UsesAreRecorded
  <2>3. UsageLimit # 0 => used' = Cardinality({q \in Requests : counted'[q]})
    BY <1>a DEF UsesAreRecorded
  <2>4. UsesAreRecorded'
    BY <2>1, <2>2, <2>3 DEF UsesAreRecorded
  <2>5. OncePerCustomerHolds'
    BY <1>0, <1>a DEF OncePerCustomerHolds
  <2> QED
    BY <2>4, <2>5
<1>b. ASSUME orders' = orders
      PROVE  orders'[r] # NoOrder => ~orders'[r].voucher_code
  BY <1>b DEF UsesAreRecorded, Placed
<1>1. CASE GetCheckout(r)
  <2>1. step[r] = "idle" /\ orders' = orders /\ UNCHANGED <<used, customers, counted>>
    BY <1>1 DEF GetCheckout, discount
  <2> QED
    BY <2>1, <1>e, <1>a, <1>b
<1>2. CASE FetchCheckoutInfo(r)
  <2>1. step[r] = "fetch" /\ orders' = orders /\ UNCHANGED <<used, customers, counted>>
    BY <1>2 DEF FetchCheckoutInfo, discount
  <2> QED
    BY <2>1, <1>e, <1>a, <1>b
<1>3. CASE CheckUsage(r)
  <2>1. step[r] = "check" /\ orders' = orders /\ UNCHANGED <<used, customers, counted>>
    BY <1>3 DEF CheckUsage, discount
  <2> QED
    BY <2>1, <1>e, <1>a, <1>b
<1>4. CASE IncreaseUsage(r)
  <2> DEFINE customer == CustomerOf[target[r]]
  <2>0. step[r] = "increase" /\ orders' = orders /\ ~counted[r]
    BY <1>4, <1>e DEF IncreaseUsage
  <2>1. CASE ~MayUse(customer)
    <3>1. UNCHANGED <<used, customers, counted>>
      BY <1>4, <2>1 DEF IncreaseUsage, discount
    <3> QED
      BY <2>0, <3>1, <1>a, <1>b
  <2>2. CASE MayUse(customer)
    <3>1. /\ used' = IF UsageLimit = 0 THEN used ELSE used + 1
          /\ customers' = IF OncePerCustomer THEN customers \cup {customer}
                                             ELSE customers
          /\ counted' = [counted EXCEPT ![r] = TRUE]
          /\ step'[r] = "create"
      BY <1>4, <2>2, <1>s DEF IncreaseUsage, Goto
    <3>2. {q \in Requests : counted'[q]} = Counting \cup {r}
      BY <3>1, <1>s
    <3>3. IsFiniteSet(Counting) /\ r \notin Counting
      BY <2>0, CheckoutModel, FS_Subset
    <3>4. Cardinality(Counting \cup {r}) = Cardinality(Counting) + 1
      BY <3>3, FS_AddElement
    <3>5. UsageLimit # 0 => used' = Cardinality({q \in Requests : counted'[q]})
      BY <3>1, <3>2, <3>4 DEF UsesAreRecorded
    <3>6. ASSUME NEW q \in Requests, counted'[q]
          PROVE  /\ step'[q] \notin Early
                 /\ OncePerCustomer => CustomerOf[target'[q]] \in customers'
      BY <1>0, <3>1, <3>6 DEF UsesAreRecorded
    <3>7. \A o \in Placed' : ~orders'[o].voucher_code
      BY <2>0 DEF UsesAreRecorded, Placed
    <3>8. OncePerCustomerHolds'
      <4>1. OncePerCustomer => \A q \in Requests : counted[q] => CustomerOf[target[q]] # customer
        BY <2>2 DEF MayUse, UsesAreRecorded
      <4> QED
        BY <1>0, <3>1, <4>1 DEF OncePerCustomerHolds
    <3> QED
      BY <3>5, <3>6, <3>7, <3>8 DEF UsesAreRecorded
  <2> QED
    BY <2>1, <2>2
<1>5. CASE FindOrder(r)
  <2>1. /\ step'[r] \in {"reply", "pay", "failed"}
        /\ orders' = orders
        /\ UNCHANGED <<used, customers, counted>>
    BY <1>5, <1>s DEF FindOrder, Goto, AfterOrder, AfterNone, discount
  <2> QED
    BY <2>1, <1>a, <1>b
<1>6. CASE CreateOrder(r)
  <2>1. /\ step'[r] \in {"reply", "pay"}
        /\ UNCHANGED <<used, customers, counted>>
        /\ ~orders'[r].voucher_code
    BY <1>6, <1>s DEF CreateOrder, Goto, AfterOrder, discount
  <2> QED
    BY <2>1, <1>a
<1>7. CASE RollBack(r)
  <2>1. step'[r] = "failed" /\ orders' = orders /\ UNCHANGED <<used, customers, counted>>
    BY <1>7, <1>s DEF RollBack, Goto, discount
  <2> QED
    BY <2>1, <1>a, <1>b
<1>8. CASE FindPayment(r)
  <2>1. /\ step'[r] \in {"insert", "answered", "failed"}
        /\ orders' = orders
        /\ UNCHANGED <<used, customers, counted>>
    BY <1>8, <1>s DEF FindPayment, Goto, discount
  <2> QED
    BY <2>1, <1>a, <1>b
<1>9. CASE InsertPayment(r)
  <2>1. step'[r] = "answered" /\ orders' = orders /\ UNCHANGED <<used, customers, counted>>
    BY <1>9, <1>s DEF InsertPayment, Goto, discount
  <2> QED
    BY <2>1, <1>a, <1>b
<1>10. CASE Reply(r)
  <2>1. step'[r] = "answered" /\ orders' = orders /\ UNCHANGED <<used, customers, counted>>
    BY <1>10, <1>s DEF Reply, Goto, discount
  <2> QED
    BY <2>1, <1>a, <1>b
<1>11. CASE Crash(r)
  <2>1. step'[r] = "crashed" /\ orders' = orders /\ UNCHANGED <<used, customers, counted>>
    BY <1>11, <1>s DEF Crash, Goto, discount
  <2> QED
    BY <2>1, <1>a, <1>b
<1> QED
  BY <1>1, <1>2, <1>3, <1>4, <1>5, <1>6, <1>7, <1>8, <1>9, <1>10, <1>11 DEF Step

\* Edits of the checkout and the removal of checkouts keep the invariant.
LEMMA AroundKeepsInvariant ==
    ASSUME CheckoutInvariant, Around
    PROVE  CheckoutInvariant'
<1>1. /\ checkouts' \subseteq checkouts
      /\ code' \in [Checkouts -> BOOLEAN]
      /\ price' \in [Checkouts -> Prices]
      /\ UNCHANGED <<discount, orders, payments, request>>
  BY AroundFacts DEF CheckoutInvariant
<1>2. TypeOK'
  BY <1>1 DEF CheckoutInvariant, TypeOK, discount, request
<1>3. Placed' = Placed
  BY <1>1 DEF Placed
<1>4. OrdersAreConsistent'
  BY <1>1, <1>3 DEF CheckoutInvariant, OrdersAreConsistent, request
<1>5. OneOrderPerCheckout' /\ AnswerIsTheOrder'
  BY <1>1, <1>3 DEF CheckoutInvariant, OneOrderPerCheckout, AnswerIsTheOrder, request
<1>6. UsesAreRecorded' /\ OncePerCustomerHolds'
  BY <1>1, <1>3 DEF CheckoutInvariant, UsesAreRecorded, OncePerCustomerHolds,
                    discount, request
<1> QED
  BY <1>2, <1>4, <1>5, <1>6 DEF CheckoutInvariant

\* An expiry batch changes the status of orders and nothing else: no order has a
\* voucher_code, so _bulk_release_voucher_usage finds none.
LEMMA ExpiryFacts ==
    ASSUME CheckoutInvariant, NEW batch \in SUBSET Placed, ExpireOrders(batch)
    PROVE  /\ UNCHANGED <<rows, discount, payments, request>>
           /\ orders' \in [Requests -> OrderRows \cup {NoOrder}]
           /\ Placed' = Placed
           /\ \A o \in Placed : /\ orders'[o].checkout = orders[o].checkout
                                /\ ~orders'[o].voucher_code
                                /\ orders'[o].status # orders[o].status
                                      => orders'[o].status = "expired"
<1>1. CodeHolders(batch) = {}
  BY DEF CodeHolders, CheckoutInvariant, UsesAreRecorded
<1>2. Cardinality(CodeHolders(batch)) = 0
  BY <1>1, FS_EmptySet
<1>3. used' = used /\ customers' = customers
  BY <1>1, <1>2 DEF ExpireOrders, CheckoutInvariant, TypeOK
<1>4. \A o \in Placed : orders[o] \in OrderRows
  BY DEF CheckoutInvariant, TypeOK, Placed
<1>5. \A o \in Placed :
        /\ orders'[o] \in OrderRows
        /\ orders'[o].checkout = orders[o].checkout
        /\ orders'[o].voucher_code = orders[o].voucher_code
        /\ orders'[o].status \in {orders[o].status, "expired"}
  <2>1. SUFFICES ASSUME NEW o \in Placed
                 PROVE  /\ orders'[o] \in OrderRows
                        /\ orders'[o].checkout = orders[o].checkout
                        /\ orders'[o].voucher_code = orders[o].voucher_code
                        /\ orders'[o].status \in {orders[o].status, "expired"}
    OBVIOUS
  <2>2. orders'[o] = IF o \in batch THEN [orders[o] EXCEPT !.status = "expired"]
                                    ELSE orders[o]
    BY DEF ExpireOrders, Placed
  <2> QED
    BY <2>2, <1>4 DEF OrderRows
<1>6. \A o \in Requests \ Placed : orders'[o] = orders[o]
  BY DEF ExpireOrders
<1>7. orders' \in [Requests -> OrderRows \cup {NoOrder}]
  <2>1. orders' = [o \in Requests |-> orders'[o]]
    BY DEF ExpireOrders
  <2>2. \A o \in Requests : orders'[o] \in OrderRows \cup {NoOrder}
    BY <1>5, <1>6 DEF Placed
  <2> QED
    BY <2>1, <2>2
<1>8. Placed' = Placed
  BY <1>5, <1>6, CheckoutModel DEF Placed
<1> QED
  BY <1>3, <1>5, <1>7, <1>8
     DEF ExpireOrders, discount, CheckoutInvariant, UsesAreRecorded

\* An expiry batch keeps the invariant.
LEMMA ExpiryKeepsInvariant ==
    ASSUME CheckoutInvariant, NEW batch \in SUBSET Placed, ExpireOrders(batch)
    PROVE  CheckoutInvariant'
<1>1. /\ UNCHANGED <<rows, discount, payments, request>>
      /\ orders' \in [Requests -> OrderRows \cup {NoOrder}]
      /\ Placed' = Placed
      /\ \A o \in Placed : /\ orders'[o].checkout = orders[o].checkout
                           /\ ~orders'[o].voucher_code
  BY ExpiryFacts
<1>2. TypeOK'
  BY <1>1 DEF CheckoutInvariant, TypeOK, rows, discount, request
<1>3. OrdersAreConsistent'
  BY <1>1 DEF CheckoutInvariant, OrdersAreConsistent, rows, request
<1>4. OneOrderPerCheckout'
  BY <1>1 DEF CheckoutInvariant, OneOrderPerCheckout
<1>5. AnswerIsTheOrder'
  BY <1>1 DEF CheckoutInvariant, AnswerIsTheOrder, request
<1>6. UsesAreRecorded' /\ OncePerCustomerHolds'
  BY <1>1 DEF CheckoutInvariant, UsesAreRecorded, OncePerCustomerHolds,
              discount, request
<1> QED
  BY <1>2, <1>3, <1>4, <1>5, <1>6 DEF CheckoutInvariant

\* At the start there is no order and no use of the code.
LEMMA InitEstablishesInvariant == Init => CheckoutInvariant
<1> SUFFICES ASSUME Init PROVE CheckoutInvariant
  OBVIOUS
<1>1. Placed = {}
  BY DEF Init, Placed
<1>2. TypeOK
  BY DEF Init, TypeOK, Prices, Steps
<1>3. OrdersAreConsistent
  BY <1>1 DEF Init, OrdersAreConsistent
<1>4. OneOrderPerCheckout /\ AnswerIsTheOrder
  BY <1>1 DEF Init, OneOrderPerCheckout, AnswerIsTheOrder
<1>5. UsesAreRecorded
  <2>1. {r \in Requests : counted[r]} = {}
    BY DEF Init
  <2>2. Cardinality({r \in Requests : counted[r]}) = 0
    BY <2>1, FS_EmptySet
  <2> QED
    BY <1>1, <2>2 DEF Init, UsesAreRecorded
<1>6. OncePerCustomerHolds
  BY DEF Init, OncePerCustomerHolds
<1> QED
  BY <1>2, <1>3, <1>4, <1>5, <1>6 DEF CheckoutInvariant

\* Every step of the specification keeps the invariant.
LEMMA NextKeepsInvariant ==
    ASSUME CheckoutInvariant, [Next]_vars
    PROVE  CheckoutInvariant'
<1>1. ASSUME NEW r \in Requests, Step(r)
      PROVE  CheckoutInvariant'
  <2>1. TypeOK'
    BY <1>1, StepKeepsTypes DEF CheckoutInvariant
  <2>2. OrdersAreConsistent' /\ OneOrderPerCheckout' /\ AnswerIsTheOrder'
    BY <1>1, StepKeepsOrders DEF CheckoutInvariant
  <2>3. UsesAreRecorded' /\ OncePerCustomerHolds'
    BY <1>1, StepKeepsUses DEF CheckoutInvariant
  <2> QED
    BY <2>1, <2>2, <2>3 DEF CheckoutInvariant
<1>2. CASE Around
  BY <1>2, AroundKeepsInvariant
<1>3. ASSUME NEW batch \in SUBSET Placed, ExpireOrders(batch)
      PROVE  CheckoutInvariant'
  BY <1>3, ExpiryKeepsInvariant
<1>4. CASE UNCHANGED vars
  BY <1>4 DEF CheckoutInvariant, TypeOK, OrdersAreConsistent, OneOrderPerCheckout,
              AnswerIsTheOrder, UsesAreRecorded, OncePerCustomerHolds, Placed,
              vars, rows, discount, request
<1> QED
  BY <1>1, <1>2, <1>3, <1>4 DEF Next, Around

-----------------------------------------------------------------------------
\* The inductive invariant holds of every behaviour.
THEOREM InvariantHolds == Spec => []CheckoutInvariant
<1> QED
  BY InitEstablishesInvariant, NextKeepsInvariant, PTL DEF Spec

\* Every variable keeps the type of its column (Checkout, Order, VoucherCode).
THEOREM CheckoutTypes == Spec => []TypeOK
<1>1. CheckoutInvariant => TypeOK
  BY DEF CheckoutInvariant
<1> QED
  BY <1>1, InvariantHolds, PTL

\* However many requests run for it, and whatever else happens to it, a checkout
\* becomes at most one order (create_order_from_checkout).
THEOREM CheckoutBecomesOneOrder == Spec => []OneOrderPerCheckout
<1>1. CheckoutInvariant => OneOrderPerCheckout
  BY DEF CheckoutInvariant
<1> QED
  BY <1>1, InvariantHolds, PTL

\* Every answer names the order of the checkout that was asked for
\* (get_by_checkout_token).
THEOREM AnswersNameTheOrder == Spec => []AnswerIsTheOrder
<1>1. CheckoutInvariant => AnswerIsTheOrder
  BY DEF CheckoutInvariant
<1> QED
  BY <1>1, InvariantHolds, PTL

\* A customer never uses a once-per-customer code in two requests
\* (add_voucher_usage_by_customer).
THEOREM CustomersUseACodeOnce == Spec => []OncePerCustomerHolds
<1>1. CheckoutInvariant => OncePerCustomerHolds
  BY DEF CheckoutInvariant
<1> QED
  BY <1>1, InvariantHolds, PTL

\* No order loses the use it has counted (increase_voucher_usage,
\* _bulk_release_voucher_usage).
THEOREM UsageCoversEveryOrder == Spec => []UsageCoversOrders
<1>1. ASSUME CheckoutInvariant
      PROVE  UsageCoversOrders
  <2> DEFINE Live == {o \in Placed : counted[o] /\ orders[o].status = "unconfirmed"}
             Counting == {r \in Requests : counted[r]}
  <2>1. IsFiniteSet(Counting)
    BY CheckoutModel, FS_Subset
  <2>2. Live \subseteq Counting
    BY DEF Placed
  <2>3. Cardinality(Live) <= Cardinality(Counting)
    BY <2>1, <2>2, FS_Subset
  <2>4. Cardinality(Live) \in Nat /\ Cardinality(Counting) \in Nat
    BY <2>1, <2>2, FS_Subset, FS_CardinalityType
  <2> QED
    BY <1>1, <2>3, <2>4 DEF CheckoutInvariant, UsesAreRecorded, UsageCoversOrders
<1> QED
  BY <1>1, InvariantHolds, PTL

-----------------------------------------------------------------------------
(* Checkout implements Placement when no request keeps its checkout.          *)

\* The order that get_by_checkout_token finds is the only one of its checkout.
LEMMA OrderOfCheckout ==
    ASSUME Keepers = {}, CheckoutInvariant, NEW o \in Placed
    PROVE  /\ orders[o].checkout \in Checkouts
           /\ OrdersOf(orders[o].checkout) = {o}
           /\ OrderOf[orders[o].checkout] = o
<1> DEFINE c == orders[o].checkout
<1>1. c \in Checkouts
  BY DEF CheckoutInvariant, OrdersAreConsistent, TypeOK, Placed
<1>2. OrdersOf(c) = {o}
  BY DEF CheckoutInvariant, OneOrderPerCheckout, OrdersOf
<1>3. TheOrder({o}) = o
  BY DEF TheOrder
<1> QED
  BY <1>1, <1>2, <1>3 DEF OrderOf

\* A checkout that still exists has no order.
LEMMA OpenCheckouts ==
    ASSUME Keepers = {}, CheckoutInvariant
    PROVE  Open = checkouts
BY DEF Open, OrdersOf, CheckoutInvariant, OrdersAreConsistent

\* A step that makes no order and ends no request leaves orders and answers.
LEMMA OrderOfUnchanged ==
    ASSUME TypeOK, TypeOK', Placed' = Placed,
           \A o \in Placed : orders'[o].checkout = orders[o].checkout
    PROVE  OrderOf' = OrderOf
<1>1. \A c \in Checkouts : OrdersOf(c)' = OrdersOf(c)
  BY DEF OrdersOf
<1> QED
  BY <1>1 DEF OrderOf

\* The initial state has only open checkouts.
LEMMA InitIsAbstract == Init => Abstract!Init
<1> SUFFICES ASSUME Init PROVE Abstract!Init
  OBVIOUS
<1>1. \A c : OrdersOf(c) = {}
  BY DEF Init, OrdersOf, Placed
<1>2. Open = Checkouts
  BY <1>1 DEF Init, Open
<1>3. OrderOf = [c \in Checkouts |-> NoOrder]
  BY <1>1 DEF OrderOf, TheOrder
<1>4. Told = [r \in Requests |-> NoOrder]
  BY DEF Init, Told
<1> QED
  BY <1>2, <1>3, <1>4 DEF Abstract!Init

\* A request places its order, is answered with the order of its checkout, or
\* does something Placement does not see.
LEMMA StepIsAbstract ==
    ASSUME Keepers = {}, CheckoutInvariant, CheckoutInvariant',
           NEW r \in Requests, Step(r)
    PROVE  Abstract!Next \/ UNCHANGED Abstract!vars
<1> DEFINE c == target[r]
<1>0. /\ target' = target
      /\ \A q \in Requests \ {r} : /\ step'[q] = step[q]
                                   /\ answer'[q] = answer[q]
                                   /\ orders'[q] = orders[q]
  BY OthersUntouched DEF CheckoutInvariant
<1>s. /\ DOMAIN step = Requests /\ DOMAIN answer = Requests /\ DOMAIN orders = Requests
      /\ c \in Checkouts
  BY DEF CheckoutInvariant, TypeOK
<1>t. \A q \in Requests \ {r} : Told'[q] = Told[q]
  BY <1>0 DEF Told
<1>o. Open = checkouts /\ Open' = checkouts'
  <2>1. Open = checkouts
    BY OpenCheckouts
  <2>2. Open' = checkouts'
    BY DEF Open, OrdersOf, CheckoutInvariant, OrdersAreConsistent
  <2> QED
    BY <2>1, <2>2
<1>1. CASE CreateOrder(r)
  <2>1. /\ c \in checkouts /\ checkouts' = checkouts \ {c}
        /\ step[r] = "create" /\ step'[r] \in {"reply", "pay"}
        /\ answer'[r] = r
    BY <1>1, <1>s DEF CreateOrder, StillExists, Goto, AfterOrder
  <2>2. Told' = Told
    BY <1>t, <2>1 DEF Told
  <2>3. orders'[r] # NoOrder /\ orders'[r].checkout = c
    BY <2>1, <1>0, CheckoutModel DEF CheckoutInvariant, AnswerIsTheOrder, Placed
  <2>4. OrdersOf(c) = {} /\ r \notin Placed
    BY <1>o, <2>1 DEF Open, CheckoutInvariant, OrdersAreConsistent
  <2>5. OrdersOf(c)' = {r}
    BY <2>3, <2>4, <1>0 DEF OrdersOf, Placed
  <2>6. \A d \in Checkouts \ {c} : OrdersOf(d)' = OrdersOf(d)
    BY <2>3, <2>4, <1>0 DEF OrdersOf, Placed
  <2>7. OrderOf' = [OrderOf EXCEPT ![c] = r]
    <3>1. TheOrder({r}) = r
      BY DEF TheOrder
    <3>2. OrderOf'[c] = r
      BY <2>5, <3>1, <1>0, <1>s DEF OrderOf
    <3>3. \A d \in Checkouts \ {c} : OrderOf'[d] = OrderOf[d]
      BY <2>6 DEF OrderOf
    <3>4. OrderOf' = [d \in Checkouts |-> OrderOf'[d]] /\ DOMAIN OrderOf = Checkouts
      BY DEF OrderOf
    <3> HIDE DEF c
    <3> QED
      BY <3>2, <3>3, <3>4
  <2>8. Abstract!Place(r, c)
    BY <1>o, <2>1, <2>2, <2>7 DEF Abstract!Place
  <2> QED
    BY <2>8, <1>s DEF Abstract!Next
<1>2. CASE ~CreateOrder(r)
  <2>1. /\ orders' = orders /\ checkouts' = checkouts
        /\ step[r] # "answered"
    BY <1>2 DEF Step, GetCheckout, FetchCheckoutInfo, CheckUsage, IncreaseUsage,
                FindOrder, RollBack, FindPayment, InsertPayment, Reply, Crash,
                rows, Ended
  <2>2. OrderOf' = OrderOf
    BY <2>1, OrderOfUnchanged DEF CheckoutInvariant, Placed
  <2>3. CASE Told'[r] = NoOrder
    <3>1. Told[r] = NoOrder
      BY <2>1 DEF Told
    <3>2. Told' = Told
      BY <3>1, <2>3, <1>t DEF Told
    <3> QED
      BY <3>2, <2>1, <2>2, <1>o DEF Abstract!vars
  <2>4. CASE Told'[r] # NoOrder
    <3> DEFINE o == answer'[r]
    <3>1. Told'[r] = o /\ Told[r] = NoOrder
      BY <2>1, <2>4 DEF Told
    <3>2. o \in Placed /\ orders[o].checkout = c
      BY <3>1, <2>4, <2>1, <1>0 DEF CheckoutInvariant, AnswerIsTheOrder, Placed
    <3>3. OrderOf[c] = o
      BY <3>2, OrderOfCheckout
    <3>4. Told' = [Told EXCEPT ![r] = OrderOf[c]]
      <4>1. Told' = [q \in Requests |-> Told'[q]] /\ DOMAIN Told = Requests
        BY DEF Told
      <4> HIDE DEF c, o
      <4> QED
        BY <4>1, <3>1, <3>3, <1>t
    <3>5. Abstract!Answer(r, c)
      BY <3>1, <3>3, <3>4, <2>1, <2>2, <2>4, <1>o DEF Abstract!Answer
    <3> QED
      BY <3>5, <1>s DEF Abstract!Next
  <2> QED
    BY <2>3, <2>4
<1> QED
  BY <1>1, <1>2

\* Placement holds of the code as long as every request removes its checkout:
\* one order per checkout, and every successful answer names it.
THEOREM ImplementsPlacementWithoutKeepers ==
    ASSUME Keepers = {}
    PROVE  Spec => ImplementsPlacement
<1>1. ASSUME CheckoutInvariant, CheckoutInvariant', [Next]_vars
      PROVE  Abstract!Next \/ UNCHANGED Abstract!vars
  <2>1. ASSUME NEW r \in Requests, Step(r)
        PROVE  Abstract!Next \/ UNCHANGED Abstract!vars
    BY <1>1, <2>1, StepIsAbstract
  <2>2. CASE Around
    <3>1. checkouts' \subseteq checkouts /\ UNCHANGED <<orders, request>>
      BY <2>2, <1>1, AroundFacts DEF CheckoutInvariant
    <3>2. OrderOf' = OrderOf
      BY <1>1, <3>1, OrderOfUnchanged DEF CheckoutInvariant, Placed
    <3>3. Told' = Told
      BY <3>1 DEF Told, request
    <3>4. Open = checkouts /\ Open' = checkouts'
      <4>1. Open = checkouts
        BY <1>1, OpenCheckouts
      <4>2. Open' = checkouts'
        BY <1>1 DEF Open, OrdersOf, CheckoutInvariant, OrdersAreConsistent
      <4> QED
        BY <4>1, <4>2
    <3>5. Abstract!Drop(checkouts \ checkouts')
      BY <3>1, <3>2, <3>3, <3>4 DEF Abstract!Drop
    <3> QED
      BY <3>4, <3>5 DEF Abstract!Next
  <2>3. ASSUME NEW batch \in SUBSET Placed, ExpireOrders(batch)
        PROVE  Abstract!Next \/ UNCHANGED Abstract!vars
    <3>1. /\ UNCHANGED <<rows, request>>
          /\ Placed' = Placed
          /\ \A o \in Placed : orders'[o].checkout = orders[o].checkout
      BY <1>1, <2>3, ExpiryFacts
    <3>2. OrderOf' = OrderOf
      BY <1>1, <3>1, OrderOfUnchanged DEF CheckoutInvariant
    <3>3. Told' = Told
      BY <3>1 DEF Told, request
    <3>4. Open' = Open
      BY <3>1 DEF Open, OrdersOf, rows
    <3> QED
      BY <3>2, <3>3, <3>4 DEF Abstract!vars
  <2>4. CASE UNCHANGED vars
    BY <2>4 DEF Abstract!vars, Open, OrderOf, Told, OrdersOf, Placed, vars, rows, request
  <2> QED
    BY <1>1, <2>1, <2>2, <2>3, <2>4 DEF Next, Around
<1> QED
  BY <1>1, InvariantHolds, InitIsAbstract, PTL DEF Spec, ImplementsPlacement, Abstract!Spec

-----------------------------------------------------------------------------
(* A client that has made the order answers after the order has a payment.    *)

\* Why: its answer is its own order from the start, it never takes the way of
\* orderCreateFromCheckout, and payments are never removed.
OwnOrderIsHandled ==
    \A r \in Placed :
        /\ answer[r] = r
        /\ r \notin Apps => step[r] # "reply"
        /\ r \notin Apps /\ step[r] = "answered" => PaymentsOf(r) # {}

\* A request that has not reached its order has none; one that has keeps its
\* answer and gets to its end through create_payment.
LEMMA StepHandlesOwnOrder ==
    ASSUME CheckoutInvariant, OwnOrderIsHandled, NEW r \in Requests, Step(r)
    PROVE  OwnOrderIsHandled'
<1> DEFINE Early == {"idle", "fetch", "check", "increase", "create"}
<1>0. \A q \in Requests \ {r} : /\ step'[q] = step[q]
                                /\ answer'[q] = answer[q]
                                /\ orders'[q] = orders[q]
  BY OthersUntouched DEF CheckoutInvariant
<1>s. DOMAIN step = Requests /\ DOMAIN answer = Requests
  BY DEF CheckoutInvariant, TypeOK
<1>p. payments \subseteq payments'
  BY DEF Step, GetCheckout, FetchCheckoutInfo, CheckUsage, IncreaseUsage, FindOrder,
         CreateOrder, RollBack, FindPayment, InsertPayment, Reply, Crash
<1>e. r \in Placed => step[r] \notin Early
  BY DEF CheckoutInvariant, OrdersAreConsistent
<1>q. ASSUME NEW q \in Placed', q # r
      PROVE  /\ answer'[q] = q
             /\ q \notin Apps => step'[q] # "reply"
             /\ q \notin Apps /\ step'[q] = "answered" => PaymentsOf(q)' # {}
  <2>1. q \in Placed
    BY <1>0, <1>q DEF Placed
  <2> QED
    BY <2>1, <1>0, <1>p, <1>q DEF OwnOrderIsHandled, PaymentsOf, Placed
<1>r. ASSUME r \in Placed'
      PROVE  /\ answer'[r] = r
             /\ r \notin Apps => step'[r] # "reply"
             /\ r \notin Apps /\ step'[r] = "answered" => PaymentsOf(r)' # {}
  <2>1. CASE CreateOrder(r)
    BY <2>1, <1>s DEF CreateOrder, Goto, AfterOrder
  <2>2. CASE ~CreateOrder(r)
    <3>1. orders' = orders
      BY <2>2 DEF Step, GetCheckout, FetchCheckoutInfo, CheckUsage, IncreaseUsage,
                  FindOrder, RollBack, FindPayment, InsertPayment, Reply, Crash
    <3>2. r \in Placed
      BY <3>1, <1>r DEF Placed
    <3>3. step[r] \notin Early /\ answer[r] = r
      BY <3>2, <1>e DEF OwnOrderIsHandled
    <3>4. CASE FindPayment(r)
      <4>1. answer'[r] = r /\ step'[r] # "reply"
        BY <3>3, <3>4, <1>s DEF FindPayment, Goto
      <4>2. step'[r] = "answered" => PaymentsOf(r) # {}
        BY <3>3, <3>4, <1>s, FS_EmptySet DEF FindPayment, Goto
      <4> QED
        BY <4>1, <4>2, <1>p DEF PaymentsOf
    <3>5. CASE InsertPayment(r)
      <4>1. answer'[r] = r /\ step'[r] = "answered"
        BY <3>3, <3>5, <1>s DEF InsertPayment, Goto
      <4>2. [order |-> r, by |-> r] \in payments'
        BY <3>3, <3>5 DEF InsertPayment
      <4>3. PaymentsOf(r)' # {}
        BY <4>2 DEF PaymentsOf
      <4> QED
        BY <4>1, <4>3
    <3>6. CASE Reply(r)
      BY <3>2, <3>3, <3>6, <1>s DEF Reply, Goto, OwnOrderIsHandled
    <3>7. CASE Crash(r)
      BY <3>3, <3>7, <1>s DEF Crash, Goto
    <3> QED
      BY <2>2, <3>3, <3>4, <3>5, <3>6, <3>7
         DEF Step, GetCheckout, FetchCheckoutInfo, CheckUsage, IncreaseUsage,
             FindOrder, RollBack
  <2> QED
    BY <2>1, <2>2
<1> QED
  BY <1>q, <1>r DEF OwnOrderIsHandled

\* checkoutComplete, having made the order, answers only when create_payment has
\* found or made a payment of it.
THEOREM OwnOrdersArePayable == Spec => []OwnOrderIsPayable
<1>1. Init => OwnOrderIsHandled
  BY DEF Init, OwnOrderIsHandled, Placed
<1>2. ASSUME CheckoutInvariant, OwnOrderIsHandled, [Next]_vars
      PROVE  OwnOrderIsHandled'
  <2>1. ASSUME NEW r \in Requests, Step(r)
        PROVE  OwnOrderIsHandled'
    BY <1>2, <2>1, StepHandlesOwnOrder
  <2>2. CASE Around
    <3>1. UNCHANGED <<orders, payments, request>>
      BY <2>2, <1>2, AroundFacts DEF CheckoutInvariant
    <3> QED
      BY <1>2, <3>1 DEF OwnOrderIsHandled, Placed, PaymentsOf, request
  <2>3. ASSUME NEW batch \in SUBSET Placed, ExpireOrders(batch)
        PROVE  OwnOrderIsHandled'
    <3>1. UNCHANGED <<payments, request>> /\ Placed' = Placed
      BY <1>2, <2>3, ExpiryFacts
    <3> QED
      BY <1>2, <3>1 DEF OwnOrderIsHandled, PaymentsOf, request
  <2>4. CASE UNCHANGED vars
    BY <1>2, <2>4 DEF OwnOrderIsHandled, Placed, PaymentsOf, vars, request
  <2> QED
    BY <1>2, <2>1, <2>2, <2>3, <2>4 DEF Next, Around
<1>3. OwnOrderIsHandled => OwnOrderIsPayable
  BY DEF OwnOrderIsHandled, OwnOrderIsPayable
<1> QED
  BY <1>1, <1>2, <1>3, InvariantHolds, PTL DEF Spec
=============================================================================
