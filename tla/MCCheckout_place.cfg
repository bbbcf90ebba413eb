\* A client and an app that keeps its checkout, two checkouts of one customer.
CONSTANTS
    c1 = c1  c2 = c2  alice = alice
    r1 = r1  r2 = r2  r3 = r3
    none = none
    NoOrder = none
    Checkouts <- MCCheckouts
    Customers <- MCCustomers
    CustomerOf <- MCCustomerOf
    Requests <- TwoRequests
    Apps <- AppR2
    Keepers <- AppR2
    UsageLimit = 2
    OncePerCustomer = TRUE
    SingleUse = FALSE
SPECIFICATION Spec
INVARIANTS TypeOK CheckoutInvariant AnswerIsTheOrder  UsageCoversOrders
CHECK_DEADLOCK FALSE
