\* Three clients race for one checkout.
CONSTANTS
    c1 = c1  c2 = c2  alice = alice
    r1 = r1  r2 = r2  r3 = r3
    none = none
    NoOrder = none
    Checkouts <- OneCheckout
    Customers <- MCCustomers
    CustomerOf <- MCCustomerOf
    Requests <- ThreeRequests
    Apps <- NoRequests
    Keepers <- NoRequests
    UsageLimit = 0
    OncePerCustomer = TRUE
    SingleUse = TRUE
SYMMETRY Clients
SPECIFICATION Spec
INVARIANTS OneOrderPerCheckout OwnOrderIsPayable
PROPERTY ImplementsPlacement
CHECK_DEADLOCK FALSE
