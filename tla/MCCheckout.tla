------------------------------ MODULE MCCheckout ------------------------------
(* Two checkouts of one customer and a few requests for them.                *)
EXTENDS Checkout, TLC

CONSTANTS c1, c2, alice, r1, r2, r3, none

MCCheckouts == {c1, c2}
MCCustomers == {alice}
MCCustomerOf == [c \in Checkouts |-> alice]
TwoRequests == {r1, r2}
ThreeRequests == {r1, r2, r3}
NoRequests == {}
AppR2 == {r2}
OneCheckout == {c1}

\* The clients do the same.
Clients == Permutations({r1, r2, r3})
=============================================================================
