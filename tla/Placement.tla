------------------------------ MODULE Placement ------------------------------
(* What placing an order promises, whatever happens on the way: a checkout   *)
(* that exists becomes at most one order and is gone from then on, and every *)
(* successful answer for that checkout names this order.  Checkout.tla is    *)
(* shown to implement it.                                                    *)

CONSTANTS
    Checkouts,      \* identifiers of checkouts
    Requests,       \* requests that place an order, each at most once
    NoOrder         \* stands for the absence of an order, and is no request

VARIABLES
    open,           \* checkouts that may still be turned into an order
    placed,         \* the order of each checkout, named by its request
    told            \* the order each request has been answered with

vars == <<open, placed, told>>

Init ==
    /\ open = Checkouts
    /\ placed = [c \in Checkouts |-> NoOrder]
    /\ told = [r \in Requests |-> NoOrder]

Place(r, c) ==
    /\ c \in open
    /\ open' = open \ {c}
    /\ placed' = [placed EXCEPT ![c] = r]
    /\ UNCHANGED told

Drop(S) ==
    /\ S \subseteq open
    /\ open' = open \ S
    /\ UNCHANGED <<placed, told>>

Answer(r, c) ==
    /\ placed[c] # NoOrder
    /\ told[r] = NoOrder
    /\ told' = [told EXCEPT ![r] = placed[c]]
    /\ UNCHANGED <<open, placed>>

Next ==
    \/ \E r \in Requests, c \in Checkouts : Place(r, c) \/ Answer(r, c)
    \/ \E S \in SUBSET open : Drop(S)

Spec == Init /\ [][Next]_vars
=============================================================================
