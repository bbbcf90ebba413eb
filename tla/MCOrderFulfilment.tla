-------------------------- MODULE MCOrderFulfilment --------------------------
(***************************************************************************)
(* Instances of OrderFulfilment for TLC.                                   *)
(***************************************************************************)
EXTENDS OrderFulfilment, TLC

CONSTANTS l1, r1, r2

OneLine == {l1}
OneUnit == [l \in Lines |-> 1]
TwoUnits == [l \in Lines |-> 2]
TwoRequests == {r1, r2}

AnyRequest == Permutations(Requests)

FulfilmentKinds == {"fulfill", "approve", "cancelFulfillment", "return", "replace",
                    "refundProducts", "cancelOrder"}
ExpiryKinds == {"confirm", "fulfill", "cancelFulfillment", "orderRefund", "expire"}
ConfirmKinds == {"confirm", "cancelOrder"}
=============================================================================
