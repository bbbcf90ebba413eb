---------------------------- MODULE MCCoinLedger ----------------------------
(***************************************************************************)
(* Instances of CoinLedger for TLC: the requests that move coins for goods *)
(* and for donations, and those that accounts and bonuses depend on.       *)
(***************************************************************************)
EXTENDS CoinLedger, TLC

CONSTANTS ann, bob, d1, d2, o1, r1, r2, r3

OneAccount == {ann}
BothAccounts == {ann, bob}
TwoDonations == {d1, d2}
OneOrder == {o1}
Nothing == {}
TwoRequests == {r1, r2}
ThreeRequests == {r1, r2, r3}

MCDonator == [d \in Donations |-> ann]
MCPrice == [d \in Donations |-> IF d = d1 THEN 2 ELSE 3]
MCTotal == [o \in Orders |-> 2]
MCBatches == {<<d1, d2>>}
MCBonuses == <<1, 2>>

SalesKinds == {"confirm", "refund", "donationComplete", "donationUpdate",
               "donationBulkComplete", "customerUpdate", "balanceUpdate"}
LoginKinds == {"confirm", "signIn", "signUp", "balanceUpdate"}

AnyRequest == Permutations(Requests)
=============================================================================
