--------------------------- MODULE CoinLedgerProofs ---------------------------
(***************************************************************************)
(* Proofs about the coins: every request has the objects its steps use,    *)
(* refunds of one payment never overlap, no payment drives a balance below *)
(* zero, a donation is granted once, and the log explains the balances but *)
(* for the races the model names.                                          *)
(***************************************************************************)
EXTENDS CoinLedger, SumsProofs, SequenceTheorems

-----------------------------------------------------------------------------
(* Objects and columns.                                                    *)
LEMMA CopyIsObject ==
  ASSUME row \in [Users -> Row], NEW u \in Users
  PROVE  /\ Copy(u) \in Object
         /\ <<Copy(u)>> \in Seq(Object) /\ Len(<<Copy(u)>>) = 1 /\ <<Copy(u)>>[1] = Copy(u)
<1>1. Copy(u) \in Object
  BY DEF Copy, Object
<1> QED BY <1>1

LEMMA ObjectTypes ==
  ASSUME NEW o \in Object
  PROVE  /\ o.user \in Users /\ o.row \in Row
         /\ o.row.balance \in Int /\ o.row.last_login \in Nat /\ o.row.continuous \in Nat
BY DEF Object, Row

LEMMA BonusIsNat ==
  ASSUME NEW n \in Nat \ {0}
  PROVE  Bonus(n) \in Nat
BY CoinModel DEF Bonus

(* _update_continuous_days on any object: the row stays typed, and a bonus *)
(* is never negative.                                                      *)
LEMMA LoggedInTypes ==
  ASSUME NEW c \in Row, today \in Nat
  PROVE  /\ LoggedIn(c) \in Row
         /\ LoggedIn(c).last_login = today
         /\ BonusOf(c) \in Nat
         /\ LoggedIn(c).balance = c.balance + BonusOf(c)
         /\ ~(Days(c) >= 1) => BonusOf(c) = 0
<1> DEFINE n == (IF Days(c) > 1 THEN 0 ELSE c.continuous) + IF Days(c) >= 1 THEN 1 ELSE 0
           gift == IF Days(c) >= 1 THEN Bonus(n) ELSE 0
<1>1. c.balance \in Int /\ c.last_login \in Nat /\ c.continuous \in Nat
  BY DEF Row
<1>2. Days(c) \in Int
  BY <1>1 DEF Days
<1>3. n \in Nat /\ (Days(c) >= 1 => n \in Nat \ {0})
  BY <1>1, <1>2
<1>4. LoggedIn(c) = [balance |-> c.balance + gift, last_login |-> today, continuous |-> n]
  BY DEF LoggedIn
<1> HIDE DEF n
<1>5. gift \in Nat
  BY <1>2, <1>3, BonusIsNat
<1>6. ~(Days(c) >= 1) => gift = 0
  OBVIOUS
<1> HIDE DEF gift
<1>7. LoggedIn(c) \in Row /\ LoggedIn(c).last_login = today
  BY <1>1, <1>3, <1>4, <1>5 DEF Row
<1>8. BonusOf(c) = gift /\ LoggedIn(c).balance = c.balance + gift
  BY <1>1, <1>4, <1>5 DEF BonusOf
<1> QED BY <1>5, <1>6, <1>7, <1>8

LEMMA SavedLoginTypes ==
  ASSUME row \in [Users -> Row], today \in Nat, NEW o \in Object
  PROVE  SavedLogin(o) \in Row /\ SavedLogin(o).last_login = today
<1>1. o.user \in Users /\ o.row \in Row
  BY ObjectTypes
<1>2. LoggedIn(o.row) \in Row /\ LoggedIn(o.row).last_login = today
  BY <1>1, LoggedInTypes
<1>3. row[o.user].balance \in Int
  BY <1>1 DEF Row
<1> QED BY <1>2, <1>3 DEF SavedLogin, Row

LEMMA NewRowTypes ==
  ASSUME today \in Nat
  PROVE  NewRow \in Row /\ NewRow.balance = Opening + Bonuses[1] /\ Bonuses[1] \in Nat
<1>1. Bonuses \in Seq(Nat) /\ Len(Bonuses) > 0 /\ Opening \in Nat
  BY CoinModel
<1>2. Bonuses[1] \in Nat
  BY <1>1
<1> QED BY <1>1, <1>2 DEF NewRow, Row

(* What a donation is worth.                                               *)
LEMMA WorthTypes ==
  ASSUME NEW d \in Donations, NEW previous, NEW accepted \in BOOLEAN
  PROVE  /\ Worth(d, previous, accepted) \in Int
         /\ Sign(Worth(d, previous, accepted)) =
              IF accepted /\ previous # "completed" THEN 1
              ELSE IF ~accepted /\ previous = "completed" THEN -1 ELSE 0
         /\ Worth(d, previous, accepted) # 0 <=> (accepted <=> previous # "completed")
<1>1. Price[d] \in Nat \ {0}
  BY CoinModel
<1>2. CASE accepted /\ previous # "completed"
  BY <1>1, <1>2 DEF Worth, Sign
<1>3. CASE ~accepted /\ previous = "completed"
  BY <1>1, <1>3 DEF Worth, Sign
<1>4. CASE ~(accepted /\ previous # "completed") /\ ~(~accepted /\ previous = "completed")
  BY <1>1, <1>4 DEF Worth, Sign
<1> QED BY <1>2, <1>3, <1>4

-----------------------------------------------------------------------------
(* Requests that do not take the step.                                     *)
LEMMA OthersKeep ==
  ASSUME NEW q \in Requests, JobTyped(job[q]), HasRead(q),
         step'[q] = step[q], job'[q] = job[q], objects'[q] = objects[q]
  PROVE  JobTyped(job'[q]) /\ HasRead(q)'
BY DEF HasRead, At

(* A request that is made has read what a request of its kind reads first. *)
LEMMA StartKeeps ==
  ASSUME TypeOK, NEW r \in Requests, NEW j, NEW os \in Seq(Object),
         Start(r, j, os), UNCHANGED <<accounts, goods, sales>>, JobTyped(j),
         j.kind \in ReadsOneAccount => Len(os) = 1,
         j.kind = "refund" => ~Refunding(j.order) /\ j.amount <= captured[j.order]
  PROVE  TypeOK'
<1>1. /\ step' = [step EXCEPT ![r] = "read"]
      /\ job' = [job EXCEPT ![r] = j]
      /\ objects' = [objects EXCEPT ![r] = os]
  BY DEF Start
<1>2. TablesTyped'
  BY DEF TypeOK, TablesTyped, accounts, goods, sales
<1>3. /\ DOMAIN step = Requests /\ DOMAIN job = Requests
      /\ objects \in [Requests -> Seq(Object)]
  BY DEF TypeOK
<1>4. /\ DOMAIN step' = Requests /\ DOMAIN job' = Requests
      /\ objects' \in [Requests -> Seq(Object)]
  BY <1>1, <1>3
<1>5. /\ step'[r] = "read" /\ job'[r] = j /\ objects'[r] = os
      /\ \A q \in Requests \ {r} : /\ step'[q] = step[q] /\ job'[q] = job[q]
                                   /\ objects'[q] = objects[q]
  BY <1>1, <1>3
<1>6. ASSUME NEW q \in Requests PROVE JobTyped(job'[q]) /\ HasRead(q)'
  <2>1. CASE q = r
    BY <1>5, <2>1 DEF HasRead, At
  <2>2. CASE q # r
    BY <1>5, <2>2, OthersKeep DEF TypeOK
  <2> QED BY <2>1, <2>2
<1>7. RefundsFit'
  <2> SUFFICES ASSUME NEW p \in Requests, At(p, "refund", "read")'
               PROVE  /\ job'[p].amount <= captured'[job'[p].order]
                      /\ \A q \in Requests : At(q, "refund", "read")'
                           /\ job'[q].order = job'[p].order => q = p
    BY DEF RefundsFit
  <2>1. captured' = captured
    BY DEF sales
  <2>2. \A q \in Requests \ {r} : At(q, "refund", "read")' <=> At(q, "refund", "read")
    BY <1>5 DEF At
  <2>3. CASE p = r
    BY <1>5, <2>1, <2>2, <2>3 DEF At, Refunding
  <2>4. CASE p # r
    <3>1. At(p, "refund", "read")
      BY <2>2, <2>4
    <3>2. At(r, "refund", "read")' => job'[r].order # job'[p].order
      BY <1>5, <2>4, <3>1 DEF At, Refunding
    <3> QED BY <1>5, <2>1, <2>2, <2>4, <3>1, <3>2 DEF TypeOK, RefundsFit
  <2> QED BY <2>3, <2>4
<1> QED BY <1>2, <1>4, <1>6, <1>7 DEF TypeOK

(* A step that writes, and after which the request reads nothing more.     *)
LEMMA GotoKeeps ==
  ASSUME TypeOK, NEW r \in Requests, NEW s \in {"payable", "done", "saved", "crashed"},
         Goto(r, s), TablesTyped',
         s = "saved" /\ job[r].kind = "donationBulkComplete" =>
           Len(objects[r]) = Len(job[r].donations),
         \A q \in Requests \ {r} : At(q, "refund", "read") =>
           captured'[job[q].order] = captured[job[q].order]
  PROVE  TypeOK'
<1>1. /\ step' = [step EXCEPT ![r] = s] /\ job' = job /\ objects' = objects
  BY DEF Goto
<1>2. /\ DOMAIN step = Requests /\ DOMAIN job = Requests
      /\ objects \in [Requests -> Seq(Object)]
  BY DEF TypeOK
<1>3. /\ DOMAIN step' = Requests /\ DOMAIN job' = Requests
      /\ objects' \in [Requests -> Seq(Object)]
  BY <1>1, <1>2
<1>4. step'[r] = s /\ \A q \in Requests \ {r} : step'[q] = step[q]
  BY <1>1, <1>2
<1>5. ASSUME NEW q \in Requests PROVE JobTyped(job'[q]) /\ HasRead(q)'
  <2>1. CASE q = r
    BY <1>1, <1>4, <2>1 DEF TypeOK, HasRead, At
  <2>2. CASE q # r
    BY <1>1, <1>4, <2>2, OthersKeep DEF TypeOK
  <2> QED BY <2>1, <2>2
<1>6. RefundsFit'
  <2>1. \A q \in Requests : At(q, "refund", "read")' => At(q, "refund", "read") /\ q # r
    BY <1>1, <1>4 DEF At
  <2> QED BY <1>1, <2>1 DEF TypeOK, RefundsFit
<1> QED BY <1>3, <1>5, <1>6 DEF TypeOK

-----------------------------------------------------------------------------
(* Types, step by step.                                                    *)
LEMMA TableTypes ==
  ASSUME TypeOK
  PROVE  /\ TablesTyped /\ today \in Nat
         /\ \A r \in Requests : \A i \in DOMAIN objects[r] : objects[r][i] \in Object
         /\ \A r \in Requests : job[r].kind \in ReadsOneAccount => objects[r][1] \in Object
<1>1. today \in Nat
  BY CoinModel DEF TypeOK, TablesTyped
<1>2. \A r \in Requests : \A i \in DOMAIN objects[r] : objects[r][i] \in Object
  BY DEF TypeOK
<1>3. ASSUME NEW r \in Requests, job[r].kind \in ReadsOneAccount PROVE objects[r][1] \in Object
  <2>1. objects[r] \in Seq(Object) /\ Len(objects[r]) = 1
    BY <1>3 DEF TypeOK, HasRead
  <2> QED BY <2>1
<1> QED BY <1>1, <1>2, <1>3 DEF TypeOK

(* save(update_fields=["balance"]) and the event beside it.                *)
LEMMA SaveBalanceTypes ==
  ASSUME row \in [Users -> Row], NEW u \in Users, NEW b \in Int, SaveBalance(u, b)
  PROVE  /\ row' \in [Users -> Row]
         /\ row'[u].balance = b /\ row'[u].last_login = row[u].last_login
         /\ \A v \in Users \ {u} : row'[v] = row[v]
BY DEF SaveBalance, Row

LEMMA LogTypes ==
  ASSUME logged \in [Users -> Int], NEW u \in Users, NEW n \in Int, Log(u, n)
  PROVE  /\ logged' \in [Users -> Int]
         /\ logged'[u] = logged[u] + n
         /\ \A v \in Users \ {u} : logged'[v] = logged[v]
BY DEF Log

LEMMA BeginKeepsTypes ==
  ASSUME TypeOK, NEW r \in Requests, Begin(r)
  PROVE  TypeOK'
<1> USE DEF ReadsOneAccount, Donating
<1>0. /\ row \in [Users -> Row] /\ <<>> \in Seq(Object)
      /\ registered \subseteq Users /\ unconfirmed \subseteq Orders
      /\ Donated \subseteq Donations
  BY DEF TypeOK, TablesTyped, Donated
<1>1. ASSUME NEW u \in Users, NEW o \in Orders, OrderConfirm(r, u, o) PROVE TypeOK'
  <2> DEFINE j == [kind |-> "confirm", order |-> o]
  <2>1. Start(r, j, <<Copy(u)>>) /\ UNCHANGED <<accounts, goods, sales>>
    BY <1>1 DEF OrderConfirm
  <2>2. JobTyped(j) /\ j.kind = "confirm"
    BY <2>1 DEF JobTyped, Start
  <2> HIDE DEF j
  <2> QED BY <1>0, <2>1, <2>2, CopyIsObject, StartKeeps
<1>2. ASSUME NEW u \in Users, NEW o \in Orders, NEW amount \in 1..Total[o], Refund(r, u, o, amount)
      PROVE  TypeOK'
  <2> DEFINE j == [kind |-> "refund", order |-> o, amount |-> amount]
  <2>1. Start(r, j, <<Copy(u)>>) /\ UNCHANGED <<accounts, goods, sales>>
    BY <1>2 DEF Refund
  <2>2. amount \in Nat
    BY CoinModel
  <2>3. JobTyped(j) /\ j.kind = "refund" /\ ~Refunding(j.order) /\ j.amount <= captured[j.order]
    BY <1>2, <2>1, <2>2 DEF JobTyped, Start, Refund
  <2> HIDE DEF j
  <2> QED BY <1>0, <2>1, <2>3, CopyIsObject, StartKeeps
<1>3. ASSUME NEW d \in Donations, NEW accepted \in BOOLEAN, DonationComplete(r, d, accepted)
      PROVE  TypeOK'
  <2> DEFINE j == DonationJob("donationComplete", <<d>>, accepted)
  <2>1. Start(r, j, <<>>) /\ UNCHANGED <<accounts, goods, sales>>
    BY <1>3 DEF DonationComplete
  <2>2. JobTyped(j) /\ j.kind = "donationComplete"
    BY <2>1 DEF JobTyped, Start, DonationJob
  <2> HIDE DEF j
  <2> QED BY <1>0, <2>1, <2>2, StartKeeps
<1>4. ASSUME NEW d \in Donations, DonationUpdate(r, d) PROVE TypeOK'
  <2> DEFINE j == DonationJob("donationUpdate", <<d>>, FALSE)
  <2>1. Start(r, j, <<>>) /\ UNCHANGED <<accounts, goods, sales>> /\ status[d] # "completed"
    BY <1>4 DEF DonationUpdate
  <2>2. JobTyped(j) /\ j.kind = "donationUpdate"
    BY <2>1 DEF JobTyped, Start, DonationJob
  <2> HIDE DEF j
  <2> QED BY <1>0, <2>1, <2>2, StartKeeps
<1>5. ASSUME NEW b \in Batches, NEW accepted \in BOOLEAN, DonationBulkComplete(r, b, accepted)
      PROVE  TypeOK'
  <2> DEFINE j == DonationJob("donationBulkComplete", b, accepted)
  <2>1. Start(r, j, <<>>) /\ UNCHANGED <<accounts, goods, sales>>
    BY <1>5 DEF DonationBulkComplete
  <2>2. b \in Seq(Donations) /\ \A i, k \in DOMAIN b : b[i] = b[k] => i = k
    BY CoinModel
  <2>3. JobTyped(j) /\ j.kind = "donationBulkComplete"
    BY <2>1, <2>2 DEF JobTyped, Start, DonationJob
  <2> HIDE DEF j
  <2> QED BY <1>0, <2>1, <2>3, StartKeeps
<1>6. ASSUME NEW u \in Users, NEW kind \in {"customerUpdate", "balanceUpdate"},
             NEW b \in Corrections \cup {0}, ReadAccount(r, u, kind, b)
      PROVE  TypeOK'
  <2> DEFINE j == [kind |-> kind, balance |-> b]
  <2>1. Start(r, j, <<Copy(u)>>) /\ UNCHANGED <<accounts, goods, sales>>
    BY <1>6 DEF ReadAccount
  <2>2. JobTyped(j) /\ j.kind = kind
    BY <2>1, CoinModel DEF JobTyped, Start
  <2> HIDE DEF j
  <2> QED BY <1>0, <2>1, <2>2, CopyIsObject, StartKeeps
<1>7. ASSUME NEW u \in Users, SignIn(r, u) PROVE TypeOK'
  <2> DEFINE j == [kind |-> "signIn"]
  <2>1. Start(r, j, <<Copy(u)>>) /\ UNCHANGED <<accounts, goods, sales>>
    BY <1>7 DEF SignIn
  <2>2. JobTyped(j) /\ j.kind = "signIn"
    BY <2>1 DEF JobTyped, Start
  <2> HIDE DEF j
  <2> QED BY <1>0, <2>1, <2>2, CopyIsObject, StartKeeps
<1>8. ASSUME NEW u \in Users, NEW inviter \in Users, SignUp(r, u, inviter) PROVE TypeOK'
  <2> DEFINE j == [kind |-> "signUp", user |-> u, inviter |-> inviter]
  <2>1. Start(r, j, <<>>) /\ UNCHANGED <<accounts, goods, sales>>
    BY <1>8 DEF SignUp
  <2>2. JobTyped(j) /\ j.kind = "signUp"
    BY <2>1 DEF JobTyped, Start
  <2> HIDE DEF j
  <2> QED BY <1>0, <2>1, <2>2, StartKeeps
<1> QED BY <1>1, <1>2, <1>3, <1>4, <1>5, <1>6, <1>7, <1>8 DEF Begin

LEMMA SaveDonationsTypes ==
  ASSUME status \in [Donations -> Status], disputed \subseteq Donations,
         NEW ds \in Seq(Donations), NEW previous, NEW new \in Status,
         SaveDonations(ds, previous, new)
  PROVE  status' \in [Donations -> Status] /\ disputed' \subseteq Donations
BY DEF SaveDonations

(* The donations of a request and what they are worth.                     *)
LEMMA JobWorthTypes ==
  ASSUME NEW r \in Requests, TypeOK, job[r].kind \in Donating, NEW i \in DOMAIN job[r].donations
  PROVE  JobWorth(job[r], i) \in Int
<1>1. job[r].donations[i] \in Donations /\ job[r].accepted \in BOOLEAN
  BY DEF TypeOK, JobTyped
<1> QED BY <1>1, WorthTypes DEF JobWorth

LEMMA SignTypes == ASSUME NEW n \in Int PROVE Sign(n) \in -1..1
BY DEF Sign

(* The payment of an order and its refunds.                                *)
LEMMA SalesKeepTypes ==
  ASSUME TypeOK, NEW r \in Requests, SaveConfirmed(r) \/ Pay(r) \/ FinishRefund(r)
  PROVE  TypeOK'
<1> USE DEF ReadsOneAccount
<1>0. TablesTyped
  BY DEF TypeOK
<1>1. CASE SaveConfirmed(r)
  <2>1. job[r].order \in Orders
    BY <1>1 DEF SaveConfirmed, At, TypeOK, JobTyped
  <2>2. TablesTyped' /\ captured' = captured
    BY <1>0, <1>1, <2>1 DEF SaveConfirmed, TablesTyped, accounts, goods
  <2>3. \E s \in {"payable", "done"} : Goto(r, s)
    BY <1>1 DEF SaveConfirmed
  <2>4. job[r].kind # "donationBulkComplete"
    BY <1>1 DEF SaveConfirmed, At
  <2> QED BY <2>2, <2>3, <2>4, GotoKeeps
<1>2. CASE Pay(r)
  <2> DEFINE o == job[r].order  u == objects[r][1].user  b == objects[r][1].row.balance
  <2>1. o \in Orders /\ objects[r][1] \in Object
    BY <1>2, TableTypes DEF Pay, At, TypeOK, JobTyped
  <2>2. u \in Users /\ b \in Int /\ Total[o] \in Nat
    BY <2>1, ObjectTypes, CoinModel
  <2>3. /\ ~Refunding(o) /\ unconfirmed' = unconfirmed \ {o}
        /\ captured' = [captured EXCEPT ![o] = Total[o]]
        /\ SaveBalance(u, b - Total[o]) /\ Log(u, -Total[o])
        /\ Goto(r, "done") /\ UNCHANGED <<registered, bonuses, today, goods>>
        /\ job[r].kind # "donationBulkComplete"
    BY <1>2 DEF Pay, At
  <2> HIDE DEF u, b, o
  <2>4. row' \in [Users -> Row] /\ logged' \in [Users -> Int]
    <3>1. b - Total[o] \in Int /\ -Total[o] \in Int
      BY <2>2
    <3> QED BY <1>0, <2>2, <2>3, <3>1, SaveBalanceTypes, LogTypes DEF TablesTyped
  <2>5. TablesTyped'
    BY <1>0, <2>2, <2>3, <2>4 DEF TablesTyped, goods
  <2>6. ASSUME NEW q \in Requests \ {r}, At(q, "refund", "read")
        PROVE  captured'[job[q].order] = captured[job[q].order]
    BY <1>0, <2>3, <2>6 DEF Refunding, TablesTyped
  <2> QED BY <2>3, <2>5, <2>6, GotoKeeps
<1>3. CASE FinishRefund(r)
  <2> DEFINE o == job[r].order  u == objects[r][1].user  amount == job[r].amount
             new == [objects[r][1].row EXCEPT !.balance = @ + amount]
  <2>1. /\ o \in Orders /\ objects[r][1] \in Object /\ amount \in Nat
        /\ At(r, "refund", "read")
    BY <1>3, TableTypes DEF FinishRefund, At, TypeOK, JobTyped
  <2>2. u \in Users /\ new \in Row
    BY <2>1, ObjectTypes DEF Row
  <2>3. /\ row' = [row EXCEPT ![u] = new] /\ Log(u, amount)
        /\ captured' = [captured EXCEPT ![o] = @ - amount]
        /\ Goto(r, "done") /\ UNCHANGED <<registered, bonuses, today, goods, unconfirmed>>
        /\ job[r].kind # "donationBulkComplete"
    BY <1>3 DEF FinishRefund, At
  <2>4. amount <= captured[o]
        /\ \A q \in Requests : At(q, "refund", "read") /\ job[q].order = o => q = r
    BY <2>1 DEF TypeOK, RefundsFit
  <2> HIDE DEF u, new, amount, o
  <2>5. row' \in [Users -> Row] /\ logged' \in [Users -> Int] /\ captured' \in [Orders -> Nat]
    <3>1. logged' \in [Users -> Int]
      BY <1>0, <2>1, <2>2, <2>3, LogTypes DEF TablesTyped
    <3>2. row' \in [Users -> Row]
      BY <1>0, <2>2, <2>3 DEF TablesTyped
    <3>3. captured[o] - amount \in Nat
      BY <1>0, <2>1, <2>4 DEF TablesTyped
    <3> QED BY <1>0, <2>1, <2>3, <3>1, <3>2, <3>3 DEF TablesTyped
  <2>6. TablesTyped'
    BY <1>0, <2>3, <2>5 DEF TablesTyped, goods
  <2>7. ASSUME NEW q \in Requests \ {r}, At(q, "refund", "read")
        PROVE  captured'[job[q].order] = captured[job[q].order]
    BY <1>0, <2>3, <2>4, <2>7 DEF TablesTyped
  <2> QED BY <2>3, <2>6, <2>7, GotoKeeps
<1> QED BY <1>1, <1>2, <1>3

(* One donation: its status, then the coins.                               *)
LEMMA DonationKeepsTypes ==
  ASSUME TypeOK, NEW r \in Requests,
         SaveDonation(r) \/ GrantDonation(r) \/ SaveUpdate(r) \/ BulkSaveDonations(r)
  PROVE  TypeOK'
<1> USE DEF Donating
<1>0. TablesTyped
  BY DEF TypeOK
<1>1. ASSUME NEW s \in {"done", "saved"}, NEW new \in Status, job[r].kind \in Donating,
             SaveDonations(job[r].donations, job[r].previous, new),
             Goto(r, s), UNCHANGED <<accounts, granted, sales>>,
             s = "saved" /\ job[r].kind = "donationBulkComplete" =>
               Len(objects[r]) = Len(job[r].donations)
      PROVE  TypeOK'
  <2>1. job[r].donations \in Seq(Donations)
    BY <1>1 DEF TypeOK, JobTyped
  <2>2. status' \in [Donations -> Status] /\ disputed' \subseteq Donations
    BY <1>0, <1>1, <2>1, SaveDonationsTypes DEF TablesTyped
  <2>3. TablesTyped' /\ captured' = captured
    BY <1>0, <1>1, <2>2 DEF TablesTyped, accounts, sales
  <2> QED BY <1>1, <2>3, GotoKeeps
<1>2. Verdict(job[r].accepted) \in Status /\ "unreviewed" \in Status
  BY DEF Verdict, Status
<1>3. CASE SaveDonation(r)
  BY <1>1, <1>2, <1>3 DEF SaveDonation, At
<1>4. CASE SaveUpdate(r)
  BY <1>1, <1>2, <1>4 DEF SaveUpdate, At
<1>5. CASE BulkSaveDonations(r)
  BY <1>1, <1>2, <1>5 DEF BulkSaveDonations, At
<1>6. CASE GrantDonation(r)
  <2> DEFINE u == objects[r][1].user  b == objects[r][1].row.balance
             worth == JobWorth(job[r], 1)  d == job[r].donations[1]
  <2>1. objects[r][1] \in Object /\ d \in Donations /\ worth \in Int
    <3>1. Len(objects[r]) = 1 /\ objects[r] \in Seq(Object)
      BY <1>6 DEF GrantDonation, TypeOK, HasRead, At
    <3>2. job[r].donations \in Seq(Donations) /\ Len(job[r].donations) = 1
          /\ job[r].kind \in Donating
      BY <1>6 DEF GrantDonation, At, TypeOK, JobTyped
    <3> QED BY <3>1, <3>2, JobWorthTypes
  <2>2. u \in Users /\ b \in Int
    BY <2>1, ObjectTypes
  <2>3. /\ SaveBalance(u, b + worth) /\ Log(u, worth)
        /\ granted' = [granted EXCEPT ![d] = @ + Sign(worth)] /\ Goto(r, "done")
        /\ UNCHANGED <<registered, bonuses, today, status, disputed, sales>>
    BY <1>6 DEF GrantDonation
  <2> HIDE DEF u, b, worth, d
  <2>4. row' \in [Users -> Row] /\ logged' \in [Users -> Int]
    <3>1. b + worth \in Int
      BY <2>1, <2>2
    <3> QED BY <1>0, <2>1, <2>2, <2>3, <3>1, SaveBalanceTypes, LogTypes DEF TablesTyped
  <2>5. granted' \in [Donations -> Int]
    BY <1>0, <2>1, <2>3, SignTypes DEF TablesTyped
  <2>6. TablesTyped' /\ captured' = captured
    BY <1>0, <2>3, <2>4, <2>5 DEF TablesTyped, sales
  <2> QED BY <2>3, <2>6, GotoKeeps
<1> QED BY <1>3, <1>4, <1>5, <1>6

(* The object that bulk_update applies is one of those with the account.   *)
LEMMA FirstUpdated ==
  ASSUME TypeOK, NEW r \in Requests, NEW u \in Users, Updated(r, u) # {}
  PROVE  LET first == CHOOSE i \in Updated(r, u) : \A j \in Updated(r, u) : i <= j
         IN  first \in Updated(r, u)
<1>1. Updated(r, u) \subseteq Nat
  BY DEF Updated, TypeOK
<1>2. \E i \in Updated(r, u) : \A j \in Updated(r, u) : i <= j
  BY <1>1, LeastNatural
<1> QED BY <1>2

LEMMA UpdatedTypes ==
  ASSUME TypeOK, NEW r \in Requests, At(r, "donationBulkComplete", "saved"), NEW u \in Users
  PROVE  /\ IsFiniteSet(Updated(r, u)) /\ Updated(r, u) \subseteq DOMAIN objects[r]
         /\ DOMAIN objects[r] = DOMAIN job[r].donations
         /\ \A i \in DOMAIN objects[r] : JobWorth(job[r], i) \in Int
         /\ \A i \in DOMAIN objects[r] : objects[r][i] \in Object
         /\ NetSum([i \in Updated(r, u) |-> JobWorth(job[r], i)], Updated(r, u)) \in Int
<1>1. /\ objects[r] \in Seq(Object) /\ job[r].donations \in Seq(Donations)
      /\ Len(objects[r]) = Len(job[r].donations) /\ job[r].kind \in Donating
  BY DEF TypeOK, JobTyped, HasRead, At, Donating
<1>2. DOMAIN objects[r] = 1..Len(objects[r]) /\ DOMAIN objects[r] = DOMAIN job[r].donations
  BY <1>1
<1>3. \A i \in DOMAIN objects[r] : JobWorth(job[r], i) \in Int
  BY <1>1, <1>2, JobWorthTypes
<1>4. Updated(r, u) \subseteq DOMAIN objects[r]
  BY DEF Updated
<1>5. IsFiniteSet(Updated(r, u))
  <2>1. IsFiniteSet(1..Len(objects[r]))
    <3>1. Len(objects[r]) \in Int /\ 1 \in Int
      BY <1>1
    <3> QED BY <3>1, FS_Interval
  <2> QED BY <1>2, <1>4, <2>1, FS_Subset
<1>6. [i \in Updated(r, u) |-> JobWorth(job[r], i)] \in [Updated(r, u) -> Int]
  BY <1>3, <1>4
<1>7. NetSum([i \in Updated(r, u) |-> JobWorth(job[r], i)], Updated(r, u)) \in Int
  BY ONLY <1>5, <1>6, NetSumIsInt
<1> QED BY <1>1, <1>2, <1>3, <1>4, <1>5, <1>7

(* What bulk_update and bulk_create write, row by row.                     *)
LEMMA BulkWrites ==
  ASSUME TypeOK, NEW r \in Requests, BulkSaveUsers(r)
  PROVE  /\ row' \in [Users -> Row] /\ logged' \in [Users -> Int]
         /\ granted' \in [Donations -> Int]
         /\ \A u \in Users :
              /\ row'[u].last_login = row[u].last_login
              /\ Updated(r, u) = {} => row'[u] = row[u]
              /\ Updated(r, u) # {} => \E i \in Updated(r, u) :
                   row'[u].balance = objects[r][i].row.balance + JobWorth(job[r], i)
              /\ logged'[u] = logged[u]
                   + NetSum([i \in Updated(r, u) |-> JobWorth(job[r], i)], Updated(r, u))
<1> DEFINE first(u) == CHOOSE i \in Updated(r, u) : \A j \in Updated(r, u) : i <= j
           place(d) == CHOOSE i \in DOMAIN job[r].donations : job[r].donations[i] = d
           has(d) == \E i \in DOMAIN job[r].donations : job[r].donations[i] = d
           b(u) == objects[r][first(u)].row.balance + JobWorth(job[r], first(u))
           net(u) == NetSum([i \in Updated(r, u) |-> JobWorth(job[r], i)], Updated(r, u))
           grant(d) == IF has(d) THEN Sign(JobWorth(job[r], place(d))) ELSE 0
<1>0. TablesTyped /\ At(r, "donationBulkComplete", "saved")
  BY DEF TypeOK, BulkSaveUsers
<1>1. /\ row' = [u \in Users |-> IF Updated(r, u) = {} THEN row[u]
                                 ELSE [row[u] EXCEPT !.balance = b(u)]]
      /\ logged' = [u \in Users |-> logged[u] + net(u)]
      /\ granted' = [d \in Donations |-> granted[d] + grant(d)]
  BY DEF BulkSaveUsers
<1>2. ASSUME NEW u \in Users, Updated(r, u) # {} PROVE first(u) \in Updated(r, u) /\ b(u) \in Int
  <2>1. first(u) \in Updated(r, u)
    BY <1>2, FirstUpdated
  <2> HIDE DEF first
  <2>2. first(u) \in DOMAIN objects[r]
    BY <1>0, <2>1, UpdatedTypes
  <2>3. JobWorth(job[r], first(u)) \in Int /\ objects[r][first(u)] \in Object
    BY <1>0, <2>2, UpdatedTypes
  <2> QED BY <2>1, <2>3, ObjectTypes
<1>3. \A u \in Users : net(u) \in Int
  BY <1>0, UpdatedTypes
<1>4. \A d \in Donations : grant(d) \in Int
  <2> SUFFICES ASSUME NEW d \in Donations, has(d) PROVE grant(d) \in Int
    OBVIOUS
  <2>1. place(d) \in DOMAIN job[r].donations /\ job[r].kind \in Donating
    BY <1>0 DEF At, Donating
  <2> HIDE DEF place
  <2> QED BY <2>1, JobWorthTypes, SignTypes
<1>5. \A u \in Users : Updated(r, u) # {} => b(u) = objects[r][first(u)].row.balance + JobWorth(job[r], first(u))
  OBVIOUS
<1> HIDE DEF b, net, grant, first
<1>6. row' \in [Users -> Row]
  BY <1>0, <1>1, <1>2 DEF TablesTyped, Row
<1>7. logged' \in [Users -> Int] /\ granted' \in [Donations -> Int]
  BY <1>0, <1>1, <1>3, <1>4 DEF TablesTyped
<1>8. ASSUME NEW u \in Users
      PROVE  /\ row'[u].last_login = row[u].last_login
             /\ Updated(r, u) = {} => row'[u] = row[u]
             /\ Updated(r, u) # {} => \E i \in Updated(r, u) :
                   row'[u].balance = objects[r][i].row.balance + JobWorth(job[r], i)
             /\ logged'[u] = logged[u] + net(u)
  <2>1. row[u] \in Row
    BY <1>0 DEF TablesTyped
  <2>2. CASE Updated(r, u) = {}
    BY <1>1, <2>2
  <2>3. CASE Updated(r, u) # {}
    <3>1. row'[u] = [row[u] EXCEPT !.balance = b(u)]
      BY <1>1, <2>3
    <3>2. row'[u].balance = b(u) /\ row'[u].last_login = row[u].last_login
      BY <2>1, <3>1 DEF Row
    <3> QED BY <1>1, <1>2, <1>5, <2>3, <3>2
  <2> QED BY <2>2, <2>3
<1> QED BY <1>6, <1>7, <1>8 DEF net

LEMMA BulkKeepsTypes ==
  ASSUME TypeOK, NEW r \in Requests, BulkSaveUsers(r)
  PROVE  TypeOK'
<1>1. /\ Goto(r, "done") /\ TablesTyped
      /\ UNCHANGED <<registered, bonuses, today, status, disputed, sales>>
  BY DEF BulkSaveUsers, TypeOK
<1>2. row' \in [Users -> Row] /\ logged' \in [Users -> Int] /\ granted' \in [Donations -> Int]
  BY BulkWrites
<1>3. TablesTyped' /\ captured' = captured
  BY <1>1, <1>2 DEF TablesTyped, sales
<1> QED BY <1>1, <1>3, GotoKeeps

LEMMA CorrectionKeepsTypes ==
  ASSUME TypeOK, NEW r \in Requests, CustomerUpdate(r) \/ BalanceUpdate(r)
  PROVE  TypeOK'
<1> USE DEF ReadsOneAccount
<1> DEFINE u == objects[r][1].user  old == objects[r][1].row  balance == job[r].balance
           new == IF balance = 0 THEN old.balance ELSE balance
<1>1. /\ TablesTyped /\ objects[r][1] \in Object /\ balance \in Nat
      /\ job[r].kind # "donationBulkComplete"
  BY TableTypes DEF CustomerUpdate, BalanceUpdate, At, TypeOK, JobTyped
<1>2. u \in Users /\ old \in Row /\ old.balance \in Int /\ new \in Int
  BY <1>1, ObjectTypes
<1>3. /\ Goto(r, "done") /\ UNCHANGED <<registered, bonuses, today, goods, sales>>
  BY DEF CustomerUpdate, BalanceUpdate
<1>4. CustomerUpdate(r) => /\ row' = [row EXCEPT ![u] = [old EXCEPT !.balance = new]]
                           /\ Log(u, new - old.balance)
  BY DEF CustomerUpdate
<1>5. BalanceUpdate(r) => SaveBalance(u, balance) /\ Log(u, balance - balance)
  BY DEF BalanceUpdate
<1> HIDE DEF u, old, balance, new
<1>6. row' \in [Users -> Row] /\ logged' \in [Users -> Int]
  <2>1. CASE CustomerUpdate(r)
    <3>1. [old EXCEPT !.balance = new] \in Row /\ new - old.balance \in Int
      BY <1>2 DEF Row
    <3>2. row' \in [Users -> Row]
      BY <1>1, <1>2, <1>4, <2>1, <3>1 DEF TablesTyped
    <3> QED BY <1>1, <1>2, <1>4, <2>1, <3>1, <3>2, LogTypes DEF TablesTyped
  <2>2. CASE BalanceUpdate(r)
    <3>1. balance \in Int /\ balance - balance \in Int
      BY <1>1
    <3> QED BY <1>1, <1>2, <1>5, <2>2, <3>1, SaveBalanceTypes, LogTypes DEF TablesTyped
  <2> QED BY <2>1, <2>2
<1>7. TablesTyped' /\ captured' = captured
  BY <1>1, <1>3, <1>6 DEF TablesTyped, goods, sales
<1> QED BY <1>1, <1>3, <1>7, GotoKeeps

(* update_continuous_days under its lock.                                  *)
LEMMA NoRequestMoves ==
  ASSUME TypeOK, UNCHANGED requests, UNCHANGED captured, TablesTyped'
  PROVE  TypeOK'
<1>1. step' = step /\ job' = job /\ objects' = objects /\ captured' = captured
  BY DEF requests
<1>2. RefundsFit'
  BY <1>1 DEF TypeOK, RefundsFit, At
<1>3. \A r \in Requests : HasRead(r)'
  BY <1>1 DEF TypeOK, HasRead, At
<1> QED BY <1>1, <1>2, <1>3 DEF TypeOK

LEMMA LockedLoginKeepsTypes ==
  ASSUME TypeOK, NEW u \in Users, UpdateContinuousDays(u)
  PROVE  TypeOK'
<1>1. TablesTyped /\ today \in Nat /\ row[u] \in Row
  BY TableTypes DEF TablesTyped
<1>2. LoggedIn(row[u]) \in Row /\ BonusOf(row[u]) \in Nat
  BY <1>1, LoggedInTypes
<1>3. /\ row' = [row EXCEPT ![u] = LoggedIn(@)] /\ Log(u, BonusOf(row[u]))
      /\ bonuses' = [bonuses EXCEPT ![u] = @ + IF Days(row[u]) >= 1 THEN 1 ELSE 0]
      /\ UNCHANGED <<registered, today, goods, sales, requests>>
  BY DEF UpdateContinuousDays, Bonused
<1>4. row' \in [Users -> Row]
  BY <1>1, <1>2, <1>3 DEF TablesTyped
<1>5. logged' \in [Users -> Int]
  BY <1>1, <1>2, <1>3, LogTypes DEF TablesTyped
<1>6. bonuses' \in [Users -> Nat]
  BY <1>1, <1>3 DEF TablesTyped
<1>7. TablesTyped' /\ captured' = captured
  BY <1>1, <1>3, <1>4, <1>5, <1>6 DEF TablesTyped, goods, sales
<1> QED BY <1>3, <1>7, NoRequestMoves

LEMMA SignInKeepsTypes ==
  ASSUME TypeOK, NEW r \in Requests, UpdateUserDetails(r)
  PROVE  TypeOK'
<1> USE DEF ReadsOneAccount
<1> DEFINE o == objects[r][1]
<1>1. /\ TablesTyped /\ today \in Nat /\ o \in Object /\ row \in [Users -> Row]
      /\ job[r].kind # "donationBulkComplete"
  BY TableTypes DEF UpdateUserDetails, At, TablesTyped
<1>2. o.user \in Users /\ SavedLogin(o) \in Row /\ BonusOf(o.row) \in Nat
  BY <1>1, ObjectTypes, LoggedInTypes, SavedLoginTypes
<1>3. /\ row' = [row EXCEPT ![o.user] = SavedLogin(o)] /\ Log(o.user, BonusOf(o.row))
      /\ bonuses' = [bonuses EXCEPT ![o.user] = @ + IF Days(o.row) >= 1 THEN 1 ELSE 0]
      /\ Goto(r, "done") /\ UNCHANGED <<registered, today, goods, sales>>
  BY DEF UpdateUserDetails, Bonused
<1> HIDE DEF o
<1>4. row' \in [Users -> Row]
  BY <1>1, <1>2, <1>3
<1>5. logged' \in [Users -> Int]
  BY <1>1, <1>2, <1>3, LogTypes DEF TablesTyped
<1>6. bonuses' \in [Users -> Nat]
  <2> DEFINE n == IF Days(o.row) >= 1 THEN 1 ELSE 0
  <2>1. n \in Nat /\ bonuses' = [bonuses EXCEPT ![o.user] = @ + n]
    BY <1>3
  <2> HIDE DEF n
  <2> QED BY <1>1, <1>2, <2>1 DEF TablesTyped
<1>7. TablesTyped' /\ captured' = captured
  BY <1>1, <1>3, <1>4, <1>5, <1>6 DEF TablesTyped, goods, sales
<1> QED BY <1>1, <1>3, <1>7, GotoKeeps

(* A first login, before and after its commit.                             *)
LEMMA SignUpKeepsTypes ==
  ASSUME TypeOK, NEW r \in Requests, GetOrCreate(r)
  PROVE  TypeOK'
<1> DEFINE u == job[r].user  inviter == job[r].inviter
           o == [user |-> u, row |-> IF u \in registered THEN row[u] ELSE NewRow]
           os == <<o>> \o IF inviter = u THEN <<>> ELSE <<Copy(inviter)>>
<1>1. /\ TablesTyped /\ today \in Nat /\ u \in Users /\ inviter \in Users /\ row \in [Users -> Row]
      /\ At(r, "signUp", "read")
  BY TableTypes DEF GetOrCreate, At, TypeOK, JobTyped, TablesTyped
<1>2. o \in Object /\ Copy(inviter) \in Object /\ o.user = u /\ Copy(inviter).user = inviter
  BY <1>1, NewRowTypes, CopyIsObject DEF Object, Copy
<1>3. /\ step' = [step EXCEPT ![r] = "inserted"] /\ objects' = [objects EXCEPT ![r] = os]
      /\ UNCHANGED <<accounts, goods, sales, job>>
  BY DEF GetOrCreate
<1> HIDE DEF o
<1>4. /\ os \in Seq(Object) /\ os[1].user = u
      /\ Len(os) = IF inviter = u THEN 1 ELSE 2
      /\ inviter # u => os[2].user = inviter
  <2>1. CASE inviter = u
    BY <1>2, <2>1
  <2>2. CASE inviter # u
    BY <1>2, <2>2
  <2> QED BY <2>1, <2>2
<1> HIDE DEF os
<1>5. TablesTyped'
  BY <1>1, <1>3 DEF TablesTyped, accounts, goods, sales
<1>6. /\ DOMAIN step' = Requests /\ DOMAIN job' = Requests
      /\ objects' \in [Requests -> Seq(Object)]
      /\ step'[r] = "inserted" /\ job' = job /\ objects'[r] = os
      /\ \A q \in Requests \ {r} : step'[q] = step[q] /\ objects'[q] = objects[q]
  BY <1>3, <1>4 DEF TypeOK
<1>7. ASSUME NEW q \in Requests PROVE JobTyped(job'[q]) /\ HasRead(q)'
  <2>1. CASE q = r
    BY <1>1, <1>4, <1>6, <2>1 DEF HasRead, At, TypeOK, ReadsOneAccount
  <2>2. CASE q # r
    BY <1>6, <2>2, OthersKeep DEF TypeOK
  <2> QED BY <2>1, <2>2
<1>8. RefundsFit'
  <2>1. \A q \in Requests : At(q, "refund", "read")' <=> At(q, "refund", "read")
    BY <1>1, <1>6 DEF At
  <2>2. captured' = captured
    BY <1>3 DEF sales
  <2> QED BY <1>6, <2>1, <2>2 DEF TypeOK, RefundsFit
<1> QED BY <1>5, <1>6, <1>7, <1>8 DEF TypeOK

(* What the commit of a first login writes, row by row.                    *)
LEMMA CommitWrites ==
  ASSUME TypeOK, NEW r \in Requests, CommitSignUp(r)
  PROVE  LET o == objects[r][1]  u == o.user  inviter == job[r].inviter
             first == IF u \in registered THEN SavedLogin(o) ELSE LoggedIn(o.row) IN
         /\ o \in Object /\ u \in Users /\ u = job[r].user /\ inviter \in Users
         /\ first \in Row /\ first.last_login = today
         /\ row' \in [Users -> Row] /\ logged' \in [Users -> Int]
         /\ bonuses' \in [Users -> Nat]
         /\ row'[u] = first
         /\ \A v \in Users \ {u} :
              /\ row'[v].last_login = row[v].last_login
              /\ v # inviter => row'[v] = row[v] /\ logged'[v] = logged[v]
              /\ bonuses'[v] = bonuses[v]
         /\ inviter # u => /\ objects[r][2] \in Object /\ objects[r][2].user = inviter
                           /\ row'[inviter].balance = objects[r][2].row.balance + Invitation
                           /\ logged'[inviter] = logged[inviter] + Invitation
<1> DEFINE o == objects[r][1]  u == o.user  inviter == job[r].inviter
           first == IF u \in registered THEN SavedLogin(o) ELSE LoggedIn(o.row)
           gain == Opening + Bonuses[1] + BonusOf(o.row)
           b == objects[r][2].row.balance + Invitation
           count == 1 + IF Days(o.row) >= 1 THEN 1 ELSE 0
<1>0. At(r, "signUp", "inserted") /\ objects[r] \in Seq(Object)
  BY DEF CommitSignUp, TypeOK
<1>1. /\ TablesTyped /\ today \in Nat /\ row \in [Users -> Row] /\ inviter \in Users
      /\ Len(objects[r]) = IF inviter = job[r].user THEN 1 ELSE 2
      /\ u = job[r].user
      /\ inviter # u => objects[r][2].user = inviter
  BY <1>0, TableTypes DEF At, TypeOK, JobTyped, HasRead, TablesTyped
<1>2. o \in Object /\ (inviter # u => objects[r][2] \in Object)
  BY <1>0, <1>1
<1>3. Opening + Bonuses[1] \in Nat /\ Invitation \in Nat
  BY CoinModel
<1>4. /\ u \in Users /\ o.row \in Row /\ BonusOf(o.row) \in Nat
      /\ first \in Row /\ first.last_login = today
  BY <1>1, <1>2, ObjectTypes, LoggedInTypes, SavedLoginTypes
<1>5. gain \in Int /\ count \in Nat
  BY <1>3, <1>4
<1>6. inviter # u => b \in Int
  BY <1>2, <1>3, ObjectTypes
<1>7. /\ row' = [v \in Users |-> IF v = u THEN first
                                ELSE IF inviter # u /\ v = inviter
                                     THEN [row[v] EXCEPT !.balance = b] ELSE row[v]]
      /\ logged' = [v \in Users |-> logged[v] +
                       IF v = u THEN gain
                       ELSE IF inviter # u /\ v = inviter THEN Invitation ELSE 0]
  BY DEF CommitSignUp
<1>8. bonuses' = [bonuses EXCEPT ![u] = @ + count]
  <2>1. bonuses' = [bonuses EXCEPT ![u] = @ + 1 + IF Days(o.row) >= 1 THEN 1 ELSE 0]
    BY DEF CommitSignUp
  <2>2. bonuses[u] \in Nat
    BY <1>1, <1>4 DEF TablesTyped
  <2>3. bonuses[u] + 1 + (IF Days(o.row) >= 1 THEN 1 ELSE 0) = bonuses[u] + count
    BY <2>2
  <2> QED BY <2>1, <2>3
<1>9. inviter # u => b = objects[r][2].row.balance + Invitation
  OBVIOUS
<1> HIDE DEF o, u, inviter, first, gain, b, count
<1>10. row' \in [Users -> Row]
  BY <1>1, <1>4, <1>6, <1>7 DEF Row
<1>11. logged' \in [Users -> Int]
  BY <1>1, <1>3, <1>5, <1>7 DEF TablesTyped
<1>12. bonuses' \in [Users -> Nat]
  BY <1>1, <1>4, <1>5, <1>8 DEF TablesTyped
<1>13. row'[u] = first
  BY <1>4, <1>7
<1>14. ASSUME NEW v \in Users \ {u}
       PROVE  /\ row'[v].last_login = row[v].last_login
              /\ v # inviter => row'[v] = row[v] /\ logged'[v] = logged[v]
              /\ bonuses'[v] = bonuses[v]
  <2>1. row[v] \in Row /\ logged[v] \in Int
    BY <1>1 DEF TablesTyped
  <2>2. bonuses'[v] = bonuses[v]
    BY <1>1, <1>8 DEF TablesTyped
  <2> QED BY <1>7, <2>1, <2>2 DEF Row
<1>15. ASSUME inviter # u
       PROVE  /\ row'[inviter].balance = b /\ logged'[inviter] = logged[inviter] + Invitation
  BY <1>1, <1>6, <1>7, <1>15 DEF TablesTyped, Row
<1> QED BY <1>1, <1>2, <1>4, <1>9, <1>10, <1>11, <1>12, <1>13, <1>14, <1>15
        DEF o, u, inviter, first

LEMMA CommitKeepsTypes ==
  ASSUME TypeOK, NEW r \in Requests, CommitSignUp(r)
  PROVE  TypeOK'
<1>1. /\ row' \in [Users -> Row] /\ logged' \in [Users -> Int] /\ bonuses' \in [Users -> Nat]
      /\ objects[r][1].user \in Users
  BY CommitWrites
<1>2. /\ Goto(r, "done") /\ UNCHANGED <<today, goods, sales>>
      /\ registered' = registered \cup {objects[r][1].user}
      /\ job[r].kind # "donationBulkComplete"
  BY DEF CommitSignUp, At
<1>3. TablesTyped' /\ captured' = captured
  BY <1>1, <1>2 DEF TypeOK, TablesTyped, goods, sales
<1> QED BY <1>2, <1>3, GotoKeeps

(* The reads of donators.                                                  *)
LEMMA DonatorKeepsTypes ==
  ASSUME TypeOK, NEW r \in Requests, ReadDonator(r) \/ BulkReadDonator(r)
  PROVE  TypeOK'
<1> USE DEF Donating
<1>1. ASSUME NEW os \in Seq(Object), job[r].kind \in Donating,
             DOMAIN step' = Requests, step'[r] \in {"read", "donator"},
             \A q \in Requests \ {r} : step'[q] = step[q],
             objects' = [objects EXCEPT ![r] = os],
             UNCHANGED <<accounts, goods, sales, job>>,
             step'[r] = "donator" => Len(os) = 1
      PROVE  TypeOK'
  <2>1. TablesTyped'
    BY <1>1 DEF TypeOK, TablesTyped, accounts, goods, sales
  <2>2. /\ DOMAIN step' = Requests /\ DOMAIN job' = Requests
        /\ objects' \in [Requests -> Seq(Object)]
        /\ job' = job /\ objects'[r] = os
        /\ \A q \in Requests \ {r} : step'[q] = step[q] /\ objects'[q] = objects[q]
    BY <1>1 DEF TypeOK
  <2>3. ASSUME NEW q \in Requests PROVE JobTyped(job'[q]) /\ HasRead(q)'
    <3>1. CASE q = r
      BY <1>1, <2>2, <3>1 DEF HasRead, At, TypeOK, ReadsOneAccount
    <3>2. CASE q # r
      BY <2>2, <3>2, OthersKeep DEF TypeOK
    <3> QED BY <3>1, <3>2
  <2>4. RefundsFit'
    <3>1. \A q \in Requests : At(q, "refund", "read")' <=> At(q, "refund", "read")
      BY <1>1, <2>2 DEF At
    <3>2. captured' = captured
      BY <1>1 DEF sales
    <3> QED BY <2>2, <3>1, <3>2 DEF TypeOK, RefundsFit
  <2> QED BY <2>1, <2>2, <2>3, <2>4 DEF TypeOK
<1>2. \A d \in Donations : Copy(Donator[d]) \in Object
  <2>1. \A d \in Donations : Donator[d] \in Users
    BY CoinModel
  <2> QED BY <2>1, CopyIsObject DEF TypeOK, TablesTyped
<1>3. /\ objects[r] \in Seq(Object)
      /\ job[r].kind \in Donating => job[r].donations \in Seq(Donations)
      /\ job[r].kind = "donationComplete" => Len(job[r].donations) = 1
  BY DEF TypeOK, JobTyped
<1>4. CASE ReadDonator(r)
  <2> DEFINE c == Copy(Donator[job[r].donations[1]])  os == <<c>>
  <2>1. c \in Object
    BY <1>2, <1>3, <1>4 DEF ReadDonator, At
  <2>2. /\ step' = [step EXCEPT ![r] = "donator"] /\ objects' = [objects EXCEPT ![r] = os]
        /\ UNCHANGED <<accounts, goods, sales, job>> /\ job[r].kind \in Donating
    BY <1>4 DEF ReadDonator, At
  <2> HIDE DEF c
  <2>3. os \in Seq(Object) /\ Len(os) = 1
    BY <2>1
  <2> HIDE DEF os
  <2>4. /\ DOMAIN step' = Requests /\ step'[r] = "donator"
        /\ \A q \in Requests \ {r} : step'[q] = step[q]
    BY <2>2 DEF TypeOK
  <2>5. /\ objects' = [objects EXCEPT ![r] = os] /\ job[r].kind \in Donating
        /\ UNCHANGED <<accounts, goods, sales, job>>
    BY <2>2
  <2> QED BY <1>1, <2>3, <2>4, <2>5
<1>5. CASE BulkReadDonator(r)
  <2> DEFINE n == Len(objects[r]) + 1  c == Copy(Donator[job[r].donations[n]])
             os == Append(objects[r], c)
  <2>1. n \in Nat \ {0} /\ n <= Len(job[r].donations) /\ job[r].kind \in Donating
    BY <1>3, <1>5 DEF BulkReadDonator, At
  <2>2. c \in Object
    BY <1>2, <1>3, <2>1
  <2>3. /\ objects' = [objects EXCEPT ![r] = os] /\ step[r] = "read"
        /\ step' = step /\ UNCHANGED <<accounts, goods, sales, job>>
    BY <1>5 DEF BulkReadDonator, At
  <2> HIDE DEF c, n
  <2>4. os \in Seq(Object)
    BY <1>3, <2>2
  <2> HIDE DEF os
  <2>5. /\ DOMAIN step' = Requests /\ step'[r] = "read"
        /\ \A q \in Requests \ {r} : step'[q] = step[q]
    BY <2>3 DEF TypeOK
  <2>6. /\ objects' = [objects EXCEPT ![r] = os] /\ job[r].kind \in Donating
        /\ UNCHANGED <<accounts, goods, sales, job>>
    BY <2>1, <2>3
  <2> QED BY <1>1, <2>4, <2>5, <2>6
<1> QED BY <1>4, <1>5

LEMMA CrashKeepsTypes ==
  ASSUME TypeOK, NEW r \in Requests, Crash(r)
  PROVE  TypeOK'
<1>1. /\ \E s \in {"done", "crashed"} : Goto(r, s)
      /\ UNCHANGED <<accounts, goods, sales>>
  BY DEF Crash
<1>2. TablesTyped' /\ captured' = captured
  BY <1>1 DEF TypeOK, TablesTyped, accounts, goods, sales
<1> QED BY <1>1, <1>2, GotoKeeps

LEMMA StepTypes ==
  ASSUME TypeOK, [Next]_vars
  PROVE  TypeOK'
<1>1. ASSUME NEW r \in Requests, Proceed(r) PROVE TypeOK'
  BY <1>1, SalesKeepTypes, DonationKeepsTypes, BulkKeepsTypes, CorrectionKeepsTypes,
     SignInKeepsTypes, SignUpKeepsTypes, CommitKeepsTypes, DonatorKeepsTypes DEF Proceed
<1>2. ASSUME NEW d \in Donations, DonationCreate(d) PROVE TypeOK'
  <2>1. /\ status' = [status EXCEPT ![d] = "unreviewed"]
        /\ UNCHANGED <<accounts, granted, disputed, sales, requests>>
    BY <1>2 DEF DonationCreate
  <2>2. TablesTyped' /\ captured' = captured
    BY <2>1 DEF TypeOK, TablesTyped, accounts, sales, Status
  <2> QED BY <2>1, <2>2, NoRequestMoves
<1>3. CASE NextDay
  <2>1. /\ today < MaxDay /\ today' = today + 1 /\ bonuses' = [u \in Users |-> 0]
        /\ UNCHANGED <<registered, row, logged, goods, sales, requests>>
    BY <1>3 DEF NextDay
  <2>2. today' \in 0..MaxDay
    BY <2>1, CoinModel DEF TypeOK, TablesTyped
  <2>3. TablesTyped' /\ captured' = captured
    BY <2>1, <2>2 DEF TypeOK, TablesTyped, goods, sales
  <2> QED BY <2>1, <2>3, NoRequestMoves
<1>4. CASE UNCHANGED vars
  <2>1. TablesTyped'
    BY <1>4 DEF vars, TypeOK, TablesTyped, accounts, goods, sales
  <2> QED BY <1>4, <2>1, NoRequestMoves DEF vars, sales
<1> QED BY <1>1, <1>2, <1>3, <1>4, BeginKeepsTypes, CrashKeepsTypes, LockedLoginKeepsTypes
        DEF Next

LEMMA InitTypes == Init => TypeOK
<1> SUFFICES ASSUME Init PROVE TypeOK
  OBVIOUS
<1>1. Bonuses[1] \in Nat /\ Opening \in Nat /\ MaxDay \in Nat
  BY NewRowTypes, CoinModel
<1>2. TablesTyped
  BY <1>1, CoinModel DEF Init, TablesTyped, Row, Status
<1>3. /\ step = [r \in Requests |-> "idle"] /\ job = [r \in Requests |-> Idle]
      /\ objects = [r \in Requests |-> <<>>]
  BY DEF Init
<1>4. <<>> \in Seq(Object)
  OBVIOUS
<1>5. \A r \in Requests : JobTyped(job[r]) /\ HasRead(r)
  BY <1>3 DEF JobTyped, HasRead, At, Idle, Donating, ReadsOneAccount
<1>6. RefundsFit
  BY <1>3 DEF RefundsFit, At
<1> QED BY <1>2, <1>3, <1>4, <1>5, <1>6 DEF TypeOK

(* In every state each request has read the objects its next step uses,    *)
(* and refunds of one payment do not overlap nor exceed what is captured,  *)
(* however partial refunds and new payments come between (gateway.refund,  *)
(* with_locked_payment).                                                   *)
THEOREM TypesAreKept == Spec => []TypeOK
<1>1. Init => TypeOK
  BY InitTypes
<1>2. TypeOK /\ [Next]_vars => TypeOK'
  BY StepTypes
<1> QED BY <1>1, <1>2, PTL DEF Spec

-----------------------------------------------------------------------------
(* The log explains the balances.                                          *)
Explained(u) ==
  \/ row'[u].balance - row[u].balance = logged'[u] - logged[u]
  \/ \E r \in Requests : Moves(r) /\ (LosesUpdate(r, u) \/ Unlogged(r, u))

LEMMA GotoMoves ==
  ASSUME TypeOK, NEW r \in Requests, NEW s, step[r] # s, Goto(r, s)
  PROVE  Moves(r)
<1>1. step' = [step EXCEPT ![r] = s]
  BY DEF Goto
<1>2. step'[r] = s
  BY <1>1 DEF TypeOK
<1> QED BY <1>2 DEF Moves

LEMMA UntouchedIsExplained ==
  ASSUME TypeOK, NEW u \in Users, row'[u] = row[u], logged'[u] = logged[u]
  PROVE  Explained(u)
<1>1. row[u].balance \in Int /\ logged[u] \in Int
  BY DEF TypeOK, TablesTyped, Row
<1> QED BY <1>1 DEF Explained

(* A request writes back the balance it has read, changed by n, and logs n.*)
LEMMA ObjectIsExplained ==
  ASSUME TypeOK, NEW r \in Requests, Moves(r), NEW i \in DOMAIN objects[r], NEW n \in Int,
         NEW u \in Users, u = objects[r][i].user,
         row'[u].balance = objects[r][i].row.balance + n, logged'[u] = logged[u] + n
  PROVE  Explained(u)
<1>1. row[u].balance \in Int /\ logged[u] \in Int
  BY DEF TypeOK, TablesTyped, Row
<1>2. CASE objects[r][i].row.balance = row[u].balance
  BY <1>1, <1>2 DEF Explained
<1>3. CASE objects[r][i].row.balance # row[u].balance
  BY <1>3 DEF Explained, LosesUpdate
<1> QED BY <1>2, <1>3

LEMMA SalesAreExplained ==
  ASSUME TypeOK, NEW r \in Requests, NEW v \in Users,
         Pay(r) \/ FinishRefund(r) \/ GrantDonation(r)
  PROVE  Explained(v)
<1> DEFINE o == objects[r][1]  u == o.user  b == o.row.balance
<1>1. /\ TablesTyped /\ row \in [Users -> Row] /\ logged \in [Users -> Int]
  BY DEF TypeOK, TablesTyped
<1>2. 1 \in DOMAIN objects[r] /\ o \in Object
  <2>1. objects[r] \in Seq(Object) /\ Len(objects[r]) = 1
    BY DEF Pay, FinishRefund, GrantDonation, At, TypeOK, HasRead, ReadsOneAccount
  <2> QED BY <2>1
<1>3. u \in Users /\ b \in Int /\ o.row \in Row
  BY <1>2, ObjectTypes
<1>4. Moves(r)
  BY GotoMoves DEF Pay, FinishRefund, GrantDonation, At
<1>5. \E n \in Int : /\ row'[u].balance = b + n /\ logged'[u] = logged[u] + n
                     /\ \A w \in Users \ {u} : row'[w] = row[w] /\ logged'[w] = logged[w]
  <2>1. CASE Pay(r)
    <3> DEFINE n == -Total[job[r].order]
    <3>1. Total[job[r].order] \in Nat
      BY <2>1, CoinModel DEF Pay, At, TypeOK, JobTyped
    <3>2. SaveBalance(u, b - Total[job[r].order]) /\ Log(u, n)
      BY <2>1 DEF Pay
    <3>3. n \in Int /\ b - Total[job[r].order] \in Int /\ b - Total[job[r].order] = b + n
      BY <1>3, <3>1
    <3> HIDE DEF n, u, b, o
    <3> QED BY <1>1, <1>3, <3>2, <3>3, SaveBalanceTypes, LogTypes
  <2>2. CASE FinishRefund(r)
    <3> DEFINE n == job[r].amount
    <3>1. n \in Int
      BY <2>2 DEF FinishRefund, At, TypeOK, JobTyped
    <3>2. row' = [row EXCEPT ![u] = [o.row EXCEPT !.balance = @ + n]] /\ Log(u, n)
      BY <2>2 DEF FinishRefund
    <3>3. [o.row EXCEPT !.balance = @ + n].balance = b + n
      BY <1>3 DEF Row
    <3> HIDE DEF n, u, b
    <3>4. row'[u].balance = b + n /\ \A w \in Users \ {u} : row'[w] = row[w]
      BY <1>1, <1>3, <3>2, <3>3
    <3> QED BY <1>1, <1>3, <3>1, <3>2, <3>4, LogTypes
  <2>3. CASE GrantDonation(r)
    <3> DEFINE n == JobWorth(job[r], 1)
    <3>1. n \in Int
      <4>1. job[r].kind \in Donating /\ 1 \in DOMAIN job[r].donations
        BY <2>3 DEF GrantDonation, At, TypeOK, JobTyped, Donating
      <4> QED BY <4>1, JobWorthTypes
    <3>2. SaveBalance(u, b + n) /\ Log(u, n)
      BY <2>3 DEF GrantDonation
    <3> HIDE DEF n, u, b, o
    <3>3. b + n \in Int
      BY <1>3, <3>1
    <3> QED BY <1>1, <1>3, <3>1, <3>2, <3>3, SaveBalanceTypes, LogTypes
  <2> QED BY <2>1, <2>2, <2>3
<1>6. CASE v = u
  <2>1. PICK n \in Int : row'[v].balance = b + n /\ logged'[v] = logged[v] + n
    BY <1>5, <1>6
  <2> QED BY <1>2, <1>4, <1>6, <2>1, ObjectIsExplained
<1>7. CASE v # u
  BY <1>5, <1>7, UntouchedIsExplained
<1> QED BY <1>6, <1>7

LEMMA CorrectionsAreExplained ==
  ASSUME TypeOK, NEW r \in Requests, NEW v \in Users, CustomerUpdate(r) \/ BalanceUpdate(r)
  PROVE  Explained(v)
<1> DEFINE o == objects[r][1]  u == o.user  b == o.row.balance
           new == IF job[r].balance = 0 THEN b ELSE job[r].balance
<1>1. row \in [Users -> Row] /\ logged \in [Users -> Int]
  BY DEF TypeOK, TablesTyped
<1>2. 1 \in DOMAIN objects[r] /\ o \in Object /\ job[r].balance \in Nat
  <2>1. objects[r] \in Seq(Object) /\ Len(objects[r]) = 1 /\ job[r].balance \in Nat
    BY DEF CustomerUpdate, BalanceUpdate, At, TypeOK, HasRead, JobTyped, ReadsOneAccount
  <2> QED BY <2>1
<1>3. u \in Users /\ b \in Int /\ o.row \in Row /\ new \in Int
  BY <1>2, ObjectTypes
<1>4. Moves(r)
  BY GotoMoves DEF CustomerUpdate, BalanceUpdate, At
<1>5. CASE BalanceUpdate(r)
  BY <1>4, <1>5 DEF Explained, Unlogged, BalanceUpdate, At
<1>6. CASE CustomerUpdate(r)
  <2>1. row' = [row EXCEPT ![u] = [o.row EXCEPT !.balance = new]] /\ Log(u, new - b)
    BY <1>6 DEF CustomerUpdate
  <2>2. [o.row EXCEPT !.balance = new].balance = new
    BY <1>3 DEF Row
  <2>3. new - b \in Int /\ new = b + (new - b)
    BY <1>3
  <2>4. o.user = u /\ o.row.balance = b
    OBVIOUS
  <2> HIDE DEF u, b, new
  <2>5. row'[u].balance = b + (new - b) /\ \A w \in Users \ {u} : row'[w] = row[w]
    BY <1>1, <1>3, <2>1, <2>2, <2>3
  <2>6. logged'[u] = logged[u] + (new - b) /\ \A w \in Users \ {u} : logged'[w] = logged[w]
    BY <1>1, <1>3, <2>1, <2>3, LogTypes
  <2>7. CASE v = u
    <3> DEFINE n == new - b
    <3>1. row'[v].balance = o.row.balance + n /\ logged'[v] = logged[v] + n
      BY <2>4, <2>5, <2>6, <2>7
    <3>2. n \in Int
      BY <2>3
    <3> HIDE DEF n
    <3> QED BY <1>2, <1>4, <2>4, <2>7, <3>1, <3>2, ObjectIsExplained
  <2>8. CASE v # u
    BY <2>5, <2>6, <2>8, UntouchedIsExplained
  <2> QED BY <2>7, <2>8
<1> QED BY <1>5, <1>6

LEMMA BatchIsExplained ==
  ASSUME TypeOK, NEW r \in Requests, NEW v \in Users, BulkSaveUsers(r)
  PROVE  Explained(v)
<1> DEFINE D == Updated(r, v)  f == [i \in D |-> JobWorth(job[r], i)]
<1>1. At(r, "donationBulkComplete", "saved") /\ Moves(r)
  BY GotoMoves DEF BulkSaveUsers, At
<1>2. /\ D = {} => row'[v] = row[v]
      /\ D # {} => \E i \in D : row'[v].balance = objects[r][i].row.balance + JobWorth(job[r], i)
      /\ logged'[v] = logged[v] + NetSum(f, D)
  BY BulkWrites
<1>3. /\ D \subseteq DOMAIN objects[r] /\ \A i \in D : objects[r][i].user = v
      /\ \A i \in D : JobWorth(job[r], i) \in Int
  BY <1>1, UpdatedTypes DEF Updated
<1>4. logged[v] \in Int
  BY DEF TypeOK, TablesTyped
<1>5. CASE D = {}
  <2>1. \A i \in D : f[i] = 0
    BY <1>5
  <2> HIDE DEF D, f
  <2>2. NetSum(f, D) = 0
    BY <2>1, NetSumZero
  <2> QED BY <1>2, <1>4, <1>5, <2>2, UntouchedIsExplained
<1>6. CASE \E i, j \in D : i # j
  BY <1>1, <1>6 DEF Explained, Unlogged, At
<1>7. CASE D # {} /\ \A i, j \in D : i = j
  <2>1. PICK i \in D : row'[v].balance = objects[r][i].row.balance + JobWorth(job[r], i)
    BY <1>2, <1>7
  <2>2. f[i] = JobWorth(job[r], i) /\ D = {i} /\ f \in [D -> Int]
    BY <1>3, <1>7, <2>1
  <2> HIDE DEF D, f
  <2>3. NetSum(f, D) = f[i]
    BY <2>2, NetSumOfOne
  <2>4. /\ i \in DOMAIN objects[r] /\ v = objects[r][i].user /\ JobWorth(job[r], i) \in Int
        /\ logged'[v] = logged[v] + JobWorth(job[r], i)
    BY <1>2, <1>3, <2>2, <2>3
  <2> QED BY <1>1, <2>1, <2>4, ObjectIsExplained
<1> QED BY <1>5, <1>6, <1>7

LEMMA LoginsAreExplained ==
  ASSUME TypeOK, NEW v \in registered,
         \/ UpdateContinuousDays(v)
         \/ \E r \in Requests : UpdateUserDetails(r) /\ objects[r][1].user = v
         \/ \E r \in Requests : CommitSignUp(r)
  PROVE  Explained(v)
<1>1. /\ row \in [Users -> Row] /\ logged \in [Users -> Int] /\ today \in Nat /\ v \in Users
      /\ registered \subseteq Users
  BY TableTypes DEF TypeOK, TablesTyped
<1>2. row[v] \in Row /\ row[v].balance \in Int /\ logged[v] \in Int
  BY <1>1 DEF Row
<1>3. CASE UpdateContinuousDays(v)
  <2>1. /\ BonusOf(row[v]) \in Nat
        /\ LoggedIn(row[v]).balance = row[v].balance + BonusOf(row[v])
    BY <1>1, <1>2, LoggedInTypes
  <2>2. row' = [row EXCEPT ![v] = LoggedIn(@)] /\ Log(v, BonusOf(row[v]))
    BY <1>3 DEF UpdateContinuousDays
  <2>3. row'[v] = LoggedIn(row[v])
    BY <1>1, <2>2
  <2>4. logged'[v] = logged[v] + BonusOf(row[v])
    BY <1>1, <2>1, <2>2, LogTypes
  <2> QED BY <1>2, <2>1, <2>3, <2>4 DEF Explained
<1>4. ASSUME NEW r \in Requests, UpdateUserDetails(r), objects[r][1].user = v PROVE Explained(v)
  <2> DEFINE o == objects[r][1]
  <2>1. 1 \in DOMAIN objects[r] /\ o \in Object /\ Moves(r)
    <3>1. objects[r] \in Seq(Object) /\ Len(objects[r]) = 1
      BY <1>4 DEF UpdateUserDetails, At, TypeOK, HasRead, ReadsOneAccount
    <3> QED BY <1>4, <3>1, GotoMoves DEF UpdateUserDetails, At
  <2>2. /\ o.row \in Row /\ BonusOf(o.row) \in Nat
        /\ LoggedIn(o.row) \in Row
        /\ LoggedIn(o.row).balance = o.row.balance + BonusOf(o.row)
        /\ ~(Days(o.row) >= 1) => BonusOf(o.row) = 0
    BY <1>1, <2>1, ObjectTypes, LoggedInTypes
  <2>3. row' = [row EXCEPT ![v] = SavedLogin(o)] /\ Log(v, BonusOf(o.row)) /\ o.user = v
    BY <1>4 DEF UpdateUserDetails
  <2> HIDE DEF o
  <2>4. row'[v] = SavedLogin(o)
    BY <1>1, <2>3
  <2>5. logged'[v] = logged[v] + BonusOf(o.row)
    BY <1>1, <2>2, <2>3, LogTypes
  <2>6. CASE Days(o.row) >= 1
    <3>1. row'[v].balance = o.row.balance + BonusOf(o.row)
      BY <2>2, <2>4, <2>6 DEF SavedLogin
    <3> QED BY <1>1, <2>1, <2>2, <2>3, <2>5, <3>1, ObjectIsExplained DEF o
  <2>7. CASE ~(Days(o.row) >= 1)
    <3>1. row'[v].balance = row[v].balance
      BY <2>2, <2>3, <2>4, <2>7 DEF SavedLogin, Row
    <3> QED BY <1>2, <2>2, <2>5, <2>7, <3>1 DEF Explained
  <2> QED BY <2>6, <2>7
<1>5. ASSUME NEW r \in Requests, CommitSignUp(r) PROVE Explained(v)
  <2> DEFINE u == objects[r][1].user  inviter == job[r].inviter
  <2>1. Moves(r) /\ job[r].kind = "signUp" /\ objects[r] \in Seq(Object)
        /\ (inviter # job[r].user => Len(objects[r]) = 2)
    BY <1>5, GotoMoves DEF CommitSignUp, At, TypeOK, HasRead
  <2>2. /\ u = job[r].user
        /\ \A w \in Users \ {u} : w # inviter => row'[w] = row[w] /\ logged'[w] = logged[w]
        /\ inviter # u => /\ objects[r][2] \in Object /\ objects[r][2].user = inviter
                          /\ row'[inviter].balance = objects[r][2].row.balance + Invitation
                          /\ logged'[inviter] = logged[inviter] + Invitation
    BY <1>5, CommitWrites
  <2>3. Invitation \in Int
    BY CoinModel
  <2>4. CASE v = u
    BY <2>1, <2>2, <2>4 DEF Explained, Unlogged
  <2>5. CASE v # u /\ v # inviter
    BY <1>1, <2>2, <2>5, UntouchedIsExplained
  <2>6. CASE v # u /\ v = inviter
    <3>1. /\ 2 \in DOMAIN objects[r] /\ v = objects[r][2].user
          /\ row'[v].balance = objects[r][2].row.balance + Invitation
          /\ logged'[v] = logged[v] + Invitation
      BY <2>1, <2>2, <2>6
    <3> QED BY <1>1, <2>1, <2>3, <3>1, ObjectIsExplained
  <2> QED BY <2>4, <2>5, <2>6
<1> QED BY <1>3, <1>4, <1>5

LEMMA StepIsExplained ==
  ASSUME TypeOK, [Next]_vars, NEW v \in registered
  PROVE  Explained(v)
<1>1. v \in Users /\ row \in [Users -> Row] /\ logged \in [Users -> Int] /\ today \in Nat
  BY TableTypes DEF TypeOK, TablesTyped
<1>2. CASE UNCHANGED <<row, logged>>
  BY <1>1, <1>2, UntouchedIsExplained
<1>3. ASSUME NEW u \in Users, UpdateContinuousDays(u) PROVE Explained(v)
  <2>1. CASE u = v
    BY <1>3, <2>1, LoginsAreExplained
  <2>2. CASE u # v
    <3>1. row' = [row EXCEPT ![u] = LoggedIn(@)] /\ logged' = [logged EXCEPT ![u] = @ + BonusOf(row[u])]
      BY <1>3 DEF UpdateContinuousDays, Log
    <3> QED BY <1>1, <2>2, <3>1, UntouchedIsExplained
  <2> QED BY <2>1, <2>2
<1>4. ASSUME NEW r \in Requests, UpdateUserDetails(r) PROVE Explained(v)
  <2>1. CASE objects[r][1].user = v
    BY <1>4, <2>1, LoginsAreExplained
  <2>2. CASE objects[r][1].user # v
    <3>1. /\ row' = [row EXCEPT ![objects[r][1].user] = SavedLogin(objects[r][1])]
          /\ logged' = [logged EXCEPT ![objects[r][1].user] = @ + BonusOf(objects[r][1].row)]
      BY <1>4 DEF UpdateUserDetails, Log
    <3> QED BY <1>1, <2>2, <3>1, UntouchedIsExplained
  <2> QED BY <2>1, <2>2
<1>5. ASSUME NEW r \in Requests, Begin(r) \/ Proceed(r) \/ Crash(r) PROVE Explained(v)
  <2>1. Begin(r) \/ Crash(r) => UNCHANGED <<row, logged>>
    BY DEF Begin, Crash, OrderConfirm, Refund, DonationComplete, DonationUpdate,
           DonationBulkComplete, ReadAccount, SignIn, SignUp, accounts
  <2>2. SaveConfirmed(r) \/ SaveDonation(r) \/ ReadDonator(r) \/ SaveUpdate(r)
        \/ BulkReadDonator(r) \/ BulkSaveDonations(r) \/ GetOrCreate(r) => UNCHANGED <<row, logged>>
    BY DEF SaveConfirmed, SaveDonation, ReadDonator, SaveUpdate, BulkReadDonator,
           BulkSaveDonations, GetOrCreate, accounts
  <2> QED BY <1>1, <1>2, <1>4, <1>5, <2>1, <2>2, SalesAreExplained, CorrectionsAreExplained,
             BatchIsExplained, LoginsAreExplained DEF Proceed
<1>6. ASSUME NEW d \in Donations, DonationCreate(d) PROVE Explained(v)
  BY <1>2, <1>6 DEF DonationCreate, accounts
<1>7. CASE NextDay
  BY <1>2, <1>7 DEF NextDay
<1>8. CASE UNCHANGED vars
  BY <1>2, <1>8 DEF vars, accounts
<1> QED BY <1>3, <1>5, <1>6, <1>7, <1>8 DEF Next

(* The balance events explain every change of a balance, but for an update *)
(* lost between a read and a write without a lock and the three places     *)
(* that write no matching event: two donations of one donator in a batch,  *)
(* a balance typed in by staff, a second first login (account/events.py).  *)
THEOREM LogExplainsBalances == Spec => MovesAreLogged
<1>1. ASSUME TypeOK, [Next]_vars
      PROVE  [\A u \in registered :
               \/ row'[u].balance - row[u].balance = logged'[u] - logged[u]
               \/ \E r \in Requests : Moves(r) /\ (LosesUpdate(r, u) \/ Unlogged(r, u))]_vars
  BY <1>1, StepIsExplained DEF Explained
<1> QED BY <1>1, TypesAreKept, PTL DEF Spec, MovesAreLogged

-----------------------------------------------------------------------------
(* Payments never lend.                                                    *)

(* The balances of the rows and of every copy of them that a request holds.*)
Solvent ==
  /\ \A u \in Users : row[u].balance >= 0
  /\ \A r \in Requests : \A i \in DOMAIN objects[r] : objects[r][i].row.balance >= 0
  /\ \A r \in Requests : At(r, "confirm", "payable") =>
       objects[r][1].row.balance >= Total[job[r].order]

LEMMA ReadStaysSolvent ==
  ASSUME TypeOK, Solvent, NEW r \in Requests, NEW os, row' = row,
         objects' = [objects EXCEPT ![r] = os],
         \A i \in DOMAIN os : os[i].row.balance >= 0,
         ~At(r, "confirm", "payable")',
         \A q \in Requests \ {r} : step'[q] = step[q] /\ job'[q] = job[q]
  PROVE  Solvent'
<1>1. objects'[r] = os /\ \A q \in Requests \ {r} : objects'[q] = objects[q]
  BY DEF TypeOK
<1>2. \A q \in Requests : \A i \in DOMAIN objects'[q] : objects'[q][i].row.balance >= 0
  BY <1>1 DEF Solvent
<1>3. \A q \in Requests : At(q, "confirm", "payable")' =>
        objects'[q][1].row.balance >= Total[job'[q].order]
  BY <1>1 DEF Solvent, At
<1> QED BY <1>2, <1>3 DEF Solvent

LEMMA WriteStaysSolvent ==
  ASSUME TypeOK, Solvent, NEW r \in Requests, NEW s, Goto(r, s),
         \A u \in Users : row'[u].balance >= 0,
         s = "payable" /\ job[r].kind = "confirm" =>
           objects[r][1].row.balance >= Total[job[r].order]
  PROVE  Solvent'
<1>1. /\ step' = [step EXCEPT ![r] = s] /\ job' = job /\ objects' = objects
  BY DEF Goto
<1>2. step'[r] = s /\ \A q \in Requests \ {r} : step'[q] = step[q]
  BY <1>1 DEF TypeOK
<1>3. \A q \in Requests : At(q, "confirm", "payable")' =>
        objects'[q][1].row.balance >= Total[job'[q].order]
  BY <1>1, <1>2 DEF Solvent, At
<1> QED BY <1>1, <1>3 DEF Solvent

LEMMA BeginStaysSolvent ==
  ASSUME TypeOK, Solvent, NEW r \in Requests, Begin(r)
  PROVE  Solvent'
<1>1. ASSUME NEW j, NEW os, Start(r, j, os), UNCHANGED accounts,
             \A i \in DOMAIN os : os[i].row.balance >= 0
      PROVE  Solvent'
  <2>1. /\ step' = [step EXCEPT ![r] = "read"] /\ job' = [job EXCEPT ![r] = j]
        /\ objects' = [objects EXCEPT ![r] = os] /\ row' = row
    BY <1>1 DEF Start, accounts
  <2>2. /\ step'[r] = "read"
        /\ \A q \in Requests \ {r} : step'[q] = step[q] /\ job'[q] = job[q]
    BY <2>1 DEF TypeOK
  <2>3. ~At(r, "confirm", "payable")'
    BY <2>2 DEF At
  <2> QED BY <1>1, <2>1, <2>2, <2>3, ReadStaysSolvent
<1>2. \A u \in Users : \A i \in DOMAIN <<Copy(u)>> : <<Copy(u)>>[i].row.balance >= 0
  BY DEF Copy, Solvent
<1>3. \A i \in DOMAIN <<>> : <<>>[i].row.balance >= 0
  OBVIOUS
<1> QED BY <1>1, <1>2, <1>3 DEF Begin, OrderConfirm, Refund, DonationComplete,
        DonationUpdate, DonationBulkComplete, ReadAccount, SignIn, SignUp

(* A login only ever adds coins.                                           *)
LEMMA LoginStaysSolvent ==
  ASSUME TypeOK, Solvent, NEW o \in Object, o.row.balance >= 0
  PROVE  SavedLogin(o).balance >= 0 /\ LoggedIn(o.row).balance >= 0
<1>1. /\ o.row \in Row /\ o.user \in Users /\ today \in Nat /\ o.row.balance \in Nat
      /\ row[o.user].balance >= 0
  BY TableTypes, ObjectTypes DEF Solvent
<1>2. /\ LoggedIn(o.row) \in Row /\ BonusOf(o.row) \in Nat
      /\ LoggedIn(o.row).balance = o.row.balance + BonusOf(o.row)
  BY <1>1, LoggedInTypes
<1> QED BY <1>1, <1>2 DEF SavedLogin, Row

LEMMA StepStaysSolvent ==
  ASSUME TypeOK, Solvent, Kinds \cap Donating = {}, [Next]_vars
  PROVE  Solvent'
<1> USE DEF Donating
<1>0. /\ row \in [Users -> Row] /\ today \in Nat
      /\ \A u \in Users : row[u].balance \in Nat
      /\ \A r \in Requests : \A i \in DOMAIN objects[r] :
           objects[r][i] \in Object /\ objects[r][i].row.balance \in Nat
           /\ objects[r][i].user \in Users /\ objects[r][i].row \in Row
  BY TableTypes, ObjectTypes DEF TypeOK, TablesTyped, Row, Solvent
<1>1. ASSUME NEW r \in Requests, job[r].kind \in ReadsOneAccount PROVE 1 \in DOMAIN objects[r]
  <2>1. objects[r] \in Seq(Object) /\ Len(objects[r]) = 1
    BY <1>1 DEF TypeOK, HasRead
  <2> QED BY <2>1
<1>2. ASSUME NEW r \in Requests, SaveConfirmed(r) PROVE Solvent'
  BY <1>2, WriteStaysSolvent DEF SaveConfirmed, accounts, Solvent
<1>3. ASSUME NEW r \in Requests, Pay(r) PROVE Solvent'
  <2> DEFINE b == objects[r][1].row.balance - Total[job[r].order]
  <2>1. b >= 0 /\ b \in Int
    BY <1>0, <1>1, <1>3, CoinModel DEF Pay, At, Solvent, ReadsOneAccount, TypeOK, JobTyped
  <2>2. SaveBalance(objects[r][1].user, b) /\ Goto(r, "done")
    BY <1>3 DEF Pay
  <2>3. objects[r][1].user \in Users
    BY <1>0, <1>1, <1>3 DEF Pay, At, ReadsOneAccount
  <2> HIDE DEF b
  <2>4. \A u \in Users : row'[u].balance >= 0
    BY <1>0, <2>1, <2>2, <2>3, SaveBalanceTypes
  <2> QED BY <2>2, <2>4, WriteStaysSolvent
<1>4. ASSUME NEW r \in Requests, FinishRefund(r) PROVE Solvent'
  <2> DEFINE u == objects[r][1].user  amount == job[r].amount  old == objects[r][1].row
             new == [old EXCEPT !.balance = @ + amount]
  <2>1. u \in Users /\ old \in Row /\ old.balance \in Nat /\ amount \in Nat
    BY <1>0, <1>1, <1>4 DEF FinishRefund, At, ReadsOneAccount, TypeOK, JobTyped
  <2>2. row' = [row EXCEPT ![u] = new] /\ Goto(r, "done")
    BY <1>4 DEF FinishRefund
  <2>3. new.balance >= 0
    BY <2>1 DEF Row
  <2> HIDE DEF u, new
  <2>4. \A v \in Users : row'[v].balance >= 0
    BY <1>0, <2>1, <2>2, <2>3
  <2> QED BY <2>2, <2>4, WriteStaysSolvent
<1>5. ASSUME NEW r \in Requests, CustomerUpdate(r) PROVE Solvent'
  <2> DEFINE u == objects[r][1].user  old == objects[r][1].row
             n == IF job[r].balance = 0 THEN old.balance ELSE job[r].balance
             new == [old EXCEPT !.balance = n]
  <2>1. u \in Users /\ old \in Row /\ old.balance \in Nat /\ job[r].balance \in Nat
    BY <1>0, <1>1, <1>5 DEF CustomerUpdate, At, ReadsOneAccount, TypeOK, JobTyped
  <2>2. row' = [row EXCEPT ![u] = new] /\ Goto(r, "done")
    BY <1>5 DEF CustomerUpdate
  <2>3. new.balance >= 0
    BY <2>1 DEF Row
  <2> HIDE DEF u, new
  <2>4. \A v \in Users : row'[v].balance >= 0
    BY <1>0, <2>1, <2>2, <2>3
  <2> QED BY <2>2, <2>4, WriteStaysSolvent
<1>6. ASSUME NEW r \in Requests, BalanceUpdate(r) PROVE Solvent'
  <2>1. objects[r][1].user \in Users /\ job[r].balance \in Nat
    BY <1>0, <1>1, <1>6 DEF BalanceUpdate, At, ReadsOneAccount, TypeOK, JobTyped
  <2>2. SaveBalance(objects[r][1].user, job[r].balance) /\ Goto(r, "done")
    BY <1>6 DEF BalanceUpdate
  <2>3. \A u \in Users : row'[u].balance >= 0
    BY <1>0, <2>1, <2>2, SaveBalanceTypes
  <2> QED BY <2>2, <2>3, WriteStaysSolvent
<1>7. ASSUME NEW r \in Requests, UpdateUserDetails(r) PROVE Solvent'
  <2> DEFINE o == objects[r][1]
  <2>1. o \in Object /\ o.row.balance \in Nat
    BY <1>0, <1>1, <1>7 DEF UpdateUserDetails, At, ReadsOneAccount
  <2>2. row' = [row EXCEPT ![o.user] = SavedLogin(o)] /\ Goto(r, "done")
    BY <1>7 DEF UpdateUserDetails
  <2> HIDE DEF o
  <2>3. SavedLogin(o).balance >= 0
    BY <2>1, LoginStaysSolvent
  <2>4. \A u \in Users : row'[u].balance >= 0
    BY <1>0, <2>2, <2>3
  <2> QED BY <2>2, <2>4, WriteStaysSolvent
<1>8. ASSUME NEW r \in Requests, CommitSignUp(r) PROVE Solvent'
  <2> DEFINE o == objects[r][1]  u == o.user  inviter == job[r].inviter
             first == IF u \in registered THEN SavedLogin(o) ELSE LoggedIn(o.row)
  <2>1. /\ o \in Object /\ row'[u] = first
        /\ \A v \in Users \ {u} : v # inviter => row'[v] = row[v]
        /\ inviter # u => row'[inviter].balance = objects[r][2].row.balance + Invitation
    BY <1>8, CommitWrites
  <2>2. /\ objects[r] \in Seq(Object) /\ (inviter # u => Len(objects[r]) = 2)
        /\ Len(objects[r]) >= 1 /\ Goto(r, "done")
    BY <1>8, CommitWrites DEF CommitSignUp, At, TypeOK, HasRead
  <2>3. o.row.balance \in Nat /\ (inviter # u => objects[r][2].row.balance \in Nat)
    BY <1>0, <2>2
  <2>4. SavedLogin(o).balance >= 0 /\ LoggedIn(o.row).balance >= 0
    BY <2>1, <2>3, LoginStaysSolvent
  <2>5. Invitation \in Nat
    BY CoinModel
  <2>6. first.balance >= 0
    BY <2>4
  <2> HIDE DEF first, o, u, inviter
  <2>7. \A v \in Users : row'[v].balance >= 0
    BY <1>0, <2>1, <2>3, <2>5, <2>6
  <2> QED BY <2>2, <2>7, WriteStaysSolvent
<1>9. ASSUME NEW r \in Requests, GetOrCreate(r) PROVE Solvent'
  <2> DEFINE u == job[r].user  inviter == job[r].inviter
             o == [user |-> u, row |-> IF u \in registered THEN row[u] ELSE NewRow]
             os == <<o>> \o IF inviter = u THEN <<>> ELSE <<Copy(inviter)>>
  <2>1. /\ objects' = [objects EXCEPT ![r] = os] /\ row' = row /\ job' = job
        /\ job[r].kind = "signUp" /\ step' = [step EXCEPT ![r] = "inserted"]
    BY <1>9 DEF GetOrCreate, accounts, At
  <2>2. u \in Users /\ inviter \in Users
    BY <2>1 DEF TypeOK, JobTyped
  <2>3. o.row.balance >= 0 /\ Copy(inviter).row.balance >= 0
    <3>1. NewRow.balance \in Nat
      BY <1>0, NewRowTypes, CoinModel
    <3> QED BY <1>0, <2>2, <3>1 DEF Copy
  <2> HIDE DEF o
  <2>4. \A i \in DOMAIN os : os[i].row.balance >= 0
    <3>1. CASE inviter = u
      BY <2>3, <3>1
    <3>2. CASE inviter # u
      BY <2>3, <3>2
    <3> QED BY <3>1, <3>2
  <2> HIDE DEF os
  <2>5. ~At(r, "confirm", "payable")' /\ \A q \in Requests \ {r} : step'[q] = step[q]
    BY <2>1 DEF At, TypeOK
  <2> QED BY <2>1, <2>4, <2>5, ReadStaysSolvent
<1>10. ASSUME NEW r \in Requests, Proceed(r) PROVE Solvent'
  <2>1. job[r].kind \notin Donating
    BY DEF TypeOK, JobTyped
  <2>2. ~ ( SaveDonation(r) \/ ReadDonator(r) \/ GrantDonation(r) \/ SaveUpdate(r)
            \/ BulkReadDonator(r) \/ BulkSaveDonations(r) \/ BulkSaveUsers(r) )
    BY <2>1 DEF SaveDonation, ReadDonator, GrantDonation, SaveUpdate,
           BulkReadDonator, BulkSaveDonations, BulkSaveUsers, At
  <2> QED BY <1>2, <1>3, <1>4, <1>5, <1>6, <1>7, <1>8, <1>9, <1>10, <2>2 DEF Proceed
<1>11. ASSUME NEW r \in Requests, Crash(r) PROVE Solvent'
  BY <1>11, WriteStaysSolvent DEF Crash, accounts, Solvent
<1>12. ASSUME UNCHANGED requests, \A u \in Users : row'[u].balance >= 0 PROVE Solvent'
  BY <1>12 DEF requests, Solvent, At
<1>13. ASSUME NEW u \in Users, UpdateContinuousDays(u) PROVE Solvent'
  <2>1. row' = [row EXCEPT ![u] = LoggedIn(@)] /\ UNCHANGED requests
    BY <1>13 DEF UpdateContinuousDays
  <2>2. Copy(u) \in Object /\ Copy(u).row = row[u]
    BY <1>0, CopyIsObject DEF Copy
  <2>3. LoggedIn(row[u]).balance >= 0
    BY <1>0, <2>2, LoginStaysSolvent
  <2> QED BY <1>0, <1>12, <2>1, <2>3
<1>14. CASE UNCHANGED <<row, requests>>
  BY <1>0, <1>12, <1>14
<1> QED BY <1>10, <1>11, <1>13, <1>14, BeginStaysSolvent
        DEF Next, NextDay, DonationCreate, accounts, vars

(* Without donations no order of payments, refunds, logins and corrections *)
(* drives a balance below zero, though no payment locks the row it takes   *)
(* coins from: the balance that order_confirm.py compares is the one that  *)
(* is written back.                                                        *)
THEOREM NobodyGetsIntoDebt == Spec => []NeverInDebt
<1> DEFINE Inv == TypeOK /\ (Kinds \cap Donating = {} => Solvent)
<1>1. Init => Inv
  <2> SUFFICES ASSUME Init PROVE Inv
    OBVIOUS
  <2>1. Opening + Bonuses[1] \in Nat
    BY NewRowTypes, CoinModel
  <2>2. Solvent
    BY <2>1 DEF Init, Solvent, At, Idle
  <2> QED BY <2>2, InitTypes
<1>2. Inv /\ [Next]_vars => Inv'
  BY StepTypes, StepStaysSolvent
<1>3. Inv => NeverInDebt
  BY DEF Solvent, NeverInDebt
<1> QED BY <1>1, <1>2, <1>3, PTL DEF Spec

-----------------------------------------------------------------------------
(* One bonus a day.                                                        *)

(* An account that got a bonus today carries the date of today.            *)
BonusDatesTheRow == \A u \in registered : bonuses[u] > 0 => row[u].last_login = today

(* What a step may do to the dates and the counts of bonuses: nothing, or  *)
(* date the row today.                                                     *)
Dated(u) ==
  \/ row'[u].last_login = row[u].last_login /\ bonuses'[u] = bonuses[u]
  \/ row'[u].last_login = today

LEMMA StepDates ==
  ASSUME TypeOK, [Next]_vars, ~NextDay, Kinds \cap SaveEverything = {}, NEW v \in Users
  PROVE  /\ today' = today /\ Dated(v)
         /\ v \in registered' \ registered => row'[v].last_login = today
<1> USE DEF ReadsOneAccount
<1>0. /\ row \in [Users -> Row] /\ bonuses \in [Users -> Nat] /\ today \in Nat
  BY TableTypes DEF TypeOK, TablesTyped
<1>1. CASE UNCHANGED <<row, bonuses, today, registered>>
  BY <1>1 DEF Dated
<1>2. ASSUME NEW u \in Users, NEW b \in Int, SaveBalance(u, b),
             UNCHANGED <<registered, bonuses, today>>
      PROVE  today' = today /\ registered' = registered /\ Dated(v)
  <2>1. row'[v].last_login = row[v].last_login
    BY <1>0, <1>2, SaveBalanceTypes
  <2> QED BY <1>2, <2>1 DEF Dated
<1>3. ASSUME NEW r \in Requests, job[r].kind \in ReadsOneAccount \/ At(r, "donationComplete", "donator")
      PROVE  /\ objects[r][1] \in Object /\ objects[r][1].user \in Users
             /\ objects[r][1].row.balance \in Int
  <2>1. objects[r] \in Seq(Object) /\ Len(objects[r]) = 1
    BY <1>3 DEF TypeOK, HasRead
  <2> QED BY <2>1, ObjectTypes
<1>4. ASSUME NEW r \in Requests, Pay(r) PROVE today' = today /\ registered' = registered /\ Dated(v)
  <2>1. Total[job[r].order] \in Nat
    BY <1>4, CoinModel DEF Pay, At, TypeOK, JobTyped
  <2> DEFINE b == objects[r][1].row.balance - Total[job[r].order]
  <2>2. b \in Int /\ objects[r][1].user \in Users
    BY <1>3, <1>4, <2>1 DEF Pay, At
  <2>3. SaveBalance(objects[r][1].user, b) /\ UNCHANGED <<registered, bonuses, today>>
    BY <1>4 DEF Pay
  <2> HIDE DEF b
  <2> QED BY <1>2, <2>2, <2>3
<1>5. ASSUME NEW r \in Requests, GrantDonation(r)
      PROVE  today' = today /\ registered' = registered /\ Dated(v)
  <2> DEFINE b == objects[r][1].row.balance + JobWorth(job[r], 1)
  <2>1. JobWorth(job[r], 1) \in Int
    <3>1. job[r].kind \in Donating /\ 1 \in DOMAIN job[r].donations
      BY <1>5 DEF GrantDonation, At, TypeOK, JobTyped, Donating
    <3> QED BY <3>1, JobWorthTypes
  <2>2. b \in Int /\ objects[r][1].user \in Users
    BY <1>3, <1>5, <2>1 DEF GrantDonation
  <2>3. SaveBalance(objects[r][1].user, b) /\ UNCHANGED <<registered, bonuses, today>>
    BY <1>5 DEF GrantDonation
  <2> HIDE DEF b
  <2> QED BY <1>2, <2>2, <2>3
<1>6. ASSUME NEW r \in Requests, BulkSaveUsers(r)
      PROVE  today' = today /\ registered' = registered /\ Dated(v)
  BY <1>6, BulkWrites DEF BulkSaveUsers, Dated
<1>7. ASSUME NEW r \in Requests, BalanceUpdate(r)
      PROVE  today' = today /\ registered' = registered /\ Dated(v)
  <2>1. job[r].balance \in Int /\ objects[r][1].user \in Users
    BY <1>3, <1>7 DEF BalanceUpdate, At, TypeOK, JobTyped
  <2>2. SaveBalance(objects[r][1].user, job[r].balance) /\ UNCHANGED <<registered, bonuses, today>>
    BY <1>7 DEF BalanceUpdate
  <2> QED BY <1>2, <2>1, <2>2
<1>8. ASSUME NEW r \in Requests PROVE ~FinishRefund(r) /\ ~CustomerUpdate(r)
  BY DEF TypeOK, JobTyped, FinishRefund, CustomerUpdate, At, SaveEverything
<1>9. ASSUME NEW u \in Users, UpdateContinuousDays(u)
      PROVE  today' = today /\ registered' = registered /\ Dated(v)
  <2>1. LoggedIn(row[u]).last_login = today
    BY <1>0, LoggedInTypes
  <2>2. /\ row' = [row EXCEPT ![u] = LoggedIn(@)] /\ UNCHANGED <<registered, today>>
        /\ bonuses' = [bonuses EXCEPT ![u] = @ + IF Days(row[u]) >= 1 THEN 1 ELSE 0]
    BY <1>9 DEF UpdateContinuousDays, Bonused
  <2>3. CASE v = u
    BY <1>0, <2>1, <2>2, <2>3 DEF Dated
  <2>4. CASE v # u
    BY <1>0, <2>2, <2>4 DEF Dated
  <2> QED BY <2>2, <2>3, <2>4
<1>10. ASSUME NEW r \in Requests, UpdateUserDetails(r)
       PROVE  today' = today /\ registered' = registered /\ Dated(v)
  <2> DEFINE o == objects[r][1]
  <2>1. SavedLogin(o).last_login = today
    BY <1>0, <1>3, <1>10, SavedLoginTypes DEF UpdateUserDetails, At
  <2>2. /\ row' = [row EXCEPT ![o.user] = SavedLogin(o)] /\ UNCHANGED <<registered, today>>
        /\ bonuses' = [bonuses EXCEPT ![o.user] = @ + IF Days(o.row) >= 1 THEN 1 ELSE 0]
    BY <1>10 DEF UpdateUserDetails, Bonused
  <2>3. CASE v = o.user
    BY <1>0, <2>1, <2>2, <2>3 DEF Dated
  <2>4. CASE v # o.user
    BY <1>0, <2>2, <2>4 DEF Dated
  <2> QED BY <2>2, <2>3, <2>4
<1>11. ASSUME NEW r \in Requests, CommitSignUp(r)
       PROVE  /\ today' = today /\ Dated(v)
              /\ v \in registered' \ registered => row'[v].last_login = today
  <2> DEFINE u == objects[r][1].user
  <2>1. /\ row'[u].last_login = today
        /\ \A w \in Users \ {u} : row'[w].last_login = row[w].last_login /\ bonuses'[w] = bonuses[w]
    BY <1>11, CommitWrites
  <2>2. today' = today /\ registered' = registered \cup {u}
    BY <1>11 DEF CommitSignUp
  <2> QED BY <2>1, <2>2 DEF Dated
<1>12. ASSUME NEW r \in Requests, Proceed(r)
       PROVE  /\ today' = today /\ Dated(v)
              /\ v \in registered' \ registered => row'[v].last_login = today
  <2>1. SaveConfirmed(r) \/ SaveDonation(r) \/ ReadDonator(r) \/ SaveUpdate(r)
        \/ BulkReadDonator(r) \/ BulkSaveDonations(r) \/ GetOrCreate(r)
        => UNCHANGED <<row, bonuses, today, registered>>
    BY DEF SaveConfirmed, SaveDonation, ReadDonator, SaveUpdate, BulkReadDonator,
           BulkSaveDonations, GetOrCreate, accounts
  <2> QED BY <1>1, <1>4, <1>5, <1>6, <1>7, <1>8, <1>10, <1>11, <1>12, <2>1 DEF Proceed
<1>13. ASSUME NEW r \in Requests, Begin(r) \/ Crash(r)
       PROVE  UNCHANGED <<row, bonuses, today, registered>>
  BY <1>13 DEF Begin, Crash, OrderConfirm, Refund, DonationComplete, DonationUpdate,
         DonationBulkComplete, ReadAccount, SignIn, SignUp, accounts
<1>14. ASSUME NEW d \in Donations, DonationCreate(d)
       PROVE  UNCHANGED <<row, bonuses, today, registered>>
  BY <1>14 DEF DonationCreate, accounts
<1>15. UNCHANGED vars => UNCHANGED <<row, bonuses, today, registered>>
  BY DEF vars, accounts
<1> QED BY <1>1, <1>9, <1>12, <1>13, <1>14, <1>15 DEF Next

LEMMA BonusesStayDated ==
  ASSUME TypeOK, BonusDatesTheRow, [Next]_vars, Kinds \cap SaveEverything = {}
  PROVE  BonusDatesTheRow'
<1>1. /\ registered \subseteq Users /\ registered' \subseteq Users
      /\ bonuses \in [Users -> Nat] /\ today \in Nat
  BY StepTypes, TableTypes DEF TypeOK, TablesTyped
<1>2. CASE NextDay
  BY <1>1, <1>2 DEF NextDay, BonusDatesTheRow
<1>3. CASE ~NextDay
  <2> SUFFICES ASSUME NEW v \in registered', bonuses'[v] > 0 PROVE row'[v].last_login = today'
    BY DEF BonusDatesTheRow
  <2>1. /\ today' = today /\ Dated(v)
        /\ v \in registered' \ registered => row'[v].last_login = today
    BY <1>1, <1>3, StepDates
  <2> QED BY <2>1 DEF Dated, BonusDatesTheRow
<1> QED BY <1>2, <1>3

Raced(u) ==
  \E r \in Requests : Moves(r) /\
    \/ job[r].kind = "signIn" /\ objects[r][1].row.last_login < row[u].last_login
    \/ job[r].kind = "signUp" /\ job[r].user = u

LEMMA SecondBonus ==
  ASSUME TypeOK, BonusDatesTheRow, [Next]_vars, NEW v \in registered,
         bonuses'[v] > bonuses[v], bonuses[v] > 0
  PROVE  Raced(v)
<1>0. /\ v \in Users /\ row \in [Users -> Row] /\ bonuses \in [Users -> Nat] /\ today \in Nat
      /\ row[v].last_login = today
  BY TableTypes DEF TypeOK, TablesTyped, BonusDatesTheRow
<1>1. bonuses' # bonuses
  BY <1>0
<1>2. ASSUME NEW u \in Users, UpdateContinuousDays(u) PROVE Raced(v)
  <2>1. bonuses' = [bonuses EXCEPT ![u] = @ + IF Days(row[u]) >= 1 THEN 1 ELSE 0]
    BY <1>2 DEF UpdateContinuousDays, Bonused
  <2>2. u = v /\ Days(row[u]) >= 1
    BY <1>0, <2>1
  <2> QED BY <1>0, <2>2 DEF Days
<1>3. ASSUME NEW r \in Requests, UpdateUserDetails(r) PROVE Raced(v)
  <2> DEFINE o == objects[r][1]
  <2>1. /\ bonuses' = [bonuses EXCEPT ![o.user] = @ + IF Days(o.row) >= 1 THEN 1 ELSE 0]
        /\ job[r].kind = "signIn" /\ Moves(r)
    BY <1>3, GotoMoves DEF UpdateUserDetails, Bonused, At
  <2>2. o \in Object
    <3>1. objects[r] \in Seq(Object) /\ Len(objects[r]) = 1
      BY <2>1 DEF TypeOK, HasRead, ReadsOneAccount
    <3> QED BY <3>1
  <2>3. Days(o.row) >= 1
    BY <1>0, <2>1
  <2>4. o.row.last_login \in Nat
    BY <2>2, ObjectTypes
  <2>5. o.row.last_login < row[v].last_login
    BY <1>0, <2>3, <2>4 DEF Days
  <2> QED BY <2>1, <2>5 DEF Raced
<1>4. ASSUME NEW r \in Requests, CommitSignUp(r) PROVE Raced(v)
  <2>1. /\ objects[r][1].user = job[r].user
        /\ \A w \in Users \ {objects[r][1].user} : bonuses'[w] = bonuses[w]
    BY <1>4, CommitWrites
  <2>2. v = job[r].user
    BY <1>0, <2>1
  <2>3. Moves(r) /\ job[r].kind = "signUp"
    BY <1>4, GotoMoves DEF CommitSignUp, At
  <2> QED BY <2>2, <2>3 DEF Raced
<1>5. CASE NextDay
  BY <1>0, <1>5 DEF NextDay
<1>6. ASSUME NEW r \in Requests, Begin(r) \/ Crash(r) PROVE bonuses' = bonuses
  BY <1>6 DEF Begin, Crash, OrderConfirm, Refund, DonationComplete, DonationUpdate,
         DonationBulkComplete, ReadAccount, SignIn, SignUp, accounts
<1>7. ASSUME NEW r \in Requests, Proceed(r) PROVE Raced(v)
  <2>1. UpdateUserDetails(r) \/ CommitSignUp(r)
    BY <1>1, <1>7 DEF Proceed, SaveConfirmed, Pay, FinishRefund, SaveDonation, ReadDonator,
       GrantDonation, SaveUpdate, BulkReadDonator, BulkSaveDonations, BulkSaveUsers,
       CustomerUpdate, BalanceUpdate, GetOrCreate, accounts
  <2> QED BY <1>3, <1>4, <2>1
<1>8. ASSUME NEW d \in Donations, DonationCreate(d) PROVE bonuses' = bonuses
  BY <1>8 DEF DonationCreate, accounts
<1>9. UNCHANGED vars => bonuses' = bonuses
  BY DEF vars, accounts
<1> QED BY <1>1, <1>2, <1>5, <1>6, <1>7, <1>8, <1>9 DEF Next

(* A second bonus on one day goes to a login that read its account before  *)
(* the first one was written, in the path without a lock, or to an account *)
(* that is created twice; the path with the lock never gives one           *)
(* (_update_continuous_days, update_continuous_days).                      *)
THEOREM BonusesAreGivenOnce == Spec => SecondBonusIsRaced
<1> DEFINE Inv == TypeOK /\ (Kinds \cap SaveEverything = {} => BonusDatesTheRow)
<1>1. Init => Inv
  <2>1. Init => BonusDatesTheRow
    BY CoinModel DEF Init, BonusDatesTheRow
  <2> QED BY <2>1, InitTypes
<1>2. Inv /\ [Next]_vars => Inv'
  BY StepTypes, BonusesStayDated
<1>3. Inv /\ [Next]_vars =>
        [Kinds \cap SaveEverything = {} => \A u \in registered :
           bonuses'[u] > bonuses[u] /\ bonuses[u] > 0 =>
             \E r \in Requests : Moves(r) /\
               \/ job[r].kind = "signIn" /\ objects[r][1].row.last_login < row[u].last_login
               \/ job[r].kind = "signUp" /\ job[r].user = u]_vars
  BY SecondBonus DEF Raced
<1> QED BY <1>1, <1>2, <1>3, PTL DEF Spec, SecondBonusIsRaced

-----------------------------------------------------------------------------
(* A donation is granted once.                                             *)

Granting == {"donationComplete", "donationBulkComplete"}
Owing == {"saved", "donator", "crashed"}
Completed(s) == IF s = "completed" THEN 1 ELSE 0

(* What the request asked for by j owes the donation d: one grant, one     *)
(* rejection or nothing.                                                   *)
Place(j, d) == CHOOSE i \in DOMAIN j.donations : j.donations[i] = d
WorthFor(j, d) ==
  IF j.kind \in Granting /\ \E i \in DOMAIN j.donations : j.donations[i] = d
  THEN Sign(JobWorth(j, Place(j, d))) ELSE 0

(* A request that has saved the status owes it until it moves the coins,   *)
(* and for ever if it dies in between.                                     *)
Unpaid(r, d) == IF step[r] \in Owing THEN WorthFor(job[r], d) ELSE 0

(* The grants given and those still owed are what the status is worth.     *)
Balanced(d) ==
  granted[d] + NetSum([r \in Requests |-> Unpaid(r, d)], Requests) = Completed(status[d])
GrantsAddUp == \A d \in Donations \ disputed : Balanced(d)
GrantingSteps == \A r \in Requests :
  job[r].kind \in Granting => step[r] \in {"read", "done"} \cup Owing

LEMMA PlaceOf ==
  ASSUME NEW j, NEW d, \E i \in DOMAIN j.donations : j.donations[i] = d
  PROVE  Place(j, d) \in DOMAIN j.donations /\ j.donations[Place(j, d)] = d
BY DEF Place

LEMMA WorthForTypes ==
  ASSUME NEW j, JobTyped(j), NEW d
  PROVE  WorthFor(j, d) \in Int
<1>1. CASE j.kind \in Granting /\ \E i \in DOMAIN j.donations : j.donations[i] = d
  <2>1. Place(j, d) \in DOMAIN j.donations
    BY <1>1, PlaceOf
  <2>2. j.donations[Place(j, d)] \in Donations /\ j.accepted \in BOOLEAN
    BY <1>1, <2>1 DEF JobTyped, Granting, Donating
  <2>3. JobWorth(j, Place(j, d)) \in Int
    BY <2>2, WorthTypes DEF JobWorth
  <2>4. Sign(JobWorth(j, Place(j, d))) \in -1..1
    BY <2>3, SignTypes
  <2> QED BY <1>1, <2>4 DEF WorthFor
<1>2. CASE ~(j.kind \in Granting /\ \E i \in DOMAIN j.donations : j.donations[i] = d)
  BY <1>2 DEF WorthFor
<1> QED BY <1>1, <1>2

(* One request takes a step: only its own part of the sum changes.         *)
LEMMA OneRequestSettles ==
  ASSUME TypeOK, TypeOK', NEW r \in Requests, NEW d \in Donations, Balanced(d),
         \A q \in Requests \ {r} : step'[q] = step[q] /\ job'[q] = job[q],
         granted'[d] + Unpaid(r, d)' - Completed(status'[d])
           = granted[d] + Unpaid(r, d) - Completed(status[d])
  PROVE  Balanced(d)'
<1> DEFINE f == [q \in Requests |-> Unpaid(q, d)]
           g == [q \in Requests |-> Unpaid(q, d)']
<1>1. f \in [Requests -> Int]
  BY WorthForTypes DEF Unpaid, TypeOK
<1>2. g \in [Requests -> Int]
  <2>1. \A q \in Requests : JobTyped(job'[q])
    BY DEF TypeOK
  <2>2. \A q \in Requests : WorthFor(job'[q], d) \in Int
    BY <2>1, WorthForTypes
  <2> QED BY <2>2 DEF Unpaid
<1>3. \A q \in Requests \ {r} : f[q] = g[q]
  BY DEF Unpaid
<1>4. /\ granted[d] \in Int /\ granted'[d] \in Int
      /\ Completed(status[d]) \in Int /\ Completed(status'[d]) \in Int
  BY DEF TypeOK, TablesTyped, Completed
<1>5. granted'[d] + g[r] - Completed(status'[d]) = granted[d] + f[r] - Completed(status[d])
  OBVIOUS
<1>6. granted[d] + NetSum(f, Requests) = Completed(status[d])
  BY DEF Balanced
<1>7. Balanced(d)' <=> granted'[d] + NetSum(g, Requests) = Completed(status'[d])
  BY DEF Balanced
<1>8. f[r] \in Int /\ g[r] \in Int
  BY <1>1, <1>2
<1> HIDE DEF f, g
<1>9. IsFiniteSet(Requests)
  BY CoinModel
<1>10. NetSum(g, Requests) = NetSum(f, Requests) - f[r] + g[r] /\ NetSum(f, Requests) \in Int
  BY <1>1, <1>2, <1>3, <1>9, NetSumOneChanged, NetSumIsInt
<1>11. \A a, b, c, e, m, n, x, y \in Int :
         a + n = c /\ m = n - x + y /\ b + y - e = a + x - c => b + m = e
  OBVIOUS
<1>12. granted'[d] + NetSum(g, Requests) = Completed(status'[d])
  <2>1. NetSum(g, Requests) \in Int
    BY <1>8, <1>10
  <2> QED BY ONLY <1>4, <1>5, <1>6, <1>8, <1>10, <1>11, <2>1
<1> QED BY <1>7, <1>12

(* The status that is saved, for a donation nobody has misjudged.          *)
LEMMA SavedStatus ==
  ASSUME NEW ds \in Seq(Donations), NEW previous, NEW new, SaveDonations(ds, previous, new),
         NEW d \in Donations, d \notin disputed'
  PROVE  /\ d \notin disputed
         /\ \A i \in DOMAIN ds : ds[i] = d =>
              /\ status'[d] = new
              /\ previous[i] = "completed" <=> status[d] = "completed"
         /\ (\A i \in DOMAIN ds : ds[i] # d) => status'[d] = status[d]
<1>1. /\ status' = [x \in Donations |-> IF \E i \in DOMAIN ds : ds[i] = x THEN new ELSE status[x]]
      /\ disputed' = disputed \cup
           {ds[i] : i \in {j \in DOMAIN ds :
                             (previous[j] = "completed") # (status[ds[j]] = "completed")}}
  BY DEF SaveDonations
<1>2. d \notin disputed
  BY <1>1
<1>3. status'[d] = IF \E i \in DOMAIN ds : ds[i] = d THEN new ELSE status[d]
  BY <1>1
<1>4. ASSUME NEW i \in DOMAIN ds, ds[i] = d
      PROVE  previous[i] = "completed" <=> status[d] = "completed"
  <2> SUFFICES ASSUME (previous[i] = "completed") # (status[d] = "completed") PROVE FALSE
    OBVIOUS
  <2>1. i \in {j \in DOMAIN ds : (previous[j] = "completed") # (status[ds[j]] = "completed")}
    BY <1>4
  <2>2. ds[i] \in disputed'
    BY <1>1, <2>1
  <2> QED BY <1>4, <2>2
<1> QED BY <1>2, <1>3, <1>4

(* A verdict is worth what it makes of the status.                         *)
LEMMA VerdictIsWorth ==
  ASSUME TypeOK, NEW r \in Requests, job[r].kind \in Granting, NEW d \in Donations \ disputed',
         SaveDonations(job[r].donations, job[r].previous, Verdict(job[r].accepted))
  PROVE  WorthFor(job[r], d) = Completed(status'[d]) - Completed(status[d])
<1> DEFINE ds == job[r].donations  p == Place(job[r], d)
<1>1. ds \in Seq(Donations) /\ job[r].accepted \in BOOLEAN
  BY DEF TypeOK, JobTyped, Granting, Donating
<1>2. CASE \E i \in DOMAIN ds : ds[i] = d
  <2>1. p \in DOMAIN ds /\ ds[p] = d
    BY <1>2, PlaceOf
  <2>2. /\ status'[d] = Verdict(job[r].accepted)
        /\ job[r].previous[p] = "completed" <=> status[d] = "completed"
    BY <1>1, <2>1, SavedStatus
  <2>3. WorthFor(job[r], d) = Sign(Worth(d, job[r].previous[p], job[r].accepted))
    BY <1>2, <2>1 DEF WorthFor, JobWorth
  <2>4. Sign(Worth(d, job[r].previous[p], job[r].accepted)) =
          IF job[r].accepted /\ job[r].previous[p] # "completed" THEN 1
          ELSE IF ~job[r].accepted /\ job[r].previous[p] = "completed" THEN -1 ELSE 0
    BY <1>1, WorthTypes
  <2> HIDE DEF p, ds
  <2>5. CASE job[r].accepted
    BY <2>2, <2>3, <2>4, <2>5 DEF Completed, Verdict
  <2>6. CASE ~job[r].accepted
    BY <2>2, <2>3, <2>4, <2>6 DEF Completed, Verdict
  <2> QED BY <2>5, <2>6
<1>3. CASE \A i \in DOMAIN ds : ds[i] # d
  <2>1. status'[d] = status[d]
    BY <1>1, <1>3, SavedStatus
  <2> QED BY <1>3, <2>1 DEF WorthFor, Completed
<1> QED BY <1>2, <1>3

(* A step of a request that neither saves a status nor moves the coins of  *)
(* a donation.                                                             *)
LEMMA NothingGranted ==
  ASSUME TypeOK, TypeOK', GrantsAddUp, NEW r \in Requests,
         UNCHANGED <<status, granted, disputed>>,
         \A q \in Requests \ {r} : step'[q] = step[q] /\ job'[q] = job[q],
         \A d \in Donations : Unpaid(r, d)' = Unpaid(r, d)
  PROVE  GrantsAddUp'
<1> SUFFICES ASSUME NEW d \in Donations, d \notin disputed' PROVE Balanced(d)'
  BY DEF GrantsAddUp
<1>1. Balanced(d)
  BY DEF GrantsAddUp
<1> QED BY <1>1, OneRequestSettles

LEMMA GotoUnpaid ==
  ASSUME TypeOK, NEW r \in Requests, NEW s, Goto(r, s)
  PROVE  /\ step'[r] = s /\ job' = job
         /\ \A q \in Requests \ {r} : step'[q] = step[q] /\ job'[q] = job[q]
         /\ \A d \in Donations : Unpaid(r, d)' = IF s \in Owing THEN WorthFor(job[r], d) ELSE 0
<1>1. step' = [step EXCEPT ![r] = s] /\ job' = job
  BY DEF Goto
<1>2. step'[r] = s /\ \A q \in Requests \ {r} : step'[q] = step[q]
  BY <1>1 DEF TypeOK
<1> QED BY <1>1, <1>2 DEF Unpaid

(* The coins of a single donation.                                         *)
LEMMA GrantPays ==
  ASSUME TypeOK, TypeOK', GrantsAddUp, NEW r \in Requests, GrantDonation(r)
  PROVE  GrantsAddUp'
<1> SUFFICES ASSUME NEW d \in Donations, d \notin disputed' PROVE Balanced(d)'
  BY DEF GrantsAddUp
<1> DEFINE ds == job[r].donations  worth == JobWorth(job[r], 1)
<1>1. /\ granted' = [granted EXCEPT ![ds[1]] = @ + Sign(worth)] /\ Goto(r, "done")
      /\ status' = status /\ disputed' = disputed /\ step[r] = "donator"
      /\ job[r].kind = "donationComplete"
  BY DEF GrantDonation, At
<1>2. /\ ds \in Seq(Donations) /\ Len(ds) = 1 /\ worth \in Int /\ granted \in [Donations -> Int]
  <2>1. /\ ds \in Seq(Donations) /\ Len(ds) = 1 /\ granted \in [Donations -> Int]
        /\ job[r].kind \in Donating
    BY <1>1 DEF TypeOK, TablesTyped, JobTyped, Donating
  <2>2. 1 \in DOMAIN job[r].donations
    BY <2>1
  <2>3. JobWorth(job[r], 1) \in Int
    BY <2>1, <2>2, JobWorthTypes
  <2> QED BY <2>1, <2>3
<1>3. /\ Unpaid(r, d)' = 0
      /\ \A q \in Requests \ {r} : step'[q] = step[q] /\ job'[q] = job[q]
  BY <1>1, GotoUnpaid DEF Owing
<1>4. Unpaid(r, d) = WorthFor(job[r], d)
  BY <1>1 DEF Unpaid, Owing
<1>5. WorthFor(job[r], d) = IF ds[1] = d THEN Sign(worth) ELSE 0
  <2>1. CASE ds[1] = d
    <3>1. Place(job[r], d) = 1 /\ \E i \in DOMAIN ds : ds[i] = d
      <4>1. \E i \in DOMAIN ds : ds[i] = d
        BY <1>2, <2>1
      <4>2. Place(job[r], d) \in DOMAIN ds
        BY <4>1, PlaceOf
      <4> QED BY <1>2, <4>1, <4>2
    <3> QED BY <1>1, <2>1, <3>1 DEF WorthFor, Granting
  <2>2. CASE ds[1] # d
    <3>1. \A i \in DOMAIN ds : ds[i] # d
      BY <1>2, <2>2
    <3> QED BY <2>2, <3>1 DEF WorthFor
  <2> QED BY <2>1, <2>2
<1>6. Sign(worth) \in Int
  BY <1>2, SignTypes
<1> HIDE DEF worth
<1>7. granted'[d] = granted[d] + IF ds[1] = d THEN Sign(worth) ELSE 0
  BY <1>1, <1>2, <1>6
<1>8. granted'[d] + 0 - Completed(status'[d])
        = granted[d] + (IF ds[1] = d THEN Sign(worth) ELSE 0) - Completed(status[d])
  BY <1>1, <1>2, <1>6, <1>7 DEF Completed
<1>9. Balanced(d)
  BY <1>1 DEF GrantsAddUp
<1> QED BY <1>3, <1>4, <1>5, <1>8, <1>9, OneRequestSettles

(* The coins of a batch.                                                   *)
LEMMA BatchPays ==
  ASSUME TypeOK, TypeOK', GrantsAddUp, NEW r \in Requests, BulkSaveUsers(r)
  PROVE  GrantsAddUp'
<1> SUFFICES ASSUME NEW d \in Donations, d \notin disputed' PROVE Balanced(d)'
  BY DEF GrantsAddUp
<1>1. /\ Goto(r, "done") /\ status' = status /\ disputed' = disputed /\ step[r] = "saved"
      /\ job[r].kind = "donationBulkComplete"
  BY DEF BulkSaveUsers, At
<1>2. granted' = [x \in Donations |-> granted[x] + WorthFor(job[r], x)]
  <2> DEFINE has(x) == \E i \in DOMAIN job[r].donations : job[r].donations[i] = x
  <2>1. granted' = [x \in Donations |-> granted[x] +
          IF has(x) THEN Sign(JobWorth(job[r], Place(job[r], x))) ELSE 0]
    BY DEF BulkSaveUsers, Place
  <2>2. \A x \in Donations :
          WorthFor(job[r], x) = IF has(x) THEN Sign(JobWorth(job[r], Place(job[r], x))) ELSE 0
    BY <1>1 DEF WorthFor, Granting
  <2> HIDE DEF has
  <2> QED BY <2>1, <2>2
<1>3. /\ Unpaid(r, d)' = 0
      /\ \A q \in Requests \ {r} : step'[q] = step[q] /\ job'[q] = job[q]
  BY <1>1, GotoUnpaid DEF Owing
<1>4. Unpaid(r, d) = WorthFor(job[r], d)
  BY <1>1 DEF Unpaid, Owing
<1>5. granted[d] \in Int /\ WorthFor(job[r], d) \in Int
  BY WorthForTypes DEF TypeOK, TablesTyped
<1>6. granted'[d] + 0 - Completed(status'[d])
        = granted[d] + WorthFor(job[r], d) - Completed(status[d])
  BY <1>1, <1>2, <1>5 DEF Completed
<1>7. Balanced(d)
  BY <1>1 DEF GrantsAddUp
<1> QED BY <1>3, <1>4, <1>6, <1>7, OneRequestSettles

(* A verdict that is saved is owed from then on.                           *)
LEMMA VerdictOwes ==
  ASSUME TypeOK, TypeOK', GrantsAddUp, NEW r \in Requests, SaveDonation(r) \/ BulkSaveDonations(r)
  PROVE  GrantsAddUp'
<1> SUFFICES ASSUME NEW d \in Donations, d \notin disputed' PROVE Balanced(d)'
  BY DEF GrantsAddUp
<1>1. /\ SaveDonations(job[r].donations, job[r].previous, Verdict(job[r].accepted))
      /\ granted' = granted /\ step[r] = "read" /\ job[r].kind \in Granting
  BY DEF SaveDonation, BulkSaveDonations, At, Granting
<1>2. WorthFor(job[r], d) = Completed(status'[d]) - Completed(status[d])
  BY <1>1, VerdictIsWorth
<1>3. Unpaid(r, d) = 0
  BY <1>1 DEF Unpaid, Owing
<1>4. /\ Unpaid(r, d)' = WorthFor(job[r], d)
      /\ \A q \in Requests \ {r} : step'[q] = step[q] /\ job'[q] = job[q]
  <2>1. CASE BulkSaveDonations(r) \/ (SaveDonation(r) /\ JobWorth(job[r], 1) # 0)
    <3>1. Goto(r, "saved")
      BY <2>1 DEF BulkSaveDonations, SaveDonation
    <3> QED BY <3>1, GotoUnpaid DEF Owing
  <2>2. CASE SaveDonation(r) /\ JobWorth(job[r], 1) = 0
    <3>1. Goto(r, "done") /\ job[r].kind = "donationComplete"
      BY <2>2 DEF SaveDonation, At
    <3>2. WorthFor(job[r], d) = 0
      <4>1. job[r].donations \in Seq(Donations) /\ Len(job[r].donations) = 1
        BY <3>1 DEF TypeOK, JobTyped, Donating
      <4>2. CASE \E i \in DOMAIN job[r].donations : job[r].donations[i] = d
        <5>1. Place(job[r], d) \in DOMAIN job[r].donations
          BY <4>2, PlaceOf
        <5>2. Place(job[r], d) = 1
          BY <4>1, <5>1
        <5> QED BY <2>2, <5>2 DEF WorthFor, Sign
      <4>3. CASE ~\E i \in DOMAIN job[r].donations : job[r].donations[i] = d
        BY <4>3 DEF WorthFor
      <4> QED BY <4>2, <4>3
    <3> QED BY <3>1, <3>2, GotoUnpaid DEF Owing
  <2> QED BY <2>1, <2>2
<1>5. granted[d] \in Int
  BY DEF TypeOK, TablesTyped
<1>6. d \notin disputed
  BY <1>1 DEF SaveDonations
<1>7. Balanced(d)
  BY <1>6 DEF GrantsAddUp
<1>8. /\ Completed(status[d]) \in Int /\ Completed(status'[d]) \in Int
  BY DEF Completed
<1>9. granted'[d] + WorthFor(job[r], d) - Completed(status'[d])
        = granted[d] + 0 - Completed(status[d])
  BY <1>1, <1>2, <1>5, <1>8
<1> QED BY <1>3, <1>4, <1>7, <1>9, OneRequestSettles

LEMMA StepGrants ==
  ASSUME TypeOK, GrantsAddUp, GrantingSteps, [Next]_vars
  PROVE  GrantsAddUp' /\ GrantingSteps'
<1>0. TypeOK'
  BY StepTypes
<1>1. ASSUME NEW r \in Requests, NEW s, Goto(r, s), s \in {"done"} \cup Owing \/ job[r].kind \notin Granting
      PROVE  GrantingSteps'
  BY <1>1, GotoUnpaid DEF GrantingSteps
<1>2. ASSUME NEW r \in Requests, NEW s, Goto(r, s), UNCHANGED goods,
             job[r].kind \notin Granting \/ (step[r] = "read" /\ s = "done")
      PROVE  GrantsAddUp' /\ GrantingSteps'
  <2>1. \A d \in Donations : Unpaid(r, d) = 0 /\ Unpaid(r, d)' = 0
    BY <1>2, GotoUnpaid DEF Unpaid, Owing, WorthFor
  <2>2. GrantsAddUp'
    BY <1>0, <1>2, <2>1, NothingGranted, GotoUnpaid DEF goods
  <2> QED BY <1>1, <1>2, <2>2
<1>3. ASSUME NEW r \in Requests, UNCHANGED <<goods, job>>,
             DOMAIN step' = Requests, step[r] = "read", step'[r] \notin Owing,
             \A q \in Requests \ {r} : step'[q] = step[q],
             job[r].kind \in Granting => step'[r] = "read"
      PROVE  GrantsAddUp' /\ GrantingSteps'
  <2>1. \A d \in Donations : Unpaid(r, d) = 0 /\ Unpaid(r, d)' = 0
    BY <1>3 DEF Unpaid, Owing
  <2>2. GrantsAddUp'
    BY <1>0, <1>3, <2>1, NothingGranted DEF goods
  <2> QED BY <1>3, <2>2 DEF GrantingSteps
<1>4. ASSUME NEW r \in Requests, Begin(r) PROVE GrantsAddUp' /\ GrantingSteps'
  <2>1. /\ \E j, os : Start(r, j, os)
        /\ UNCHANGED goods
    BY <1>4 DEF Begin, OrderConfirm, Refund, DonationComplete, DonationUpdate,
       DonationBulkComplete, ReadAccount, SignIn, SignUp
  <2>2. /\ step[r] = "idle" /\ step'[r] = "read"
        /\ \A q \in Requests \ {r} : step'[q] = step[q] /\ job'[q] = job[q]
    BY <2>1 DEF Start, TypeOK
  <2>3. \A d \in Donations : Unpaid(r, d) = 0 /\ Unpaid(r, d)' = 0
    BY <2>2 DEF Unpaid, Owing
  <2>4. GrantsAddUp'
    BY <1>0, <2>1, <2>2, <2>3, NothingGranted DEF goods
  <2> QED BY <2>2, <2>4 DEF GrantingSteps
<1>5. ASSUME NEW r \in Requests, Crash(r) PROVE GrantsAddUp' /\ GrantingSteps'
  <2>1. PICK s \in {"done", "crashed"} : Goto(r, s) /\ UNCHANGED goods
    BY <1>5 DEF Crash
  <2>2. CASE job[r].kind \notin Granting \/ step[r] = "read"
    <3>1. Goto(r, "done")
      BY <1>5, <2>2 DEF Crash, Granting
    <3> QED BY <1>2, <2>1, <2>2, <3>1
  <2>3. CASE job[r].kind \in Granting /\ step[r] # "read"
    <3>1. Goto(r, "crashed") /\ step[r] \in Owing
      BY <1>5, <2>3 DEF Crash, Granting, GrantingSteps
    <3>2. \A d \in Donations : Unpaid(r, d)' = Unpaid(r, d)
      BY <3>1, GotoUnpaid DEF Unpaid, Owing
    <3>3. GrantsAddUp'
      BY <1>0, <2>1, <3>1, <3>2, NothingGranted, GotoUnpaid DEF goods
    <3> QED BY <1>1, <3>1, <3>3 DEF Owing
  <2> QED BY <2>2, <2>3
<1>6. ASSUME NEW r \in Requests, SaveUpdate(r) PROVE GrantsAddUp' /\ GrantingSteps'
  <2>1. /\ SaveDonations(job[r].donations, job[r].previous, "unreviewed")
        /\ Goto(r, "done") /\ granted' = granted /\ job[r].kind = "donationUpdate"
    BY <1>6 DEF SaveUpdate, At
  <2>2. GrantingSteps'
    BY <1>1, <2>1
  <2> SUFFICES ASSUME NEW d \in Donations, d \notin disputed' PROVE Balanced(d)'
    BY <2>2 DEF GrantsAddUp
  <2>3. /\ job[r].donations \in Seq(Donations) /\ Len(job[r].donations) = 1
        /\ job[r].previous[1] # "completed"
    BY <2>1 DEF TypeOK, JobTyped, Donating
  <2>4. d \notin disputed /\ Completed(status'[d]) = Completed(status[d])
    <3>1. /\ d \notin disputed
          /\ \A i \in DOMAIN job[r].donations : job[r].donations[i] = d =>
               /\ status'[d] = "unreviewed"
               /\ job[r].previous[i] = "completed" <=> status[d] = "completed"
          /\ (\A i \in DOMAIN job[r].donations : job[r].donations[i] # d) => status'[d] = status[d]
      BY <2>1, <2>3, SavedStatus
    <3> QED BY <2>3, <3>1 DEF Completed
  <2>5. Unpaid(r, d) = 0 /\ Unpaid(r, d)' = 0
    BY <2>1, GotoUnpaid DEF Unpaid, WorthFor, Granting
  <2>6. Balanced(d)
    BY <2>4 DEF GrantsAddUp
  <2> QED BY <1>0, <2>1, <2>4, <2>5, <2>6, OneRequestSettles, GotoUnpaid
<1>7. ASSUME NEW r \in Requests, Proceed(r) PROVE GrantsAddUp' /\ GrantingSteps'
  <2>1. CASE SaveConfirmed(r) \/ Pay(r) \/ FinishRefund(r) \/ CustomerUpdate(r)
             \/ BalanceUpdate(r) \/ UpdateUserDetails(r) \/ CommitSignUp(r)
    <3>1. /\ \E s : Goto(r, s)
          /\ UNCHANGED goods /\ job[r].kind \notin Granting
      BY <2>1 DEF SaveConfirmed, Pay, FinishRefund, CustomerUpdate, BalanceUpdate,
         UpdateUserDetails, CommitSignUp, At, Granting
    <3> QED BY <1>2, <3>1
  <2>2. CASE BulkReadDonator(r)
    BY <1>3, <2>2 DEF BulkReadDonator, At, TypeOK, Owing
  <2>3. CASE GetOrCreate(r)
    <3>1. /\ step' = [step EXCEPT ![r] = "inserted"] /\ step[r] = "read"
          /\ UNCHANGED <<goods, job>> /\ job[r].kind \notin Granting
      BY <2>3 DEF GetOrCreate, At, Granting
    <3>2. /\ DOMAIN step' = Requests /\ step'[r] = "inserted"
          /\ \A q \in Requests \ {r} : step'[q] = step[q]
      BY <3>1 DEF TypeOK
    <3> QED BY <1>3, <3>1, <3>2 DEF Owing
  <2>4. CASE ReadDonator(r)
    <3>1. /\ step' = [step EXCEPT ![r] = "donator"] /\ step[r] = "saved"
          /\ UNCHANGED <<goods, job>>
      BY <2>4 DEF ReadDonator, At
    <3>2. /\ step'[r] = "donator" /\ \A q \in Requests \ {r} : step'[q] = step[q]
      BY <3>1 DEF TypeOK
    <3>3. \A d \in Donations : Unpaid(r, d)' = Unpaid(r, d)
      BY <3>1, <3>2 DEF Unpaid, Owing
    <3>4. GrantsAddUp'
      BY <1>0, <3>1, <3>2, <3>3, NothingGranted DEF goods
    <3> QED BY <3>1, <3>2, <3>4 DEF GrantingSteps, Owing
  <2>5. CASE SaveDonation(r) \/ BulkSaveDonations(r)
    <3>1. \E s \in {"saved", "done"} : Goto(r, s)
      BY <2>5 DEF SaveDonation, BulkSaveDonations
    <3> QED BY <1>0, <1>1, <2>5, <3>1, VerdictOwes DEF Owing
  <2>6. CASE GrantDonation(r) \/ BulkSaveUsers(r)
    <3>1. Goto(r, "done")
      BY <2>6 DEF GrantDonation, BulkSaveUsers
    <3> QED BY <1>0, <1>1, <2>6, <3>1, GrantPays, BatchPays
  <2> QED BY <1>6, <1>7, <2>1, <2>2, <2>3, <2>4, <2>5, <2>6 DEF Proceed
<1>8. ASSUME UNCHANGED <<step, job, granted, disputed>>,
             \A d \in Donations : Completed(status'[d]) = Completed(status[d])
      PROVE  GrantsAddUp' /\ GrantingSteps'
  <2>1. GrantingSteps'
    BY <1>8 DEF GrantingSteps
  <2> SUFFICES ASSUME NEW d \in Donations, d \notin disputed' PROVE Balanced(d)'
    BY <2>1 DEF GrantsAddUp
  <2>2. Balanced(d)
    BY <1>8 DEF GrantsAddUp
  <2> QED BY <1>8, <2>2 DEF Balanced, Unpaid
<1>9. ASSUME NEW d \in Donations, DonationCreate(d) PROVE GrantsAddUp' /\ GrantingSteps'
  <2>1. /\ status[d] = "absent" /\ status' = [status EXCEPT ![d] = "unreviewed"]
        /\ UNCHANGED <<step, job, granted, disputed>>
    BY <1>9 DEF DonationCreate, requests
  <2>2. \A x \in Donations : Completed(status'[x]) = Completed(status[x])
    BY <2>1 DEF TypeOK, TablesTyped, Completed
  <2> QED BY <1>8, <2>1, <2>2
<1>10. CASE UNCHANGED <<goods, requests>>
  BY <1>8, <1>10 DEF goods, requests
<1>11. ASSUME NEW u \in Users, UpdateContinuousDays(u) PROVE UNCHANGED <<goods, requests>>
  BY <1>11 DEF UpdateContinuousDays
<1> QED BY <1>4, <1>5, <1>7, <1>9, <1>10, <1>11 DEF Next, NextDay, vars

(* A donation is granted exactly while it is completed, whatever the order *)
(* of completions, rejections, updates and batches, unless a request has   *)
(* not moved the coins of a status it saved, or misjudged the status it    *)
(* had read (donation_complete.py, donation_bulk_complete.py).             *)
THEOREM DonationsAreGrantedOnce == Spec => []GrantsFollowStatus
<1> DEFINE Inv == TypeOK /\ GrantsAddUp /\ GrantingSteps
<1>1. Init => Inv
  <2> SUFFICES ASSUME Init PROVE Inv
    OBVIOUS
  <2>1. step = [r \in Requests |-> "idle"] /\ job = [r \in Requests |-> Idle]
    BY DEF Init
  <2>2. GrantingSteps
    BY <2>1 DEF GrantingSteps, Idle, Granting
  <2>3. ASSUME NEW d \in Donations PROVE Balanced(d)
    <3> DEFINE f == [r \in Requests |-> Unpaid(r, d)]
    <3>1. \A r \in Requests : f[r] = 0
      BY <2>1 DEF Unpaid, Owing
    <3>2. granted[d] = 0 /\ Completed(status[d]) = 0
      BY DEF Init, Completed
    <3>3. Balanced(d) <=> granted[d] + NetSum(f, Requests) = Completed(status[d])
      BY DEF Balanced
    <3> HIDE DEF f
    <3>4. NetSum(f, Requests) = 0
      BY <3>1, NetSumZero
    <3> QED BY <3>2, <3>3, <3>4
  <2> QED BY <2>2, <2>3, InitTypes DEF GrantsAddUp
<1>2. Inv /\ [Next]_vars => Inv'
  BY StepTypes, StepGrants
<1>3. Inv => GrantsFollowStatus
  <2> SUFFICES ASSUME Inv, NEW d \in Donations, d \notin disputed, ~Unsettled(d)
               PROVE  granted[d] = IF status[d] = "completed" THEN 1 ELSE 0
    BY DEF GrantsFollowStatus
  <2> DEFINE f == [r \in Requests |-> Unpaid(r, d)]
  <2>1. \A r \in Requests : f[r] = 0
    BY DEF Unsettled, Unpaid, WorthFor, Owing, Granting
  <2>2. Balanced(d) /\ granted[d] \in Int
    BY DEF GrantsAddUp, TypeOK, TablesTyped
  <2>3. granted[d] + NetSum(f, Requests) = Completed(status[d])
    BY <2>2 DEF Balanced
  <2> HIDE DEF f
  <2>4. NetSum(f, Requests) = 0
    BY <2>1, NetSumZero
  <2> QED BY <2>2, <2>3, <2>4 DEF Completed
<1> QED BY <1>1, <1>2, <1>3, PTL DEF Spec
===============================================================================
