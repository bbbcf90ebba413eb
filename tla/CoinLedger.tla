----------------------------- MODULE CoinLedger -----------------------------
(***************************************************************************)
(* The coins of the shop: User.balance, the BalanceEvent log beside it,    *)
(* and the requests that move both - the payment of an order, refunds,     *)
(* donations, the bonuses for logging in and for invitations, and the      *)
(* corrections of staff.                                                   *)
(*                                                                         *)
(* Except for update_continuous_days no request locks the row it changes:  *)
(* it reads a User object, computes, and writes absolute values back, so   *)
(* each request is a read step and a later write step.  An object saved    *)
(* without update_fields writes every column back.                         *)
(*                                                                         *)
(* A write of a balance and the event that records it are one step.  Coins *)
(* are counted in units of the smallest bonus.                             *)
(***************************************************************************)
EXTENDS Sums, Sequences

CONSTANTS
  Users,        \* accounts, by their code
  Known,        \* those that exist at the beginning
  Donations, Donator, Price,
  Orders, Total,
  Requests,     \* requests, each made at most once
  Kinds,        \* the mutations that are called
  Batches,      \* lists of donations that staff complete together
  Corrections,  \* balances that staff type in
  Bonuses,      \* settings.CONTINUOUS_BALANCE_ADD
  Opening,      \* coins for the first login
  Invitation,   \* coins for inviting somebody
  MaxDay        \* bound on the days that pass

AllKinds == {"confirm", "refund", "donationComplete", "donationUpdate",
             "donationBulkComplete", "customerUpdate", "balanceUpdate",
             "signIn", "signUp"}

ASSUME CoinModel ==
  /\ Known \subseteq Users /\ Kinds \subseteq AllKinds /\ IsFiniteSet(Requests)
  /\ Donator \in [Donations -> Known] /\ Price \in [Donations -> Nat \ {0}]
  /\ Total \in [Orders -> Nat \ {0}]
  /\ \A b \in Batches : b \in Seq(Donations) /\ \A i, j \in DOMAIN b : b[i] = b[j] => i = j
  /\ Corrections \subseteq Nat \ {0}
  /\ Bonuses \in Seq(Nat) /\ Len(Bonuses) > 0 /\ Opening \in Nat /\ Invitation \in Nat
  /\ MaxDay \in Nat

VARIABLES
  registered,   \* accounts with a row
  row,          \* the columns of User that matter
  logged,       \* sum of the deltas of the account's BalanceEvents
  bonuses,      \* login bonuses the account got today
  today,
  status,       \* Donation.status
  granted,      \* DONATION_GRANTED events of the donation less DONATION_REJECTED ones
  unconfirmed,  \* orders with status UNCONFIRMED
  captured,     \* Payment.captured_amount of the order
  step, job,    \* where each request is, and what it was asked for
  objects,      \* the User objects it has read, in order
  disputed      \* history: donations saved by a request that took a completed
                \* donation for an open one, or the other way round

requests == <<step, job, objects>>
accounts == <<registered, row, logged, bonuses, today>>
goods    == <<status, granted, disputed>>
sales    == <<unconfirmed, captured>>
vars == <<accounts, goods, sales, requests>>

Row == [balance : Int, last_login : Nat, continuous : Nat]
Status == {"absent", "unreviewed", "completed", "rejected"}
Object == [user : Users, row : Row]

Idle == [kind |-> "none"]
-----------------------------------------------------------------------------
Init ==
  /\ registered = Known
  /\ row = [u \in Users |-> [balance |-> IF u \in Known THEN Opening + Bonuses[1] ELSE 0,
                             last_login |-> 0, continuous |-> 1]]
  /\ logged = [u \in Users |-> IF u \in Known THEN Opening + Bonuses[1] ELSE 0]
  /\ bonuses = [u \in Users |-> IF u \in Known THEN 1 ELSE 0]
  /\ today = 0
  /\ status = [d \in Donations |-> "absent"]
  /\ granted = [d \in Donations |-> 0]
  /\ disputed = {}
  /\ unconfirmed = Orders
  /\ captured = [o \in Orders |-> 0]
  /\ step = [r \in Requests |-> "idle"]
  /\ job = [r \in Requests |-> Idle]
  /\ objects = [r \in Requests |-> <<>>]

Copy(u) == [user |-> u, row |-> row[u]]

\* The request r is made: it asks for j and has read the objects os.
Start(r, j, os) ==
  /\ step[r] = "idle" /\ j.kind \in Kinds
  /\ step' = [step EXCEPT ![r] = "read"]
  /\ job' = [job EXCEPT ![r] = j]
  /\ objects' = [objects EXCEPT ![r] = os]

Goto(r, s) == step' = [step EXCEPT ![r] = s] /\ UNCHANGED <<job, objects>>
At(r, kind, s) == job[r].kind = kind /\ step[r] = s

\* (mutant) a charge is recorded like a payment in
LogUnsigned(u, delta) == logged' = [logged EXCEPT ![u] = @ + IF delta < 0 THEN -delta ELSE delta]
Log(u, delta) == logged' = [logged EXCEPT ![u] = @ + delta]
SaveBalance(u, b) == row' = [row EXCEPT ![u].balance = b]
-----------------------------------------------------------------------------
(* Payment and refund of an order.                                         *)

\* The request's user and the order, which get_instance finds unconfirmed.
OrderConfirm(r, u, o) ==
  /\ u \in registered /\ o \in unconfirmed
  /\ Start(r, [kind |-> "confirm", order |-> o], <<Copy(u)>>)
  /\ UNCHANGED <<accounts, goods, sales>>

\* Before anything else the order is saved with the status it was read with.
\* The balance is compared on the user that was read.
SaveConfirmed(r) ==
  /\ At(r, "confirm", "read")
  /\ unconfirmed' = unconfirmed \cup {job[r].order}
  /\ Goto(r, IF objects[r][1].row.balance >= Total[job[r].order] THEN "payable" ELSE "done")
  /\ UNCHANGED <<accounts, goods, captured>>

\* (mutant) refunds do not lock the payment
NeverRefunding(o) == FALSE

\* A refund holds the lock of its payment from its read to its end.
Refunding(o) == \E r \in Requests : At(r, "refund", "read") /\ job[r].order = o

\* (mutant) the amount is taken off the current balance, without a new check
PayRelative(r) ==
  /\ At(r, "confirm", "payable")
  /\ LET o == job[r].order  u == objects[r][1].user IN
     /\ ~Refunding(o)
     /\ unconfirmed' = unconfirmed \ {o}
     /\ captured' = [captured EXCEPT ![o] = Total[o]]
     /\ SaveBalance(u, row[u].balance - Total[o])
     /\ Log(u, -Total[o])
  /\ Goto(r, "done")
  /\ UNCHANGED <<registered, bonuses, today, goods>>

Pay(r) ==
  /\ At(r, "confirm", "payable")
  /\ LET o == job[r].order  u == objects[r][1].user IN
     /\ ~Refunding(o)
     /\ unconfirmed' = unconfirmed \ {o}
     /\ captured' = [captured EXCEPT ![o] = Total[o]]
     /\ SaveBalance(u, objects[r][1].row.balance - Total[o])
     /\ Log(u, -Total[o])
  /\ Goto(r, "done")
  /\ UNCHANGED <<registered, bonuses, today, goods>>

\* gateway.refund locks the payment and checks the amount; the gateway of the
\* balance then reads the customer.
Refund(r, u, o, amount) ==
  /\ u \in registered /\ ~Refunding(o)
  /\ amount <= captured[o]
  /\ Start(r, [kind |-> "refund", order |-> o, amount |-> amount], <<Copy(u)>>)
  /\ UNCHANGED <<accounts, goods, sales>>

\* user.save() without update_fields.
FinishRefund(r) ==
  /\ At(r, "refund", "read")
  /\ LET u == objects[r][1].user  amount == job[r].amount IN
     /\ row' = [row EXCEPT ![u] = [objects[r][1].row EXCEPT !.balance = @ + amount]]
     /\ Log(u, amount)
     /\ captured' = [captured EXCEPT ![job[r].order] = @ - amount]
  /\ Goto(r, "done")
  /\ UNCHANGED <<registered, bonuses, today, goods, unconfirmed>>
-----------------------------------------------------------------------------
(* Donations.                                                              *)

\* (mutant) the previous status is not looked at
WorthAnyway(d, previous, accepted) == IF accepted THEN Price[d] ELSE -Price[d]

\* What completing a donation with this status is worth to its donator.
Worth(d, previous, accepted) ==
  CASE accepted /\ previous # "completed" -> Price[d]
    [] ~accepted /\ previous = "completed" -> -Price[d]
    [] OTHER -> 0

Sign(n) == IF n > 0 THEN 1 ELSE IF n < 0 THEN -1 ELSE 0

\* The donations ds were read with the statuses previous and get the status new.
SaveDonations(ds, previous, new) ==
  /\ status' = [d \in Donations |->
       IF \E i \in DOMAIN ds : ds[i] = d THEN new ELSE status[d]]
  /\ disputed' = disputed \cup
       {ds[i] : i \in {j \in DOMAIN ds :
                         (previous[j] = "completed") # (status[ds[j]] = "completed")}}

Verdict(accepted) == IF accepted THEN "completed" ELSE "rejected"

DonationJob(kind, ds, accepted) ==
  [kind |-> kind, donations |-> ds, accepted |-> accepted,
   previous |-> [i \in DOMAIN ds |-> status[ds[i]]]]

JobWorth(j, i) == Worth(j.donations[i], j.previous[i], j.accepted)

Donated == {d \in Donations : status[d] # "absent"}

DonationCreate(d) ==
  /\ status[d] = "absent"
  /\ status' = [status EXCEPT ![d] = "unreviewed"]
  /\ UNCHANGED <<accounts, granted, disputed, sales, requests>>

DonationComplete(r, d, accepted) ==
  /\ d \in Donated
  /\ Start(r, DonationJob("donationComplete", <<d>>, accepted), <<>>)
  /\ UNCHANGED <<accounts, goods, sales>>

SaveDonation(r) ==
  /\ At(r, "donationComplete", "read")
  /\ SaveDonations(job[r].donations, job[r].previous, Verdict(job[r].accepted))
  /\ Goto(r, IF JobWorth(job[r], 1) # 0 THEN "saved" ELSE "done")
  /\ UNCHANGED <<accounts, granted, sales>>

ReadDonator(r) ==
  /\ At(r, "donationComplete", "saved")
  /\ step' = [step EXCEPT ![r] = "donator"]
  /\ objects' = [objects EXCEPT ![r] = <<Copy(Donator[job[r].donations[1]])>>]
  /\ UNCHANGED <<accounts, goods, sales, job>>

GrantDonation(r) ==
  /\ At(r, "donationComplete", "donator")
  /\ LET u == objects[r][1].user  worth == JobWorth(job[r], 1) IN
     /\ SaveBalance(u, objects[r][1].row.balance + worth)
     /\ Log(u, worth)
     /\ granted' = [granted EXCEPT ![job[r].donations[1]] = @ + Sign(worth)]
  /\ Goto(r, "done")
  /\ UNCHANGED <<registered, bonuses, today, status, disputed, sales>>

\* validate_update_permission: a completed donation is constant.
DonationUpdate(r, d) ==
  /\ d \in Donated /\ status[d] # "completed"
  /\ Start(r, DonationJob("donationUpdate", <<d>>, FALSE), <<>>)
  /\ UNCHANGED <<accounts, goods, sales>>

SaveUpdate(r) ==
  /\ At(r, "donationUpdate", "read")
  /\ SaveDonations(job[r].donations, job[r].previous, "unreviewed")
  /\ Goto(r, "done")
  /\ UNCHANGED <<accounts, granted, sales>>

DonationBulkComplete(r, b, accepted) ==
  /\ \A i \in DOMAIN b : b[i] \in Donated
  /\ Start(r, DonationJob("donationBulkComplete", b, accepted), <<>>)
  /\ UNCHANGED <<accounts, goods, sales>>

\* A User object per donation, whoever its donator is; that of a donation which
\* moves no coins is not used.
BulkReadDonator(r) ==
  /\ At(r, "donationBulkComplete", "read")
  /\ LET n == Len(objects[r]) + 1 IN
     /\ n <= Len(job[r].donations)
     /\ objects' = [objects EXCEPT ![r] = Append(@, Copy(Donator[job[r].donations[n]]))]
  /\ UNCHANGED <<accounts, goods, sales, step, job>>

BulkSaveDonations(r) ==
  /\ At(r, "donationBulkComplete", "read")
  /\ Len(objects[r]) = Len(job[r].donations)
  /\ SaveDonations(job[r].donations, job[r].previous, Verdict(job[r].accepted))
  /\ Goto(r, "saved")
  /\ UNCHANGED <<accounts, granted, sales>>

\* Where the batch r has an object of u in updated_users.
Updated(r, u) ==
  {i \in DOMAIN objects[r] : objects[r][i].user = u /\ JobWorth(job[r], i) # 0}

\* bulk_update writes a row once: the CASE applies the first object of it.
\* bulk_create writes every event.
BulkSaveUsers(r) ==
  /\ At(r, "donationBulkComplete", "saved")
  /\ LET worth(i) == JobWorth(job[r], i)
         first(u) == CHOOSE i \in Updated(r, u) : \A j \in Updated(r, u) : i <= j
     IN
     /\ row' = [u \in Users |->
          IF Updated(r, u) = {} THEN row[u]
          ELSE [row[u] EXCEPT !.balance = objects[r][first(u)].row.balance + worth(first(u))]]
     /\ logged' = [u \in Users |-> logged[u]
          + NetSum([i \in Updated(r, u) |-> worth(i)], Updated(r, u))]
     /\ granted' = [d \in Donations |-> granted[d] +
          IF \E i \in DOMAIN job[r].donations : job[r].donations[i] = d
          THEN Sign(worth(CHOOSE i \in DOMAIN job[r].donations : job[r].donations[i] = d))
          ELSE 0]
  /\ Goto(r, "done")
  /\ UNCHANGED <<registered, bonuses, today, status, disputed, sales>>
-----------------------------------------------------------------------------
(* Corrections by staff.                                                   *)

ReadAccount(r, u, kind, balance) ==
  /\ u \in registered
  /\ Start(r, [kind |-> kind, balance |-> balance], <<Copy(u)>>)
  /\ UNCHANGED <<accounts, goods, sales>>

\* Saves every column of a copy of the object; balance 0 means it is not given.
CustomerUpdate(r) ==
  /\ At(r, "customerUpdate", "read")
  /\ LET u == objects[r][1].user  old == objects[r][1].row
         new == IF job[r].balance = 0 THEN old.balance ELSE job[r].balance IN
     /\ row' = [row EXCEPT ![u] = [old EXCEPT !.balance = new]]
     /\ Log(u, new - old.balance)
  /\ Goto(r, "done")
  /\ UNCHANGED <<registered, bonuses, today, goods, sales>>

\* The difference is taken after the balance has been set: it is zero.
BalanceUpdate(r) ==
  /\ At(r, "balanceUpdate", "read")
  /\ SaveBalance(objects[r][1].user, job[r].balance)
  /\ Log(objects[r][1].user, job[r].balance - job[r].balance)
  /\ Goto(r, "done")
  /\ UNCHANGED <<registered, bonuses, today, goods, sales>>
-----------------------------------------------------------------------------
(* Logins.                                                                 *)

Bonus(n) == IF n <= Len(Bonuses) THEN Bonuses[n] ELSE Bonuses[Len(Bonuses)]

\* Days from the last login in c to today, and the row after it.
Days(c) == today - c.last_login
\* (mutant) last_login is not set
LoggedInForgetful(c) ==
  LET n == (IF Days(c) > 1 THEN 0 ELSE c.continuous) + IF Days(c) >= 1 THEN 1 ELSE 0
  IN [balance |-> c.balance + IF Days(c) >= 1 THEN Bonus(n) ELSE 0,
      last_login |-> c.last_login, continuous |-> n]
LoggedIn(c) ==
  LET n == (IF Days(c) > 1 THEN 0 ELSE c.continuous) + IF Days(c) >= 1 THEN 1 ELSE 0
  IN [balance |-> c.balance + IF Days(c) >= 1 THEN Bonus(n) ELSE 0,
      last_login |-> today, continuous |-> n]

\* The User object o is saved: the balance only if there was a bonus.
SavedLogin(o) ==
  IF Days(o.row) >= 1 THEN LoggedIn(o.row)
  ELSE [LoggedIn(o.row) EXCEPT !.balance = row[o.user].balance]

\* (mutant) the bonus recorded is that of the day before
BonusOfYesterday(c) == IF Days(c) >= 1 THEN Bonus(c.continuous) ELSE 0
BonusOf(c) == LoggedIn(c).balance - c.balance
Bonused(u, c) == bonuses' = [bonuses EXCEPT ![u] = @ + IF Days(c) >= 1 THEN 1 ELSE 0]

\* A token is refreshed: select_for_update, so one step.
UpdateContinuousDays(u) ==
  /\ u \in registered
  /\ row' = [row EXCEPT ![u] = LoggedIn(@)]
  /\ Log(u, BonusOf(row[u]))
  /\ Bonused(u, row[u])
  /\ UNCHANGED <<registered, today, goods, sales, requests>>

\* A login through the identity provider that finds its user.
SignIn(r, u) ==
  /\ u \in registered
  /\ Start(r, [kind |-> "signIn"], <<Copy(u)>>)
  /\ UNCHANGED <<accounts, goods, sales>>

UpdateUserDetails(r) ==
  /\ At(r, "signIn", "read")
  /\ LET o == objects[r][1] IN
     /\ row' = [row EXCEPT ![o.user] = SavedLogin(o)]
     /\ Log(o.user, BonusOf(o.row))
     /\ Bonused(o.user, o.row)
  /\ Goto(r, "done")
  /\ UNCHANGED <<registered, today, goods, sales>>

\* A login that finds none; inviter = u stands for no invitation code.
SignUp(r, u, inviter) ==
  /\ u \notin registered /\ inviter \in registered \cup {u}
  /\ Start(r, [kind |-> "signUp", user |-> u, inviter |-> inviter], <<>>)
  /\ UNCHANGED <<accounts, goods, sales>>

NewRow == [balance |-> Opening + Bonuses[1], last_login |-> today, continuous |-> 1]

\* get_or_create waits for the insert of another request, then finds its row.
GetOrCreate(r) ==
  /\ At(r, "signUp", "read")
  /\ LET u == job[r].user IN
     /\ \A q \in Requests : ~(At(q, "signUp", "inserted") /\ job[q].user = u)
     /\ objects' = [objects EXCEPT ![r] =
          <<[user |-> u, row |-> IF u \in registered THEN row[u] ELSE NewRow]>>
            \o IF job[r].inviter = u THEN <<>> ELSE <<Copy(job[r].inviter)>>]
  /\ step' = [step EXCEPT ![r] = "inserted"]
  /\ UNCHANGED <<accounts, goods, sales, job>>

\* The first-login events are written whether or not the row is new.
CommitSignUp(r) ==
  /\ At(r, "signUp", "inserted")
  /\ LET o == objects[r][1]  u == o.user  inviter == job[r].inviter
         invited(v) == inviter # u /\ v = inviter IN
     /\ registered' = registered \cup {u}
     /\ row' = [v \in Users |->
          IF v = u THEN IF u \in registered THEN SavedLogin(o) ELSE LoggedIn(o.row)
          ELSE IF invited(v)
               THEN [row[v] EXCEPT !.balance = objects[r][2].row.balance + Invitation]
               ELSE row[v]]
     /\ logged' = [v \in Users |-> logged[v] +
          IF v = u THEN Opening + Bonuses[1] + BonusOf(o.row)
          ELSE IF invited(v) THEN Invitation ELSE 0]
     /\ bonuses' = [bonuses EXCEPT ![u] = @ + 1 + IF Days(o.row) >= 1 THEN 1 ELSE 0]
  /\ Goto(r, "done")
  /\ UNCHANGED <<today, goods, sales>>

NextDay ==
  /\ today < MaxDay
  /\ today' = today + 1
  /\ bonuses' = [u \in Users |-> 0]
  /\ UNCHANGED <<registered, row, logged, goods, sales, requests>>
-----------------------------------------------------------------------------
\* The worker dies: what is committed stays, the rest never happens.
Crash(r) ==
  /\ step[r] \notin {"idle", "done", "crashed"}
  /\ Goto(r, IF job[r].kind \in {"donationComplete", "donationBulkComplete"}
                /\ step[r] # "read" THEN "crashed" ELSE "done")
  /\ UNCHANGED <<accounts, goods, sales>>

Begin(r) ==
  \/ \E u \in Users, o \in Orders : OrderConfirm(r, u, o)
  \/ \E u \in Users, o \in Orders : \E amount \in 1..Total[o] : Refund(r, u, o, amount)
  \/ \E d \in Donations, accepted \in BOOLEAN : DonationComplete(r, d, accepted)
  \/ \E d \in Donations : DonationUpdate(r, d)
  \/ \E b \in Batches, accepted \in BOOLEAN : DonationBulkComplete(r, b, accepted)
  \/ \E u \in Users, b \in Corrections \cup {0} : ReadAccount(r, u, "customerUpdate", b)
  \/ \E u \in Users, b \in Corrections : ReadAccount(r, u, "balanceUpdate", b)
  \/ \E u \in Users : SignIn(r, u)
  \/ \E u, inviter \in Users : SignUp(r, u, inviter)

Proceed(r) ==
  \/ SaveConfirmed(r) \/ Pay(r) \/ FinishRefund(r)
  \/ SaveDonation(r) \/ ReadDonator(r) \/ GrantDonation(r) \/ SaveUpdate(r)
  \/ BulkReadDonator(r) \/ BulkSaveDonations(r) \/ BulkSaveUsers(r)
  \/ CustomerUpdate(r) \/ BalanceUpdate(r)
  \/ UpdateUserDetails(r) \/ GetOrCreate(r) \/ CommitSignUp(r)

Next ==
  \/ \E r \in Requests : Begin(r) \/ Proceed(r) \/ Crash(r)
  \/ \E u \in Users : UpdateContinuousDays(u)
  \/ \E d \in Donations : DonationCreate(d)
  \/ NextDay

Spec == Init /\ [][Next]_vars
-----------------------------------------------------------------------------
(* Properties.                                                             *)

\* The columns of the tables.
TablesTyped ==
  /\ Known \subseteq registered /\ registered \subseteq Users
  /\ row \in [Users -> Row] /\ logged \in [Users -> Int] /\ bonuses \in [Users -> Nat]
  /\ today \in 0..MaxDay
  /\ status \in [Donations -> Status] /\ granted \in [Donations -> Int]
  /\ disputed \subseteq Donations
  /\ unconfirmed \subseteq Orders /\ captured \in [Orders -> Nat]

Donating == {"donationComplete", "donationUpdate", "donationBulkComplete"}

\* What a mutation of each kind has been asked for; a donation is only updated by
\* a request that found it open.
JobTyped(j) ==
  /\ j.kind \in Kinds \cup {"none"}
  /\ j.kind \in {"confirm", "refund"} => j.order \in Orders
  /\ j.kind = "refund" => j.amount \in Nat
  /\ j.kind \in Donating =>
       /\ j.donations \in Seq(Donations) /\ j.accepted \in BOOLEAN
       /\ \A i, k \in DOMAIN j.donations : j.donations[i] = j.donations[k] => i = k
  /\ j.kind \in {"donationComplete", "donationUpdate"} => Len(j.donations) = 1
  /\ j.kind = "donationUpdate" => j.previous[1] # "completed"
  /\ j.kind \in {"customerUpdate", "balanceUpdate"} => j.balance \in Nat
  /\ j.kind = "signUp" => j.user \in Users /\ j.inviter \in Users

\* The objects that the next step of r uses have been read.
ReadsOneAccount == {"confirm", "refund", "customerUpdate", "balanceUpdate", "signIn"}
HasRead(r) ==
  /\ job[r].kind \in ReadsOneAccount => Len(objects[r]) = 1
  /\ At(r, "donationComplete", "donator") => Len(objects[r]) = 1
  /\ At(r, "donationBulkComplete", "saved") =>
       Len(objects[r]) = Len(job[r].donations)
  /\ At(r, "signUp", "inserted") =>
       /\ Len(objects[r]) = IF job[r].inviter = job[r].user THEN 1 ELSE 2
       /\ objects[r][1].user = job[r].user
       /\ job[r].inviter # job[r].user => objects[r][2].user = job[r].inviter

\* with_locked_payment: one refund of a payment at a time, for no more than is
\* captured, so that the captured amount stays a natural number.
RefundsFit ==
  \A r \in Requests : At(r, "refund", "read") =>
    /\ job[r].amount <= captured[job[r].order]
    /\ \A q \in Requests :
         At(q, "refund", "read") /\ job[q].order = job[r].order => q = r

\* Columns keep their types, a request has read what its next step uses, and no
\* two refunds draw on one captured amount.
TypeOK ==
  /\ TablesTyped
  /\ DOMAIN step = Requests /\ DOMAIN job = Requests
  /\ objects \in [Requests -> Seq(Object)]
  /\ \A r \in Requests : JobTyped(job[r]) /\ HasRead(r)
  /\ RefundsFit

\* The request r takes a step.
Moves(r) == <<step[r], objects[r]>>' # <<step[r], objects[r]>>

\* r has an object of u with a balance that is no longer the row's.
LosesUpdate(r, u) ==
  \E i \in DOMAIN objects[r] :
    objects[r][i].user = u /\ objects[r][i].row.balance # row[u].balance

\* What r does to u without a matching event, though nobody interferes: two
\* donations of one batch, a balance typed in, a second first login.
Unlogged(r, u) ==
  \/ job[r].kind = "donationBulkComplete" /\ \E i, j \in Updated(r, u) : i # j
  \/ job[r].kind = "balanceUpdate"
  \/ job[r].kind = "signUp" /\ u \in registered /\ u = job[r].user

\* The log of balance events explains every change of a balance
\* (account/events.py), with exactly these exceptions: an update lost between
\* a read and a write without a lock, and the three cases of Unlogged.
MovesAreLogged ==
  [][\A u \in registered :
       \/ row'[u].balance - row[u].balance = logged'[u] - logged[u]
       \/ \E r \in Requests : Moves(r) /\ (LosesUpdate(r, u) \/ Unlogged(r, u))]_vars

\* A donation is worth its coins once while it is completed, and nothing
\* otherwise (donation_complete.py, donation_bulk_complete.py): whatever the
\* order of completions, rejections and updates, one by one or in batches, and
\* however their grants overlap.  Excepted are donations with a request that
\* saved the status and has not moved the coins yet, or died in between, and
\* those whose status a request misjudged because it had changed since its read.
Unsettled(d) ==
  \E r \in Requests :
    /\ job[r].kind \in {"donationComplete", "donationBulkComplete"}
    /\ step[r] \in {"saved", "donator", "crashed"}
    /\ \E i \in DOMAIN job[r].donations : job[r].donations[i] = d
GrantsFollowStatus ==
  \A d \in Donations : d \in disputed \/ Unsettled(d) \/
    granted[d] = IF status[d] = "completed" THEN 1 ELSE 0

\* No interleaving of payments drives a balance below zero (order_confirm.py:96):
\* the balance that is compared is the one that is written, so a stale one may
\* cost the shop coins but never lends any.  Only rejected donations may.
NeverInDebt ==
  Kinds \cap Donating = {} => \A u \in Users : row[u].balance >= 0

\* Requests that save a User object with all its columns.
SaveEverything == {"refund", "customerUpdate"}

\* A second bonus on one day (_update_continuous_days) is only given by a request
\* that read the account before the first one was written, in the path that takes
\* no lock, or to an account that is created twice - unless some request writes
\* whole rows, old last_login included.
SecondBonusIsRaced ==
  [][Kinds \cap SaveEverything = {} => \A u \in registered :
       bonuses'[u] > bonuses[u] /\ bonuses[u] > 0 =>
         \E r \in Requests : Moves(r) /\
           \/ job[r].kind = "signIn" /\ objects[r][1].row.last_login < row[u].last_login
           \/ job[r].kind = "signUp" /\ job[r].user = u]_vars
=============================================================================
