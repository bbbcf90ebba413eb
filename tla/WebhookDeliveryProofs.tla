------------------------- MODULE WebhookDeliveryProofs -------------------------
(***************************************************************************)
(* Proofs about asynchronous webhooks: the foreign keys hold, no delivery  *)
(* is forgotten, received more often than it was asked for, or lost with a *)
(* payload it shares.                                                      *)
(***************************************************************************)
EXTENDS WebhookDelivery, SumsProofs

-----------------------------------------------------------------------------
(* Rows that are deleted.                                                  *)
LEMMA CascadeDeletes ==
  ASSUME delivery \in [Deliveries -> Status \cup {"none", "deleted"}], NEW D, Cascade(D)
  PROVE  /\ delivery' \in [Deliveries -> Status \cup {"none", "deleted"}]
         /\ \A d \in Deliveries :
              /\ Exists(d)' <=> Exists(d) /\ d \notin D
              /\ \/ delivery'[d] = delivery[d]
                 \/ d \in D /\ Exists(d) /\ delivery'[d] = "deleted"
         /\ attempts' = {a \in attempts : a[1] \notin D}
BY DEF Cascade, Exists, Status

LEMMA PayloadTypes ==
  ASSUME NEW d \in Deliveries
  PROVE  /\ d[1] \in Events /\ d[2] \in Webhooks /\ d = <<d[1], d[2]>>
         /\ PayloadOf(d) \in Payloads /\ PayloadOf(d)[1] = d[1]
         /\ d[2] \in Subscribed => PayloadOf(d) = <<d[1], {d[2]}>>
BY DEF Deliveries, Payloads, PayloadOf

LEMMA MessageTypes ==
  ASSUME NEW d \in Deliveries, NEW n \in 0..MaxRetries
  PROVE  /\ Message(d, n) \in Messages
         /\ Message(d, n).delivery = d /\ Message(d, n).retries = n
BY DEF Message, Messages

(* The foreign keys when rows go and none is added.                        *)
LEMMA CascadeKeepsKeys ==
  ASSUME TypeOK, NEW D, Cascade(D),
         \A d \in Deliveries : Exists(d) /\ d \notin D =>
           PayloadOf(d) \in payloads' /\ webhook'[d[2]] # "deleted"
  PROVE  /\ ForeignKeys' /\ attempts' \subseteq Deliveries \X Workers
         /\ delivery' \in [Deliveries -> Status \cup {"none", "deleted"}]
<1>1. /\ delivery' \in [Deliveries -> Status \cup {"none", "deleted"}]
      /\ \A d \in Deliveries : Exists(d)' <=> Exists(d) /\ d \notin D
      /\ attempts' = {a \in attempts : a[1] \notin D}
  BY CascadeDeletes DEF TypeOK
<1>2. \A a \in attempts : a[1] \in Deliveries
  BY DEF TypeOK
<1>3. ForeignKeys'
  BY <1>1, <1>2 DEF TypeOK, ForeignKeys
<1> QED BY <1>1, <1>3 DEF TypeOK

(* When only statuses change, and rows that are there stay.                *)
LEMMA KeysStay ==
  ASSUME TypeOK, UNCHANGED attempts, payloads \subseteq payloads',
         \A w \in Webhooks : webhook'[w] = "deleted" => webhook[w] = "deleted",
         \A d \in Deliveries : Exists(d) => Exists(d)',
         \A d \in Deliveries : Exists(d)' /\ ~Exists(d) =>
           PayloadOf(d) \in payloads /\ webhook[d[2]] # "deleted"
  PROVE  ForeignKeys'
BY PayloadTypes DEF TypeOK, ForeignKeys

-----------------------------------------------------------------------------
(* Types, step by step.                                                    *)
LEMMA TriggerKeepsTypes ==
  ASSUME TypeOK, NEW e \in Events,
         \/ Trigger(e) \/ TriggerWebhooks(e) \/ TriggerFails(e) \/ DeliveriesAge(e)
         \/ \E w \in Webhooks : Send(e, w)
  PROVE  TypeOK'
<1>1. CASE Trigger(e) \/ TriggerFails(e) \/ DeliveriesAge(e)
  <2>1. trigger' \in [Events -> Sending]
    BY <1>1 DEF Trigger, TriggerFails, DeliveriesAge, Sending, TypeOK
  <2>2. ForeignKeys'
    BY <1>1, KeysStay DEF Trigger, TriggerFails, DeliveriesAge, rows, hooks, TypeOK, Exists
  <2> QED BY <1>1, <2>1, <2>2 DEF Trigger, TriggerFails, DeliveriesAge, rows, hooks, history, TypeOK
<1>2. ASSUME NEW pc, NEW next \in {"regularPayload", "subscribedPayload"}, NEW W \in SUBSET Webhooks,
             CreatePayloads(e, pc, next, W)
      PROVE  TypeOK'
  <2>1. trigger' \in [Events -> Sending]
    BY <1>2 DEF CreatePayloads, Sending, TypeOK
  <2>2. payloads' \subseteq Payloads /\ payloads \subseteq payloads'
    <3>1. \A w \in W : <<e, w>> \in Deliveries
      BY DEF Deliveries
    <3>2. \A w \in W : PayloadOf(<<e, w>>) \in Payloads
      BY <3>1, PayloadTypes
    <3> QED BY <1>2, <3>2 DEF CreatePayloads, TypeOK
  <2>3. ForeignKeys'
    BY <1>2, <2>2, KeysStay DEF CreatePayloads, hooks, TypeOK, Exists
  <2> QED BY <1>2, <2>1, <2>2, <2>3 DEF CreatePayloads, hooks, history, TypeOK
<1>3. ASSUME NEW pc, NEW next \in {"subscribed", "ready"}, NEW W \in SUBSET Webhooks,
             CreateDeliveries(e, pc, next, W)
      PROVE  TypeOK'
  <2>1. trigger' \in [Events -> Sending]
    BY <1>3 DEF CreateDeliveries, Sending, TypeOK
  <2>2. delivery' \in [Deliveries -> Status \cup {"none", "deleted"}]
    BY <1>3 DEF CreateDeliveries, TypeOK, Status
  <2>3. ForeignKeys'
    <3>1. \A d \in Deliveries : Exists(d) => Exists(d)'
      BY <1>3 DEF CreateDeliveries, Exists, Status
    <3>2. \A d \in Deliveries : Exists(d)' /\ ~Exists(d) => d[1] = e /\ d[2] \in W
      BY <1>3 DEF CreateDeliveries, Exists
    <3>3. \A d \in Deliveries : Exists(d)' /\ ~Exists(d) =>
            PayloadOf(d) \in payloads /\ webhook[d[2]] # "deleted"
      BY <1>3, <3>2, PayloadTypes DEF CreateDeliveries
    <3> QED BY <1>3, <3>1, <3>3, KeysStay DEF CreateDeliveries, hooks
  <2> QED BY <1>3, <2>1, <2>2, <2>3 DEF CreateDeliveries, hooks, history, TypeOK
<1>4. CASE TriggerWebhooks(e)
  <2>1. trigger[e].to \subseteq Webhooks
    BY DEF TypeOK, Sending
  <2>2. Regular(e) \subseteq Webhooks /\ Subscribed \subseteq Webhooks
    BY <2>1, WebhookModel DEF Regular
  <2>3. {w \in Subscribed : <<e, {w}>> \in payloads} \in SUBSET Webhooks
    BY <2>2
  <2> QED BY <1>2, <1>3, <1>4, <2>1, <2>2, <2>3 DEF TriggerWebhooks
<1>5. ASSUME NEW w \in Webhooks, Send(e, w) PROVE TypeOK'
  <2>1. Message(<<e, w>>, 0) \in Messages
    BY MessageTypes, WebhookModel DEF Deliveries
  <2>2. queue' \in [Messages -> Nat]
    BY <1>5, <2>1 DEF Send, TypeOK
  <2>3. trigger' \in [Events -> Sending]
    BY <1>5 DEF Send, TypeOK, Sending
  <2>4. ForeignKeys'
    BY <1>5, KeysStay DEF Send, rows, hooks, TypeOK, Exists
  <2> QED BY <1>5, <2>2, <2>3, <2>4 DEF Send, rows, hooks, history, TypeOK
<1> QED BY <1>1, <1>4, <1>5

(* What a worker that is at something has in hand.                         *)
LEMMA TaskTypes ==
  ASSUME TypeOK, NEW k \in Workers
  PROVE  /\ worker[k] # NoWork => worker[k] \in Task
         /\ worker[k].pc \in {"read", "answered", "sent", "cleared"} => worker[k] # NoWork
         /\ worker[k] # NoWork => worker[k].delivery \in Deliveries
         /\ NoWork \notin Task
BY DEF TypeOK, NoWork, Task

LEMMA TaskGoes ==
  ASSUME TypeOK, NEW k \in Workers, worker[k] # NoWork,
         NEW pc \in {"read", "answered", "sent", "cleared"}, Goes(k, pc)
  PROVE  /\ worker' \in [Workers -> Task \cup {NoWork}]
         /\ worker'[k] # NoWork /\ worker'[k].pc = pc
         /\ worker'[k].delivery = worker[k].delivery /\ worker'[k].result = worker[k].result
         /\ \A j \in Workers \ {k} : worker'[j] = worker[j]
<1>1. worker[k] \in Task /\ worker \in [Workers -> Task \cup {NoWork}]
  BY TaskTypes DEF TypeOK
<1>2. worker'[k] = [worker[k] EXCEPT !.pc = pc] /\ \A j \in Workers \ {k} : worker'[j] = worker[j]
  BY <1>1 DEF Goes
<1>3. [worker[k] EXCEPT !.pc = pc] \in Task /\ [worker[k] EXCEPT !.pc = pc].pc = pc
      /\ [worker[k] EXCEPT !.pc = pc].delivery = worker[k].delivery
      /\ [worker[k] EXCEPT !.pc = pc].result = worker[k].result
  BY <1>1 DEF Task
<1>4. NoWork \notin Task
  BY TaskTypes
<1>5. worker' \in [Workers -> Task \cup {NoWork}]
  BY <1>1, <1>3 DEF Goes
<1> QED BY <1>2, <1>3, <1>4, <1>5

LEMMA TaskEnds ==
  ASSUME TypeOK, NEW k \in Workers, Ends(k)
  PROVE  /\ worker' \in [Workers -> Task \cup {NoWork}] /\ worker'[k] = NoWork
         /\ \A j \in Workers \ {k} : worker'[j] = worker[j]
BY DEF TypeOK, Ends

(* What the steps of a worker do to the rows, the queue and itself.        *)
LEMMA TakeKeepsTypes ==
  ASSUME TypeOK, NEW k \in Workers, NEW m \in Messages, Take(k, m)
  PROVE  TypeOK'
<1> DEFINE d == m.delivery
           task == [pc |-> "read", delivery |-> d, retries |-> m.retries, result |-> "none"]
<1>1. d \in Deliveries /\ task \in Task
  BY DEF Messages, Task
<1>2. worker' = [worker EXCEPT ![k] = IF Exists(d) /\ webhook[d[2]] = "active" THEN task ELSE NoWork]
  BY DEF Take
<1> HIDE DEF task
<1>3. worker' \in [Workers -> Task \cup {NoWork}]
  BY <1>1, <1>2 DEF TypeOK
<1>4. queue' \in [Messages -> Nat]
  BY DEF Take, Queued, TypeOK
<1>5. delivery' = delivery \/ (Exists(d) /\ delivery' = [delivery EXCEPT ![d] = "failed"])
  BY DEF Take, GiveUp
<1>6. delivery' \in [Deliveries -> Status \cup {"none", "deleted"}]
      /\ \A x \in Deliveries : Exists(x)' <=> Exists(x)
  BY <1>1, <1>5 DEF TypeOK, Exists, Status
<1>7. ForeignKeys'
  BY <1>6, KeysStay DEF Take, hooks
<1> QED BY <1>3, <1>4, <1>6, <1>7 DEF Take, hooks, history, TypeOK

LEMMA PostKeepsTypes ==
  ASSUME TypeOK, NEW k \in Workers, NEW result \in {"success", "refused", "failed"}, Post(k, result)
  PROVE  TypeOK'
<1> DEFINE d == worker[k].delivery
<1>1. worker[k] \in Task /\ d \in Deliveries /\ Exists(d)
  BY TaskTypes DEF Post
<1>2. [worker[k] EXCEPT !.pc = "answered", !.result = result] \in Task
  BY <1>1 DEF Task
<1>3. worker' \in [Workers -> Task \cup {NoWork}]
  BY <1>2 DEF Post, TypeOK
<1>4. received' \in [Deliveries -> Nat]
  <2>1. received' = [received EXCEPT ![d] = IF result = "success" /\ @ <= 1 + asked[d] THEN @ + 1 ELSE @]
    BY DEF Post
  <2> HIDE DEF d
  <2> QED BY <1>1, <2>1 DEF TypeOK
<1>5. attempts' = attempts \cup {<<d, k>>}
  BY DEF Post
<1>6. ForeignKeys'
  <2>1. \A a \in attempts' : Exists(a[1])
    BY <1>1, <1>5 DEF TypeOK, ForeignKeys
  <2> QED BY <2>1 DEF Post, hooks, TypeOK, ForeignKeys, Exists
<1>7. attempts' \subseteq Deliveries \X Workers
  BY <1>1, <1>5 DEF TypeOK
<1> QED BY <1>3, <1>4, <1>6, <1>7 DEF Post, hooks, TypeOK

LEMMA RecordKeepsTypes ==
  ASSUME TypeOK, NEW k \in Workers, Record(k)
  PROVE  TypeOK'
<1> DEFINE d == worker[k].delivery  n == worker[k].retries  result == worker[k].result
<1>1. worker[k] \in Task /\ d \in Deliveries /\ n \in 0..MaxRetries /\ <<d, k>> \in attempts
      /\ worker[k] # NoWork
  BY TaskTypes DEF Record, Task
<1>2. Exists(d)
  <2>1. Exists(<<d, k>>[1])
    BY <1>1 DEF TypeOK, ForeignKeys
  <2> QED BY <2>1
<1>3. \/ /\ MayRetry(result, n) /\ Ends(k) /\ delivery' = delivery
         /\ queue' = [queue EXCEPT ![Message(d, NextRetry(n))] = @ + 1]
      \/ /\ delivery' = [delivery EXCEPT ![d] = Outcome(result)] /\ queue' = queue
         /\ Goes(k, "sent") \/ Ends(k)
  BY DEF Record
<1>4. worker' \in [Workers -> Task \cup {NoWork}]
  BY <1>1, <1>3, TaskGoes, TaskEnds
<1>5. queue' \in [Messages -> Nat]
  <2>1. MayRetry(result, n) => NextRetry(n) \in 0..MaxRetries
    BY <1>1, WebhookModel DEF MayRetry, NextRetry
  <2>2. MayRetry(result, n) => Message(d, NextRetry(n)) \in Messages
    BY <1>1, <2>1, MessageTypes
  <2> QED BY <1>3, <2>2 DEF TypeOK
<1>6. Outcome(result) \in Status
  BY DEF Outcome, Status
<1> HIDE DEF d, n, result
<1>7. /\ delivery' \in [Deliveries -> Status \cup {"none", "deleted"}]
      /\ \A x \in Deliveries : Exists(x)' <=> Exists(x)
  BY <1>1, <1>2, <1>3, <1>6 DEF TypeOK, Exists
<1>8. ForeignKeys'
  BY <1>7, KeysStay DEF Record, hooks
<1> QED BY <1>4, <1>5, <1>7, <1>8 DEF Record, hooks, history, TypeOK

LEMMA ClearKeepsTypes ==
  ASSUME TypeOK, NEW k \in Workers, Clear(k) \/ ClearPayload(k) \/ RowIsGone(k) \/ WorkerDies(k)
  PROVE  TypeOK'
<1>1. CASE Clear(k)
  <2>1. worker' \in [Workers -> Task \cup {NoWork}]
    BY <1>1, TaskTypes, TaskGoes DEF Clear
  <2>2. /\ ForeignKeys' /\ attempts' \subseteq Deliveries \X Workers
        /\ delivery' \in [Deliveries -> Status \cup {"none", "deleted"}]
    BY <1>1, CascadeKeepsKeys DEF Clear, hooks, TypeOK, ForeignKeys
  <2> QED BY <1>1, <2>1, <2>2 DEF Clear, hooks, history, TypeOK
<1>2. CASE ClearPayload(k)
  <2>1. worker' \in [Workers -> Task \cup {NoWork}]
    BY <1>2, TaskEnds DEF ClearPayload
  <2>2. PICK P : DeletePayloads(P)
    BY <1>2 DEF ClearPayload
  <2>3. payloads' = payloads \ P /\ Cascade({d \in Deliveries : PayloadOf(d) \in P})
    BY <2>2 DEF DeletePayloads
  <2>4. /\ ForeignKeys' /\ attempts' \subseteq Deliveries \X Workers
        /\ delivery' \in [Deliveries -> Status \cup {"none", "deleted"}]
    BY <1>2, <2>3, CascadeKeepsKeys DEF ClearPayload, hooks, TypeOK, ForeignKeys
  <2> QED BY <1>2, <2>1, <2>3, <2>4 DEF ClearPayload, hooks, history, TypeOK
<1>3. CASE RowIsGone(k) \/ WorkerDies(k)
  <2>1. worker' \in [Workers -> Task \cup {NoWork}]
    BY <1>3, TaskEnds DEF RowIsGone, WorkerDies
  <2>2. ForeignKeys'
    BY <1>3, KeysStay DEF RowIsGone, WorkerDies, hooks, rows, TypeOK, Exists
  <2> QED BY <1>3, <2>1, <2>2 DEF RowIsGone, WorkerDies, hooks, rows, history, TypeOK
<1> QED BY <1>1, <1>2, <1>3

(* Staff and apps.                                                         *)
LEMMA RetryKeepsTypes ==
  ASSUME TypeOK, NEW d \in Deliveries, EventDeliveryRetry(d) \/ SendAgain(d) \/ SendAgainFails(d)
  PROVE  TypeOK'
<1>1. CASE EventDeliveryRetry(d)
  <2>1. /\ delivery' = [delivery EXCEPT ![d] = "pending"] /\ Exists(d)
        /\ asked' = [asked EXCEPT ![d] = @ + 1]
    BY <1>1 DEF EventDeliveryRetry
  <2>2. /\ delivery' \in [Deliveries -> Status \cup {"none", "deleted"}]
        /\ \A x \in Deliveries : Exists(x)' <=> Exists(x)
    BY <2>1 DEF TypeOK, Exists, Status
  <2>3. ForeignKeys'
    BY <1>1, <2>2, KeysStay DEF EventDeliveryRetry, hooks
  <2>4. asked' \in [Deliveries -> Nat]
    BY <2>1 DEF TypeOK
  <2> QED BY <1>1, <2>2, <2>3, <2>4 DEF EventDeliveryRetry, hooks, TypeOK
<1>2. CASE SendAgain(d) \/ SendAgainFails(d)
  <2>1. Message(d, 0) \in Messages
    BY MessageTypes, WebhookModel
  <2>2. queue' \in [Messages -> Nat]
    BY <1>2, <2>1 DEF SendAgain, SendAgainFails, TypeOK
  <2>3. ForeignKeys'
    BY <1>2, KeysStay DEF SendAgain, SendAgainFails, hooks, rows, TypeOK, Exists
  <2> QED BY <1>2, <2>2, <2>3 DEF SendAgain, SendAgainFails, hooks, rows, history, TypeOK
<1> QED BY <1>1, <1>2

LEMMA WebhookKeepsTypes ==
  ASSUME TypeOK, NEW w \in Webhooks,
         \/ WebhookUpdate(w) \/ WebhookDelete(w) \/ DeleteWebhookFails(w) \/ AppDelete(w)
         \/ DeleteWebhook(w)
  PROVE  TypeOK'
<1>1. CASE WebhookUpdate(w) \/ WebhookDelete(w) \/ DeleteWebhookFails(w) \/ AppDelete(w)
  <2>1. /\ webhook' \in [Webhooks -> {"active", "inactive", "deleting", "deleted"}]
        /\ \A v \in Webhooks : webhook'[v] = "deleted" => webhook[v] = "deleted"
    BY <1>1 DEF WebhookUpdate, WebhookDelete, DeleteWebhookFails, AppDelete, TypeOK
  <2>2. ForeignKeys'
    BY <1>1, <2>1, KeysStay
       DEF WebhookUpdate, WebhookDelete, DeleteWebhookFails, AppDelete, rows, TypeOK, Exists
  <2> QED BY <1>1, <2>1, <2>2
       DEF WebhookUpdate, WebhookDelete, DeleteWebhookFails, AppDelete, rows, history, TypeOK
<1>2. CASE DeleteWebhook(w)
  <2>1. webhook' = [webhook EXCEPT ![w] = "deleted"] /\ Cascade(RowsOf(w))
    BY <1>2 DEF DeleteWebhook
  <2>2. webhook' \in [Webhooks -> {"active", "inactive", "deleting", "deleted"}]
    BY <2>1 DEF TypeOK
  <2>3. \A d \in Deliveries : Exists(d) /\ d \notin RowsOf(w) =>
          PayloadOf(d) \in payloads' /\ webhook'[d[2]] # "deleted"
    BY <1>2, <2>1, PayloadTypes DEF DeleteWebhook, RowsOf, TypeOK, ForeignKeys
  <2>4. /\ ForeignKeys' /\ attempts' \subseteq Deliveries \X Workers
        /\ delivery' \in [Deliveries -> Status \cup {"none", "deleted"}]
    BY <2>1, <2>3, CascadeKeepsKeys
  <2> QED BY <1>2, <2>2, <2>4 DEF DeleteWebhook, history, TypeOK
<1> QED BY <1>1, <1>2

(* remove_apps_task and delete_event_payloads_task.                        *)
LEMMA RemovalTypes ==
  ASSUME TypeOK
  PROVE  /\ removal.pc \in {"attempts", "deliveries", "payloads", "webhook"} =>
              /\ removal # NoWork /\ removal \in Removal
              /\ removal.webhook \in Webhooks /\ removal.ids \subseteq Deliveries
         /\ NoWork \notin Removal
BY DEF TypeOK, NoWork, Removal

LEMMA NextRows ==
  ASSUME NEW w \in Webhooks
  PROVE  [pc |-> IF RowsOf(w) = {} THEN "webhook" ELSE "attempts", webhook |-> w, ids |-> RowsOf(w)]
           \in Removal
<1>1. RowsOf(w) \subseteq Deliveries
  BY DEF RowsOf
<1> QED BY <1>1 DEF Removal

LEMMA RemovalKeepsTypes ==
  ASSUME TypeOK, RemoveApps \/ DeleteEventPayloads
  PROVE  TypeOK'
<1>1. ASSUME NEW w \in Webhooks, SelectDeliveries(w) PROVE TypeOK'
  <2>1. removal' \in Removal
    BY <1>1, NextRows DEF SelectDeliveries
  <2>2. ForeignKeys'
    BY <1>1, KeysStay DEF SelectDeliveries, hooks, rows, TypeOK, Exists
  <2> QED BY <1>1, <2>1, <2>2 DEF SelectDeliveries, hooks, rows, history, TypeOK
<1>2. CASE RemoveAttempts
  <2>1. removal' = [removal EXCEPT !.pc = "deliveries"] /\ removal \in Removal
        /\ attempts' = {a \in attempts : a[1] \notin removal.ids}
    BY <1>2, RemovalTypes DEF RemoveAttempts, RawDeleteAttempts
  <2>2. removal' \in Removal
    BY <2>1 DEF Removal
  <2>3. ForeignKeys'
    BY <1>2, <2>1 DEF RemoveAttempts, hooks, TypeOK, ForeignKeys, Exists
  <2> QED BY <1>2, <2>1, <2>2, <2>3 DEF RemoveAttempts, hooks, history, TypeOK
<1>3. CASE RemoveDeliveries
  <2>1. removal \in Removal
    BY <1>3, RemovalTypes DEF RemoveDeliveries
  <2>2. \/ Cascade(removal.ids) /\ removal' = [removal EXCEPT !.pc = "payloads"]
        \/ removal' = NoWork /\ UNCHANGED <<delivery, attempts>>
    BY <1>3 DEF RemoveDeliveries
  <2>3. removal' \in Removal \cup {NoWork}
    BY <2>1, <2>2 DEF Removal
  <2>4. /\ ForeignKeys' /\ attempts' \subseteq Deliveries \X Workers
        /\ delivery' \in [Deliveries -> Status \cup {"none", "deleted"}]
    <3>1. CASE Cascade(removal.ids)
      BY <1>3, <3>1, CascadeKeepsKeys DEF RemoveDeliveries, hooks, TypeOK, ForeignKeys
    <3>2. CASE UNCHANGED <<delivery, attempts>>
      BY <1>3, <3>2 DEF RemoveDeliveries, hooks, TypeOK, ForeignKeys, Exists
    <3> QED BY <2>2, <3>1, <3>2
  <2> QED BY <1>3, <2>3, <2>4 DEF RemoveDeliveries, hooks, history, TypeOK
<1>4. CASE RemovePayloads
  <2> DEFINE P == {PayloadOf(d) : d \in removal.ids}
  <2>1. removal.webhook \in Webhooks
    BY <1>4, RemovalTypes DEF RemovePayloads
  <2>2. removal' \in Removal \cup {NoWork}
    BY <1>4, <2>1, NextRows DEF RemovePayloads
  <2>3. ((\A p \in P : Unused(p)) /\ payloads' = payloads \ P) \/ payloads' = payloads
    BY <1>4 DEF RemovePayloads
  <2> HIDE DEF P
  <2>4. ForeignKeys' /\ payloads' \subseteq payloads
    BY <1>4, <2>3 DEF RemovePayloads, hooks, TypeOK, ForeignKeys, Unused, Exists
  <2> QED BY <1>4, <2>2, <2>4 DEF RemovePayloads, hooks, history, TypeOK
<1>5. CASE RemoveWebhook
  <2> DEFINE w == removal.webhook
  <2>1. w \in Webhooks
    BY <1>5, RemovalTypes DEF RemoveWebhook
  <2>2. webhook' = [webhook EXCEPT ![w] = "deleted"] /\ Cascade(RowsOf(w))
    BY <1>5 DEF RemoveWebhook
  <2> HIDE DEF w
  <2>3. webhook' \in [Webhooks -> {"active", "inactive", "deleting", "deleted"}]
    BY <2>1, <2>2 DEF TypeOK
  <2>4. \A d \in Deliveries : Exists(d) /\ d \notin RowsOf(w) =>
          PayloadOf(d) \in payloads' /\ webhook'[d[2]] # "deleted"
    BY <1>5, <2>1, <2>2, PayloadTypes DEF RemoveWebhook, RowsOf, TypeOK, ForeignKeys
  <2>5. /\ ForeignKeys' /\ attempts' \subseteq Deliveries \X Workers
        /\ delivery' \in [Deliveries -> Status \cup {"none", "deleted"}]
    BY <2>2, <2>4, CascadeKeepsKeys
  <2> QED BY <1>5, <2>3, <2>5 DEF RemoveWebhook, history, TypeOK
<1>6. CASE DeleteEventPayloads
  <2>1. payloads' = payloads \ Expired /\ Cascade({d \in Deliveries : PayloadOf(d) \in Expired})
    BY <1>6 DEF DeleteEventPayloads, DeletePayloads
  <2>2. /\ ForeignKeys' /\ attempts' \subseteq Deliveries \X Workers
        /\ delivery' \in [Deliveries -> Status \cup {"none", "deleted"}]
    BY <1>6, <2>1, CascadeKeepsKeys DEF DeleteEventPayloads, hooks, TypeOK, ForeignKeys
  <2> QED BY <1>6, <2>1, <2>2 DEF DeleteEventPayloads, hooks, history, TypeOK
<1> QED BY <1>1, <1>2, <1>3, <1>4, <1>5, <1>6 DEF RemoveApps

LEMMA StepTypes ==
  ASSUME TypeOK, [Next]_vars
  PROVE  TypeOK'
<1>1. ASSUME NEW k \in Workers, WorkerStep(k) PROVE TypeOK'
  BY <1>1, TakeKeepsTypes, PostKeepsTypes, RecordKeepsTypes, ClearKeepsTypes DEF WorkerStep
<1>2. CASE UNCHANGED vars
  BY <1>2 DEF vars, hooks, rows, history, TypeOK, ForeignKeys, Exists
<1> QED BY <1>1, <1>2, TriggerKeepsTypes, ClearKeepsTypes, RetryKeepsTypes, WebhookKeepsTypes,
           RemovalKeepsTypes DEF Next

LEMMA InitTypes == Init => TypeOK
BY WebhookModel DEF Init, TypeOK, ForeignKeys, Exists, Status, Sending

(* The foreign keys of the webhook tables hold, through the cascades of    *)
(* Django and the raw deletes of _raw_remove_deliveries, whoever works at  *)
(* the same rows; no message is tried more often than max_retries.         *)
THEOREM TypesAreKept == Spec => []TypeOK
<1>1. Init => TypeOK
  BY InitTypes
<1>2. TypeOK /\ [Next]_vars => TypeOK'
  BY StepTypes
<1> QED BY <1>1, <1>2, PTL DEF Spec

-----------------------------------------------------------------------------
(* What is behind the properties: an event makes its deliveries once, a    *)
(* removal is of a deleted app, and workers hold rows that were made.      *)

\* The trigger is past the step that makes the delivery.
Created(d) ==
  trigger[d[1]].pc \in IF d[2] \in Subscribed THEN {"ready"}
                       ELSE {"subscribed", "subscribedPayload", "ready"}

MadeOnce ==
  /\ \A d \in Deliveries : delivery[d] # "none" => Created(d)
  /\ \A e \in Events : \A w \in Subscribed :
       <<e, {w}>> \in payloads /\ trigger[e].pc # "ready" =>
         trigger[e].pc = "subscribedPayload" /\ w \in trigger[e].to

RemovalIsOfRemoved ==
  removal # NoWork =>
    /\ removal.webhook \in removed
    /\ \A d \in removal.ids : d[2] = removal.webhook

\* What a worker knows of the delivery d in its hand.
Known(task, k) ==
  LET d == task.delivery IN
  /\ delivery[d] # "none"
  /\ task.pc = "answered" => <<d, k>> \in attempts \/ delivery[d] = "deleted" \/ d[2] \in removed
  /\ task.pc = "cleared" => delivery[d] = "deleted"
  /\ task.pc = "answered" /\ task.result = "success" => received[d] > 0
  /\ task.pc = "sent" => received[d] > 0

WorkersKnow == \A k \in Workers : worker[k] # NoWork => Known(worker[k], k)

\* Rows go, and are never made again.
RowsAreKept ==
  /\ \A d \in Deliveries :
       /\ delivery[d] = "none" <=> delivery'[d] = "none"
       /\ delivery[d] = "deleted" => delivery'[d] = "deleted"
  /\ \A a \in attempts : a \in attempts' \/ delivery'[a[1]] = "deleted" \/ a[1][2] \in removed
  /\ payloads' \subseteq payloads

LEMMA CascadeKeepsRows ==
  ASSUME TypeOK, NEW D, Cascade(D), payloads' \subseteq payloads
  PROVE  RowsAreKept
<1>1. /\ delivery \in [Deliveries -> Status \cup {"none", "deleted"}]
      /\ \A d \in Deliveries :
           \/ delivery'[d] = delivery[d]
           \/ d \in D /\ Exists(d) /\ delivery'[d] = "deleted"
      /\ attempts' = {a \in attempts : a[1] \notin D}
  BY CascadeDeletes DEF TypeOK
<1>2. \A d \in Deliveries : Exists(d) => delivery[d] # "none" /\ delivery[d] # "deleted"
  BY DEF Exists, Status
<1>3. \A a \in attempts : a[1] \in Deliveries /\ Exists(a[1])
  BY DEF TypeOK, ForeignKeys
<1>4. \A d \in D \cap Deliveries : Exists(d) => delivery'[d] = "deleted"
  BY CascadeDeletes DEF Cascade
<1> QED BY <1>1, <1>2, <1>3, <1>4 DEF RowsAreKept

LEMMA StatusKeepsRows ==
  ASSUME TypeOK, attempts \subseteq attempts', payloads' = payloads,
         \/ delivery' = delivery
         \/ \E d \in Deliveries, s \in Status : Exists(d) /\ delivery' = [delivery EXCEPT ![d] = s]
  PROVE  RowsAreKept
BY DEF RowsAreKept, TypeOK, Exists, Status

(* Workers change nothing but the rows, the queue and themselves.          *)
LEMMA WorkerRows ==
  ASSUME TypeOK, NEW k \in Workers, WorkerStep(k) \/ WorkerDies(k)
  PROVE  /\ RowsAreKept
         /\ trigger' = trigger /\ hooks' = hooks /\ removal' = removal /\ asking' = asking
         /\ asked' = asked /\ dropped \subseteq dropped'
         /\ \A j \in Workers \ {k} : worker'[j] = worker[j]
         /\ \A d \in Deliveries : received[d] > 0 => received'[d] > 0
<1>1. ASSUME NEW m \in Messages, Take(k, m)
      PROVE  RowsAreKept /\ \A j \in Workers \ {k} : worker'[j] = worker[j]
  <2>1. m.delivery \in Deliveries /\ "failed" \in Status
    BY DEF Messages, Status
  <2>2. RowsAreKept
    BY <1>1, <2>1, StatusKeepsRows DEF Take, GiveUp
  <2> QED BY <1>1, <2>2 DEF Take, TypeOK
<1>2. ASSUME NEW result \in {"success", "refused", "failed"}, Post(k, result)
      PROVE  /\ RowsAreKept /\ \A j \in Workers \ {k} : worker'[j] = worker[j]
             /\ \A d \in Deliveries : received[d] > 0 => received'[d] > 0
  <2>1. RowsAreKept
    BY <1>2, StatusKeepsRows DEF Post
  <2>2. \A d \in Deliveries : received'[d] \in {received[d], received[d] + 1}
    BY <1>2 DEF Post, TypeOK
  <2>3. \A d \in Deliveries : received[d] > 0 => received'[d] > 0
    BY <2>2 DEF TypeOK
  <2> QED BY <1>2, <2>1, <2>3 DEF Post, TypeOK
<1>3. ASSUME Record(k)
      PROVE  RowsAreKept /\ \A j \in Workers \ {k} : worker'[j] = worker[j]
  <2> DEFINE d == worker[k].delivery  s == Outcome(worker[k].result)
  <2>1. worker[k] \in Task /\ d \in Deliveries /\ <<d, k>> \in attempts /\ worker[k] # NoWork
    BY <1>3, TaskTypes DEF Record
  <2>2. Exists(<<d, k>>[1]) /\ s \in Status
    BY <2>1 DEF TypeOK, ForeignKeys, Outcome, Status
  <2>3. \/ delivery' = delivery /\ Ends(k)
        \/ delivery' = [delivery EXCEPT ![d] = s] /\ (Goes(k, "sent") \/ Ends(k))
    BY <1>3 DEF Record
  <2> HIDE DEF d, s
  <2>4. RowsAreKept
    BY <1>3, <2>1, <2>2, <2>3, StatusKeepsRows DEF Record
  <2>5. \A j \in Workers \ {k} : worker'[j] = worker[j]
    BY <2>1, <2>3, TaskGoes, TaskEnds
  <2> QED BY <2>4, <2>5
<1>4. ASSUME Clear(k) PROVE RowsAreKept /\ \A j \in Workers \ {k} : worker'[j] = worker[j]
  BY <1>4, CascadeKeepsRows, TaskTypes, TaskGoes DEF Clear
<1>5. ASSUME ClearPayload(k) PROVE RowsAreKept /\ \A j \in Workers \ {k} : worker'[j] = worker[j]
  BY <1>5, CascadeKeepsRows, TaskEnds DEF ClearPayload, DeletePayloads
<1>6. ASSUME RowIsGone(k) \/ WorkerDies(k)
      PROVE  RowsAreKept /\ \A j \in Workers \ {k} : worker'[j] = worker[j]
  BY <1>6, StatusKeepsRows, TaskEnds DEF RowIsGone, WorkerDies, rows
<1>7. /\ trigger' = trigger /\ hooks' = hooks /\ removal' = removal /\ asking' = asking
      /\ asked' = asked /\ dropped \subseteq dropped'
  BY DEF WorkerStep, Take, Post, Record, Clear, ClearPayload, RowIsGone, WorkerDies, history
<1> QED BY <1>1, <1>2, <1>3, <1>4, <1>5, <1>6, <1>7
       DEF WorkerStep, Take, Record, Clear, ClearPayload, RowIsGone, WorkerDies, history

(* What staff, apps and the two clean-up tasks do.                         *)
CallStep ==
  \/ \E d \in Deliveries : EventDeliveryRetry(d) \/ SendAgain(d) \/ SendAgainFails(d)
  \/ \E w \in Webhooks : WebhookUpdate(w) \/ AppDelete(w)
                        \/ WebhookDelete(w) \/ DeleteWebhook(w) \/ DeleteWebhookFails(w)
CleanUp == RemoveApps \/ DeleteEventPayloads

LEMMA CallRows ==
  ASSUME TypeOK, CallStep
  PROVE  /\ RowsAreKept
         /\ trigger' = trigger /\ worker' = worker /\ removal' = removal /\ received' = received
         /\ young' = young /\ removed \subseteq removed' /\ dropped \subseteq dropped'
<1>1. ASSUME NEW d \in Deliveries, EventDeliveryRetry(d) PROVE RowsAreKept
  BY <1>1, StatusKeepsRows DEF EventDeliveryRetry, Status
<1>2. ASSUME NEW d \in Deliveries, SendAgain(d) \/ SendAgainFails(d) PROVE RowsAreKept
  BY <1>2, StatusKeepsRows DEF SendAgain, SendAgainFails, rows
<1>3. ASSUME NEW w \in Webhooks, WebhookUpdate(w) \/ AppDelete(w) \/ WebhookDelete(w) \/ DeleteWebhookFails(w)
      PROVE  RowsAreKept
  BY <1>3, StatusKeepsRows DEF WebhookUpdate, AppDelete, WebhookDelete, DeleteWebhookFails, rows
<1>4. ASSUME NEW w \in Webhooks, DeleteWebhook(w) PROVE RowsAreKept
  BY <1>4, CascadeKeepsRows DEF DeleteWebhook
<1>5. RowsAreKept
  BY <1>1, <1>2, <1>3, <1>4 DEF CallStep
<1>6. /\ trigger' = trigger /\ worker' = worker /\ removal' = removal /\ received' = received
      /\ young' = young /\ removed \subseteq removed' /\ dropped \subseteq dropped'
  BY DEF CallStep, EventDeliveryRetry, SendAgain, SendAgainFails, WebhookUpdate, AppDelete,
         WebhookDelete, DeleteWebhook, DeleteWebhookFails, hooks, history
<1> QED BY <1>5, <1>6

LEMMA CleanUpRows ==
  ASSUME TypeOK, RemovalIsOfRemoved, CleanUp
  PROVE  /\ RowsAreKept
         /\ trigger' = trigger /\ worker' = worker /\ queue' = queue /\ asking' = asking
         /\ history' = history /\ removed' = removed /\ young' = young
         /\ RemovalIsOfRemoved'
<1>1. ASSUME NEW w \in Webhooks, SelectDeliveries(w) PROVE RowsAreKept /\ RemovalIsOfRemoved'
  <2>1. \A d \in RowsOf(w) : d[2] = w
    BY DEF RowsOf
  <2>2. RemovalIsOfRemoved'
    BY <1>1, <2>1 DEF SelectDeliveries, hooks, RemovalIsOfRemoved
  <2> QED BY <1>1, <2>2, StatusKeepsRows DEF SelectDeliveries, rows
<1>2. ASSUME RemoveAttempts PROVE RowsAreKept /\ RemovalIsOfRemoved'
  <2>1. /\ removal # NoWork /\ removal \in Removal
        /\ attempts' = {a \in attempts : a[1] \notin removal.ids}
        /\ removal' = [removal EXCEPT !.pc = "deliveries"]
    BY <1>2, RemovalTypes DEF RemoveAttempts, RawDeleteAttempts
  <2>2. removal'.webhook = removal.webhook /\ removal'.ids = removal.ids
    BY <2>1 DEF Removal
  <2>3. \A a \in attempts : a \in attempts' \/ a[1][2] \in removed
    BY <2>1 DEF RemovalIsOfRemoved
  <2> QED BY <1>2, <2>1, <2>2, <2>3 DEF RemoveAttempts, RemovalIsOfRemoved, RowsAreKept, hooks
<1>3. ASSUME RemoveDeliveries PROVE RowsAreKept /\ RemovalIsOfRemoved'
  <2>1. removal # NoWork /\ removal \in Removal
    BY <1>3, RemovalTypes DEF RemoveDeliveries
  <2>2. \/ Cascade(removal.ids) /\ removal' = [removal EXCEPT !.pc = "payloads"]
        \/ removal' = NoWork /\ UNCHANGED <<delivery, attempts>>
    BY <1>3 DEF RemoveDeliveries
  <2>3. removal' = NoWork \/ (removal'.webhook = removal.webhook /\ removal'.ids = removal.ids)
    BY <2>1, <2>2 DEF Removal
  <2>4. RowsAreKept
    BY <1>3, <2>2, CascadeKeepsRows, StatusKeepsRows DEF RemoveDeliveries
  <2> QED BY <1>3, <2>1, <2>3, <2>4 DEF RemoveDeliveries, RemovalIsOfRemoved, hooks
<1>4. ASSUME RemovePayloads PROVE RowsAreKept /\ RemovalIsOfRemoved'
  <2>1. removal # NoWork /\ payloads' \subseteq payloads
    BY <1>4, RemovalTypes DEF RemovePayloads
  <2>2. \A d \in RowsOf(removal.webhook) : d[2] = removal.webhook
    BY DEF RowsOf
  <2>3. RowsAreKept
    BY <1>4, <2>1 DEF RemovePayloads, RowsAreKept
  <2>4. RemovalIsOfRemoved'
    BY <1>4, <2>1, <2>2 DEF RemovePayloads, RemovalIsOfRemoved, hooks
  <2> QED BY <2>3, <2>4
<1>5. ASSUME RemoveWebhook PROVE RowsAreKept /\ RemovalIsOfRemoved'
  <2>1. RowsAreKept
    BY <1>5, CascadeKeepsRows DEF RemoveWebhook
  <2> QED BY <1>5, <2>1 DEF RemoveWebhook, RemovalIsOfRemoved
<1>6. ASSUME DeleteEventPayloads PROVE RowsAreKept /\ RemovalIsOfRemoved'
  <2>1. RowsAreKept
    BY <1>6, CascadeKeepsRows DEF DeleteEventPayloads, DeletePayloads
  <2> QED BY <1>6, <2>1 DEF DeleteEventPayloads, RemovalIsOfRemoved, hooks
<1>7. /\ trigger' = trigger /\ worker' = worker /\ queue' = queue /\ asking' = asking
      /\ history' = history /\ removed' = removed /\ young' = young
  BY DEF CleanUp, RemoveApps, SelectDeliveries, RemoveAttempts, RemoveDeliveries, RemovePayloads,
         RemoveWebhook, DeleteEventPayloads, hooks, history
<1> QED BY <1>1, <1>2, <1>3, <1>4, <1>5, <1>6, <1>7 DEF CleanUp, RemoveApps

(* What a request that triggers webhooks does.                             *)
TriggerStep(e) ==
  \/ Trigger(e) \/ TriggerWebhooks(e) \/ TriggerFails(e) \/ DeliveriesAge(e)
  \/ \E w \in Webhooks : Send(e, w)

LEMMA TriggerRows ==
  ASSUME TypeOK, MadeOnce, NEW e \in Events, TriggerStep(e)
  PROVE  /\ \A d \in Deliveries :
              \/ delivery'[d] = delivery[d]
              \/ delivery[d] = "none" /\ delivery'[d] = "pending" /\ d[1] = e
         /\ attempts' = attempts /\ payloads \subseteq payloads'
         /\ worker' = worker /\ removal' = removal /\ received' = received /\ asked' = asked
         /\ removed' = removed /\ asking' = asking /\ dropped \subseteq dropped'
         /\ \A f \in Events \ {e} : trigger'[f] = trigger[f]
<1>1. ASSUME NEW pc \in {"regularPayload", "subscribedPayload"}, NEW next, NEW W \in SUBSET Webhooks,
             CreateDeliveries(e, pc, next, W),
             \A w \in W : w \in Subscribed <=> pc = "subscribedPayload"
      PROVE  \A d \in Deliveries :
               \/ delivery'[d] = delivery[d]
               \/ delivery[d] = "none" /\ delivery'[d] = "pending" /\ d[1] = e
  <2>1. \A d \in Deliveries : d[1] = e /\ d[2] \in W => ~Created(d)
    BY <1>1 DEF CreateDeliveries, Created
  <2> QED BY <1>1, <2>1 DEF CreateDeliveries, MadeOnce
<1>2. \A d \in Deliveries :
        \/ delivery'[d] = delivery[d]
        \/ delivery[d] = "none" /\ delivery'[d] = "pending" /\ d[1] = e
  <2>1. Regular(e) \in SUBSET Webhooks /\ \A w \in Regular(e) : w \notin Subscribed
    BY DEF Regular, TypeOK, Sending
  <2>2. {w \in Subscribed : <<e, {w}>> \in payloads} \in SUBSET Webhooks
    BY WebhookModel
  <2>3. CASE CreateDeliveries(e, "regularPayload", "subscribed", Regular(e))
    BY <1>1, <2>1, <2>3
  <2>4. CASE CreateDeliveries(e, "subscribedPayload", "ready", {w \in Subscribed : <<e, {w}>> \in payloads})
    BY <1>1, <2>2, <2>4
  <2> QED BY <2>3, <2>4
         DEF TriggerStep, Trigger, TriggerWebhooks, TriggerFails, DeliveriesAge, Send, CreatePayloads, rows
<1>3. /\ attempts' = attempts /\ payloads \subseteq payloads'
      /\ worker' = worker /\ removal' = removal /\ received' = received /\ asked' = asked
      /\ removed' = removed /\ asking' = asking /\ dropped \subseteq dropped'
      /\ \A f \in Events \ {e} : trigger'[f] = trigger[f]
  BY DEF TriggerStep, Trigger, TriggerWebhooks, TriggerFails, DeliveriesAge, Send, CreatePayloads,
         CreateDeliveries, rows, hooks, history, TypeOK
<1> QED BY <1>2, <1>3

(* Where the trigger of e is after a step; other triggers stay.            *)
LEMMA TriggerMoves ==
  ASSUME TypeOK, NEW e \in Events, NEW next, trigger' = [trigger EXCEPT ![e].pc = next]
  PROVE  trigger'[e].pc = next /\ trigger'[e].to = trigger[e].to
<1>1. trigger[e] \in Sending /\ trigger'[e] = [trigger[e] EXCEPT !.pc = next]
  BY DEF TypeOK
<1> QED BY <1>1 DEF Sending

LEMMA SingleOrShared ==
  ASSUME NEW e \in Events, NEW v \in Webhooks, NEW w \in Subscribed,
         NEW f \in Events, PayloadOf(<<e, v>>) = <<f, {w}>>
  PROVE  e = f /\ v = w
<1>1. CASE v \in Subscribed
  BY <1>1 DEF PayloadOf
<1>2. CASE v \notin Subscribed
  BY <1>2 DEF PayloadOf
<1> QED BY <1>1, <1>2

LEMMA TriggerMakesOnce ==
  ASSUME TypeOK, MadeOnce, NEW e \in Events, TriggerStep(e)
  PROVE  MadeOnce'
<1>1. \A d \in Deliveries : d[1] \in Events /\ d[2] \in Webhooks
  BY PayloadTypes
<1>2. \A f \in Events \ {e} : trigger'[f] = trigger[f]
  BY TriggerRows
<1>3. CASE Trigger(e) \/ TriggerFails(e)
  <2>1. \/ trigger[e].pc = "idle" \/ trigger'[e].pc = "ready"
    BY <1>3 DEF Trigger, TriggerFails, TypeOK
  <2>2. UNCHANGED <<payloads, delivery>>
    BY <1>3 DEF Trigger, TriggerFails, rows
  <2> QED BY <1>1, <1>2, <2>1, <2>2 DEF MadeOnce, Created
<1>4. CASE DeliveriesAge(e)
  BY <1>4 DEF DeliveriesAge, rows, MadeOnce, Created
<1>5. ASSUME NEW w \in Webhooks, Send(e, w) PROVE MadeOnce'
  <2>1. trigger[e].pc = "ready" /\ trigger'[e].pc = "ready"
    BY <1>5 DEF Send, TypeOK, Sending
  <2>2. UNCHANGED <<payloads, delivery>>
    BY <1>5 DEF Send, rows
  <2> QED BY <1>1, <1>2, <2>1, <2>2 DEF MadeOnce, Created
<1>6. CASE CreatePayloads(e, "regular", "regularPayload", Regular(e))
  <2>1. trigger[e].pc = "regular" /\ delivery' = delivery
        /\ payloads' = payloads \cup {PayloadOf(<<e, w>>) : w \in Regular(e)}
    BY <1>6 DEF CreatePayloads
  <2>2. \A d \in Deliveries : delivery'[d] # "none" => d[1] # e
    BY <2>1 DEF MadeOnce, Created
  <2>3. \A v \in Regular(e) : v \in Webhooks /\ v \notin Subscribed
    BY DEF Regular, TypeOK, Sending
  <2>4. \A f \in Events, w \in Subscribed : <<f, {w}>> \in payloads' => <<f, {w}>> \in payloads
    BY <2>1, <2>3, SingleOrShared
  <2>5. \A w \in Subscribed : <<e, {w}>> \notin payloads
    BY <2>1 DEF MadeOnce
  <2> QED BY <1>1, <1>2, <2>1, <2>2, <2>4, <2>5 DEF MadeOnce, Created
<1>7. ASSUME NEW W \in SUBSET (trigger[e].to \cap Subscribed),
             CreatePayloads(e, "subscribed", "subscribedPayload", W)
      PROVE  MadeOnce'
  <2>1. trigger[e].pc = "subscribed" /\ delivery' = delivery
        /\ payloads' = payloads \cup {PayloadOf(<<e, w>>) : w \in W}
        /\ trigger'[e].pc = "subscribedPayload" /\ trigger'[e].to = trigger[e].to
    BY <1>7, TriggerMoves DEF CreatePayloads
  <2>2. \A d \in Deliveries : delivery'[d] # "none" => Created(d)'
    BY <1>1, <1>2, <2>1 DEF MadeOnce, Created
  <2>3. \A w \in Subscribed : <<e, {w}>> \notin payloads
    BY <2>1 DEF MadeOnce
  <2>4. \A f \in Events, w \in Subscribed :
          <<f, {w}>> \in payloads' => <<f, {w}>> \in payloads \/ (f = e /\ w \in W)
    BY <2>1, SingleOrShared, WebhookModel
  <2> QED BY <1>2, <2>1, <2>2, <2>3, <2>4 DEF MadeOnce
<1>8. CASE CreateDeliveries(e, "regularPayload", "subscribed", Regular(e))
  <2>1. trigger[e].pc = "regularPayload" /\ payloads' = payloads
        /\ delivery' = [d \in Deliveries |-> IF d[1] = e /\ d[2] \in Regular(e) THEN "pending" ELSE delivery[d]]
        /\ trigger'[e].pc = "subscribed"
    BY <1>8, TriggerMoves DEF CreateDeliveries
  <2>2. \A w \in Subscribed : <<e, {w}>> \notin payloads
    BY <2>1 DEF MadeOnce
  <2>3. ASSUME NEW d \in Deliveries, delivery'[d] # "none" PROVE Created(d)'
    <3>1. CASE d[1] # e
      BY <1>1, <1>2, <2>1, <2>3, <3>1 DEF MadeOnce, Created
    <3>2. CASE d[1] = e
      <4>1. ~Created(d)
        BY <2>1, <3>2 DEF Created
      <4>2. d[2] \in Regular(e)
        BY <2>1, <2>3, <3>2, <4>1 DEF MadeOnce
      <4> QED BY <2>1, <3>2, <4>2 DEF Created, Regular
    <3> QED BY <3>1, <3>2
  <2> QED BY <1>2, <2>1, <2>2, <2>3 DEF MadeOnce
<1>9. CASE CreateDeliveries(e, "subscribedPayload", "ready", {w \in Subscribed : <<e, {w}>> \in payloads})
  <2>1. payloads' = payloads /\ trigger'[e].pc = "ready"
        /\ \A d \in Deliveries : d[1] # e => delivery'[d] = delivery[d]
    BY <1>9, TriggerMoves DEF CreateDeliveries
  <2>2. \A d \in Deliveries : delivery'[d] # "none" => Created(d)'
    BY <1>1, <1>2, <2>1 DEF MadeOnce, Created
  <2> QED BY <1>2, <2>1, <2>2 DEF MadeOnce
<1> QED BY <1>3, <1>4, <1>5, <1>6, <1>7, <1>8, <1>9 DEF TriggerStep, TriggerWebhooks

LEMMA MadeOnceStays ==
  ASSUME MadeOnce, RowsAreKept, trigger' = trigger
  PROVE  MadeOnce'
BY DEF MadeOnce, RowsAreKept, Created

(* What a worker knows stays true as long as it waits.                     *)
LEMMA KnownStays ==
  ASSUME NEW task \in Task, NEW k \in Workers, Known(task, k), RowsAreKept, removed \subseteq removed',
         \A d \in Deliveries : received[d] > 0 => received'[d] > 0
  PROVE  /\ LET d == task.delivery IN
              /\ delivery'[d] # "none"
              /\ task.pc = "answered" =>
                   <<d, k>> \in attempts' \/ delivery'[d] = "deleted" \/ d[2] \in removed'
              /\ task.pc = "cleared" => delivery'[d] = "deleted"
              /\ task.pc = "answered" /\ task.result = "success" => received'[d] > 0
              /\ task.pc = "sent" => received'[d] > 0
<1> DEFINE d == task.delivery
<1>1. d \in Deliveries
  BY DEF Task
<1>2. <<d, k>>[1] = d
  OBVIOUS
<1>3. task.pc = "answered" =>
        <<d, k>> \in attempts' \/ delivery'[d] = "deleted" \/ d[2] \in removed'
  <2>1. <<d, k>> \in attempts => <<d, k>> \in attempts' \/ delivery'[d] = "deleted" \/ d[2] \in removed
    BY <1>2 DEF RowsAreKept
  <2> QED BY <1>1, <2>1 DEF Known, RowsAreKept
<1> QED BY <1>1, <1>3 DEF Known, RowsAreKept

LEMMA TriggerKeepsRows ==
  ASSUME TypeOK, MadeOnce, NEW e \in Events, TriggerStep(e), WorkersKnow
  PROVE  WorkersKnow'
<1>1. /\ \A d \in Deliveries :
           \/ delivery'[d] = delivery[d]
           \/ delivery[d] = "none" /\ delivery'[d] = "pending" /\ d[1] = e
      /\ attempts' = attempts /\ worker' = worker /\ received' = received /\ removed' = removed
  BY TriggerRows
<1>2. \A k \in Workers : worker[k] # NoWork => worker[k].delivery \in Deliveries
  BY TaskTypes
<1> QED BY <1>1, <1>2 DEF WorkersKnow, Known

LEMMA OthersKeepKnown ==
  ASSUME TypeOK, WorkersKnow, RowsAreKept, removed \subseteq removed', NEW K \in SUBSET Workers,
         \A k \in K : worker'[k] = worker[k],
         \A d \in Deliveries : received[d] > 0 => received'[d] > 0
  PROVE  \A k \in K : worker'[k] # NoWork => Known(worker[k], k)'
<1> SUFFICES ASSUME NEW k \in K, worker'[k] # NoWork PROVE Known(worker[k], k)'
  OBVIOUS
<1>1. worker[k] \in Task /\ Known(worker[k], k) /\ worker'[k] = worker[k]
  BY TaskTypes DEF WorkersKnow
<1> QED BY <1>1, KnownStays DEF Known

LEMMA WorkerKnows ==
  ASSUME TypeOK, WorkersKnow, NEW k \in Workers, WorkerStep(k) \/ WorkerDies(k)
  PROVE  WorkersKnow'
<1>0. /\ RowsAreKept /\ removed' = removed
      /\ \A j \in Workers \ {k} : worker'[j] = worker[j]
      /\ \A d \in Deliveries : received[d] > 0 => received'[d] > 0
  BY WorkerRows DEF hooks
<1>a. \A j \in Workers \ {k} : worker'[j] # NoWork => Known(worker[j], j)'
  BY <1>0, OthersKeepKnown
<1>b. worker[k] # NoWork => worker[k] \in Task /\ worker[k].delivery \in Deliveries /\ Known(worker[k], k)
  BY TaskTypes DEF WorkersKnow
<1>c. Status \cap {"none", "deleted"} = {} /\ \A d \in Deliveries : Exists(d) => delivery[d] # "none"
  BY DEF Exists, Status
<1> SUFFICES worker'[k] # NoWork => Known(worker[k], k)'
  BY <1>a DEF WorkersKnow
<1>1. ASSUME NEW m \in Messages, Take(k, m) PROVE worker'[k] # NoWork => Known(worker[k], k)'
  <2> DEFINE d == m.delivery
             task == [pc |-> "read", delivery |-> d, retries |-> m.retries, result |-> "none"]
  <2>1. d \in Deliveries /\ task.delivery = d /\ task.pc = "read"
    BY DEF Messages
  <2>2. worker' = [worker EXCEPT ![k] = IF Exists(d) /\ webhook[d[2]] = "active" THEN task ELSE NoWork]
    BY <1>1 DEF Take
  <2> HIDE DEF task
  <2>3. worker'[k] = NoWork \/ (worker'[k] = task /\ Exists(d))
    BY <2>2 DEF TypeOK
  <2>4. Exists(d) => delivery'[d] # "none"
    BY <1>0, <1>c, <2>1 DEF RowsAreKept
  <2> QED BY <2>1, <2>3, <2>4 DEF Known
<1>2. ASSUME NEW result \in {"success", "refused", "failed"}, Post(k, result)
      PROVE  worker'[k] # NoWork => Known(worker[k], k)'
  <2> DEFINE d == worker[k].delivery
  <2>1. worker[k] # NoWork /\ d \in Deliveries /\ Exists(d) /\ <<d, k>> \in attempts'
        /\ worker[k] \in Task
    BY <1>2, <1>b, TaskTypes DEF Post
  <2>2. worker'[k] = [worker[k] EXCEPT !.pc = "answered", !.result = result]
    BY <1>2 DEF Post, TypeOK
  <2>3. worker'[k].pc = "answered" /\ worker'[k].result = result /\ worker'[k].delivery = d
    BY <2>1, <2>2 DEF Task
  <2>4. result = "success" => received'[d] > 0
    <3>1. received' = [received EXCEPT ![d] =
            IF result = "success" /\ @ <= 1 + asked[d] THEN @ + 1 ELSE @]
      BY <1>2 DEF Post
    <3> HIDE DEF d
    <3>2. received[d] \in Nat /\ asked[d] \in Nat
      BY <2>1 DEF TypeOK
    <3>3. received'[d] = IF result = "success" /\ received[d] <= 1 + asked[d] THEN received[d] + 1 ELSE received[d]
      BY <2>1, <3>1 DEF TypeOK
    <3> QED BY <3>2, <3>3
  <2>5. delivery'[d] # "none"
    BY <1>0, <1>c, <2>1 DEF RowsAreKept
  <2> QED BY <2>1, <2>3, <2>4, <2>5 DEF Known
<1>3. ASSUME Record(k) PROVE worker'[k] # NoWork => Known(worker[k], k)'
  <2> DEFINE d == worker[k].delivery
  <2>1. worker[k] # NoWork /\ d \in Deliveries /\ worker[k].pc = "answered" /\ Known(worker[k], k)
    BY <1>3, <1>b, TaskTypes DEF Record
  <2>2. Ends(k) \/ (worker[k].result = "success" /\ Goes(k, "sent"))
    BY <1>3 DEF Record
  <2>3. CASE Ends(k)
    BY <2>3, TaskEnds
  <2>4. CASE worker[k].result = "success" /\ Goes(k, "sent")
    <3>1. worker'[k].pc = "sent" /\ worker'[k].delivery = d
      BY <2>1, <2>4, TaskGoes
    <3>2. delivery'[d] # "none" /\ received'[d] > 0
      BY <1>0, <2>1, <2>4 DEF Known, RowsAreKept
    <3> QED BY <3>1, <3>2 DEF Known
  <2> QED BY <2>2, <2>3, <2>4
<1>4. ASSUME Clear(k) PROVE worker'[k] # NoWork => Known(worker[k], k)'
  <2> DEFINE d == worker[k].delivery
  <2>1. worker[k] # NoWork /\ d \in Deliveries /\ Known(worker[k], k) /\ Cascade({d})
    BY <1>4, <1>b, TaskTypes DEF Clear
  <2>2. worker'[k].pc = "cleared" /\ worker'[k].delivery = d
    BY <1>4, <2>1, TaskGoes DEF Clear
  <2>3. delivery'[d] = "deleted"
    BY <2>1 DEF Cascade, Known, Exists, TypeOK
  <2> QED BY <2>2, <2>3 DEF Known
<1>5. ASSUME ClearPayload(k) \/ RowIsGone(k) \/ WorkerDies(k) PROVE worker'[k] = NoWork
  BY <1>5, TaskEnds DEF ClearPayload, RowIsGone, WorkerDies
<1> QED BY <1>1, <1>2, <1>3, <1>4, <1>5 DEF WorkerStep

(* The inductive invariant, in one piece.                                  *)
RowsOK == TypeOK /\ MadeOnce /\ RemovalIsOfRemoved /\ WorkersKnow

LEMMA RowsStep ==
  ASSUME RowsOK, [Next]_vars
  PROVE  RowsOK'
<1>0. TypeOK'
  BY StepTypes DEF RowsOK
<1>1. ASSUME NEW e \in Events, TriggerStep(e) PROVE RowsOK'
  BY <1>0, <1>1, TriggerRows, TriggerMakesOnce, TriggerKeepsRows DEF RowsOK, RemovalIsOfRemoved
<1>2. ASSUME NEW k \in Workers, WorkerStep(k) \/ WorkerDies(k) PROVE RowsOK'
  BY <1>0, <1>2, WorkerRows, MadeOnceStays, WorkerKnows DEF RowsOK, RemovalIsOfRemoved, hooks
<1>3. ASSUME CallStep \/ CleanUp PROVE RowsOK'
  <2>1. /\ RowsAreKept /\ trigger' = trigger /\ worker' = worker /\ received' = received
        /\ removed \subseteq removed'
    BY <1>3, CallRows, CleanUpRows DEF RowsOK, history
  <2>2. RemovalIsOfRemoved'
    BY <1>3, <2>1, CallRows, CleanUpRows DEF RowsOK, RemovalIsOfRemoved
  <2>3. WorkersKnow'
    BY <2>1, OthersKeepKnown DEF RowsOK, WorkersKnow
  <2> QED BY <1>0, <2>1, <2>2, <2>3, MadeOnceStays DEF RowsOK
<1>4. CASE UNCHANGED vars
  BY <1>0, <1>4 DEF vars, rows, hooks, history, RowsOK, MadeOnce, Created, RemovalIsOfRemoved,
                    WorkersKnow, Known
<1> QED BY <1>1, <1>2, <1>3, <1>4 DEF Next, TriggerStep, CallStep, CleanUp

LEMMA RowsInit == Init => RowsOK
<1> SUFFICES ASSUME Init PROVE RowsOK
  OBVIOUS
<1>1. \A d \in Deliveries : delivery[d] = "none"
  BY DEF Init
<1>2. MadeOnce /\ RemovalIsOfRemoved /\ WorkersKnow
  BY <1>1 DEF Init, MadeOnce, RemovalIsOfRemoved, WorkersKnow
<1> QED BY <1>2, InitTypes DEF RowsOK

LEMMA RowsAlways == Spec => []RowsOK
<1>1. RowsOK /\ [Next]_vars => RowsOK'
  BY RowsStep
<1> QED BY <1>1, RowsInit, PTL DEF Spec

-----------------------------------------------------------------------------
(* No delivery is forgotten.                                               *)
Open(d) == delivery[d] \in {"pending", "success"}
Held(d) == InHand(d) \/ d \in dropped \/ d[2] \in removed
AllHeld == \A d \in Deliveries : Open(d) => Held(d)

LEMMA TriggerHolds ==
  ASSUME RowsOK, AllHeld, NEW e \in Events, TriggerStep(e)
  PROVE  AllHeld'
<1>0. /\ \A d \in Deliveries :
           \/ delivery'[d] = delivery[d]
           \/ delivery[d] = "none" /\ delivery'[d] = "pending" /\ d[1] = e
      /\ worker' = worker /\ removed' = removed /\ asking' = asking /\ dropped \subseteq dropped'
      /\ \A f \in Events \ {e} : trigger'[f] = trigger[f]
  BY TriggerRows DEF RowsOK
<1>1. \A d \in Deliveries : d[1] \in Events /\ d[2] \in Webhooks /\ d = <<d[1], d[2]>>
  BY PayloadTypes
<1>2. TypeOK
  BY DEF RowsOK
<1>3. CASE Trigger(e)
  <2>1. trigger[e].pc = "idle" /\ delivery' = delivery /\ queue' = queue
    BY <1>3 DEF Trigger, rows
  <2> QED BY <1>0, <1>1, <2>1 DEF AllHeld, Open, Held, InHand, Queued
<1>4. CASE TriggerFails(e)
  <2>1. /\ delivery' = delivery /\ queue' = queue
        /\ \A d \in Deliveries : d[1] = e /\ d[2] \in trigger[e].to => d \in dropped'
    BY <1>4 DEF TriggerFails, rows
  <2> QED BY <1>0, <1>1, <2>1 DEF AllHeld, Open, Held, InHand, Queued
<1>5. CASE DeliveriesAge(e)
  BY <1>0, <1>5 DEF DeliveriesAge, rows, AllHeld, Open, Held, InHand, Queued
<1>6. ASSUME NEW pc, NEW next \in {"regularPayload", "subscribedPayload"}, NEW W,
             CreatePayloads(e, pc, next, W), pc # "idle"
      PROVE  AllHeld'
  <2>1. /\ delivery' = delivery /\ queue' = queue
        /\ trigger'[e].pc = next /\ trigger'[e].to = trigger[e].to
    BY <1>2, <1>6, TriggerMoves DEF CreatePayloads
  <2> QED BY <1>0, <1>1, <2>1 DEF AllHeld, Open, Held, InHand, Queued
<1>7. ASSUME NEW pc, NEW next \in {"subscribed", "ready"}, NEW W \in SUBSET trigger[e].to,
             CreateDeliveries(e, pc, next, W), pc # "idle"
      PROVE  AllHeld'
  <2>1. /\ queue' = queue
        /\ delivery' = [d \in Deliveries |-> IF d[1] = e /\ d[2] \in W THEN "pending" ELSE delivery[d]]
        /\ trigger'[e].pc = next /\ trigger'[e].to = trigger[e].to
    BY <1>2, <1>7, TriggerMoves DEF CreateDeliveries
  <2> QED BY <1>0, <1>1, <2>1 DEF AllHeld, Open, Held, InHand, Queued
<1>8. CASE TriggerWebhooks(e)
  <2>1. Regular(e) \in SUBSET trigger[e].to
    BY DEF Regular
  <2>2. trigger[e].pc = "subscribedPayload" =>
          {w \in Subscribed : <<e, {w}>> \in payloads} \in SUBSET trigger[e].to
    BY DEF RowsOK, MadeOnce
  <2>3. CASE CreateDeliveries(e, "subscribedPayload", "ready", {w \in Subscribed : <<e, {w}>> \in payloads})
    BY <1>7, <2>2, <2>3 DEF CreateDeliveries
  <2> QED BY <1>6, <1>7, <1>8, <2>1, <2>3 DEF TriggerWebhooks
<1>9. ASSUME NEW w \in Webhooks, Send(e, w) PROVE AllHeld'
  <2> DEFINE m == Message(<<e, w>>, 0)
  <2>1. m \in Messages /\ m.delivery = <<e, w>>
    BY MessageTypes, WebhookModel DEF Deliveries
  <2>2. /\ delivery' = delivery
        /\ queue' = IF delivery[<<e, w>>] = "none" THEN queue ELSE [queue EXCEPT ![m] = @ + 1]
        /\ trigger'[e].pc = "ready" /\ trigger'[e].to = trigger[e].to \ {w}
    BY <1>2, <1>9 DEF Send, rows, TypeOK, Sending
  <2> HIDE DEF m
  <2>3. \A x \in Messages : queue[x] > 0 => queue'[x] > 0
    BY <1>2, <2>1, <2>2 DEF TypeOK
  <2>4. delivery[<<e, w>>] # "none" => queue'[m] > 0
    BY <1>2, <2>1, <2>2 DEF TypeOK
  <2>5. ASSUME NEW d \in Deliveries, Open(d)', d[1] = e, d[2] = w PROVE InHand(d)'
    <3>1. m.delivery = d /\ delivery[<<e, w>>] # "none"
      BY <1>1, <2>1, <2>2, <2>5 DEF Open
    <3> QED BY <2>1, <2>4, <3>1 DEF InHand, Queued
  <2>6. ASSUME NEW d \in Deliveries, Open(d)', ~(d[1] = e /\ d[2] = w) PROVE Held(d)'
    <3>1. Held(d)
      BY <2>2, <2>6 DEF AllHeld, Open
    <3>2. /\ trigger[d[1]].pc # "idle" /\ d[2] \in trigger[d[1]].to =>
               trigger'[d[1]].pc # "idle" /\ d[2] \in trigger'[d[1]].to
          /\ \A x \in Queued : x.delivery = d => x \in Queued'
      BY <1>0, <1>1, <2>2, <2>3, <2>6 DEF Queued
    <3> QED BY <1>0, <3>1, <3>2 DEF Held, InHand
  <2> QED BY <2>5, <2>6 DEF AllHeld, Held
<1> QED BY <1>3, <1>4, <1>5, <1>8, <1>9 DEF TriggerStep

LEMMA WorkerHolds ==
  ASSUME RowsOK, AllHeld, NEW k \in Workers, WorkerStep(k) \/ WorkerDies(k)
  PROVE  AllHeld'
<1>0. /\ RowsAreKept /\ trigger' = trigger /\ removed' = removed /\ asking' = asking
      /\ dropped \subseteq dropped'
      /\ \A j \in Workers \ {k} : worker'[j] = worker[j]
  BY WorkerRows DEF RowsOK, hooks
<1>2. TypeOK /\ WorkersKnow
  BY DEF RowsOK
<1>b. worker[k] # NoWork => worker[k] \in Task /\ worker[k].delivery \in Deliveries /\ Known(worker[k], k)
  BY <1>2, TaskTypes DEF WorkersKnow
\* A delivery stays in hand if it is not with this worker, and its messages stay.
<1>c. ASSUME NEW d \in Deliveries, Held(d), worker[k] # NoWork => worker[k].delivery # d,
             \A m \in Queued : m.delivery = d => m \in Queued'
      PROVE  Held(d)'
  BY <1>0, <1>c DEF Held, InHand
<1>1. ASSUME NEW m \in Messages, Take(k, m), NEW d \in Deliveries, Open(d)' PROVE Held(d)'
  <2>1. /\ worker[k] = NoWork /\ queue' = [queue EXCEPT ![m] = @ - 1]
        /\ worker' = [worker EXCEPT ![k] =
             IF Exists(m.delivery) /\ webhook[m.delivery[2]] = "active"
             THEN [pc |-> "read", delivery |-> m.delivery, retries |-> m.retries, result |-> "none"]
             ELSE NoWork]
        /\ delivery' = IF Exists(m.delivery) /\ webhook[m.delivery[2]] # "active"
                       THEN [delivery EXCEPT ![m.delivery] = "failed"] ELSE delivery
    BY <1>1 DEF Take, GiveUp
  <2>2. m.delivery \in Deliveries
    BY DEF Messages
  <2>3. \A x \in Queued : x # m => x \in Queued'
    BY <1>2, <2>1 DEF Queued, TypeOK
  <2>4. CASE m.delivery = d
    <3>1. delivery' = delivery /\ Exists(d) /\ webhook[d[2]] = "active"
      BY <1>1, <1>2, <2>1, <2>2, <2>4 DEF Open, Exists, Status, TypeOK
    <3>2. worker'[k] = [pc |-> "read", delivery |-> d, retries |-> m.retries, result |-> "none"]
      BY <1>2, <2>1, <2>4, <3>1 DEF TypeOK
    <3>3. worker'[k] # NoWork /\ worker'[k].delivery = d
      BY <3>2 DEF NoWork
    <3> QED BY <3>3 DEF Held, InHand
  <2>5. CASE m.delivery # d
    <3>1. Open(d)
      BY <1>1, <1>2, <2>1, <2>2, <2>5 DEF Open, TypeOK
    <3>2. Held(d)
      BY <3>1 DEF AllHeld
    <3> QED BY <1>c, <2>1, <2>3, <2>5, <3>2
  <2> QED BY <2>4, <2>5
<1>3. ASSUME NEW result \in {"success", "refused", "failed"}, Post(k, result),
             NEW d \in Deliveries, Open(d)'
      PROVE  Held(d)'
  <2>1. worker[k] \in Task /\ delivery' = delivery /\ queue' = queue /\ NoWork \notin Task
        /\ worker'[k] = [worker[k] EXCEPT !.pc = "answered", !.result = result]
    BY <1>2, <1>3, TaskTypes DEF Post, TypeOK
  <2>2. worker'[k] \in Task /\ worker'[k].delivery = worker[k].delivery
    BY <2>1 DEF Task
  <2>3. Held(d)
    BY <1>3, <2>1 DEF AllHeld, Open
  <2>4. CASE worker[k].delivery = d
    BY <2>1, <2>2, <2>4 DEF Held, InHand
  <2>5. CASE worker[k].delivery # d
    BY <1>c, <2>1, <2>3, <2>5 DEF Queued
  <2> QED BY <2>4, <2>5
<1>4. ASSUME Record(k), NEW d \in Deliveries, Open(d)' PROVE Held(d)'
  <2> DEFINE x == worker[k].delivery  n == worker[k].retries  result == worker[k].result
             m == Message(x, NextRetry(n))
  <2>1. worker[k] # NoWork /\ x \in Deliveries /\ n \in 0..MaxRetries
    BY <1>2, <1>4, <1>b, TaskTypes DEF Record, Task
  <2>2. \/ /\ MayRetry(result, n) /\ delivery' = delivery
           /\ queue' = [queue EXCEPT ![m] = @ + 1]
        \/ /\ delivery' = [delivery EXCEPT ![x] = Outcome(result)] /\ queue' = queue
           /\ \/ result = "success" /\ Goes(k, "sent")
              \/ result # "success" /\ Ends(k)
    BY <1>4 DEF Record
  <2>3. MayRetry(result, n) => m \in Messages /\ m.delivery = x
    <3>1. MayRetry(result, n) => NextRetry(n) \in 0..MaxRetries
      BY <2>1, WebhookModel DEF MayRetry, NextRetry
    <3> QED BY <2>1, <3>1, MessageTypes
  <2> HIDE DEF m
  <2>4. \A y \in Queued : y \in Queued'
    BY <1>2, <2>2, <2>3 DEF Queued, TypeOK
  <2>5. CASE x = d
    <3>1. CASE MayRetry(result, n) /\ queue' = [queue EXCEPT ![m] = @ + 1]
      <4>1. m \in Queued'
        BY <1>2, <2>3, <3>1 DEF Queued, TypeOK
      <4> QED BY <2>3, <2>5, <3>1, <4>1 DEF Held, InHand
    <3>2. CASE result = "success" /\ Goes(k, "sent")
      <4>1. worker'[k] # NoWork /\ worker'[k].delivery = x
        BY <1>2, <2>1, <3>2, TaskGoes
      <4> QED BY <2>5, <4>1 DEF Held, InHand
    <3>3. CASE result # "success" /\ delivery' = [delivery EXCEPT ![x] = Outcome(result)]
      <4>1. delivery'[d] = "failed"
        BY <1>2, <2>1, <2>5, <3>3 DEF Outcome, TypeOK
      <4> QED BY <1>4, <4>1 DEF Open
    <3> QED BY <2>2, <3>1, <3>2, <3>3
  <2>6. CASE x # d
    <3>1. Open(d)
      BY <1>2, <1>4, <2>1, <2>2, <2>6 DEF Open, TypeOK
    <3>2. Held(d)
      BY <3>1 DEF AllHeld
    <3> QED BY <1>c, <2>4, <2>6, <3>2
  <2> QED BY <2>5, <2>6
\* Rows only go in the other steps, and what the worker lets go is not open, or dropped.
<1>5. ASSUME Clear(k) \/ ClearPayload(k) \/ RowIsGone(k) \/ WorkerDies(k),
             NEW d \in Deliveries, Open(d)'
      PROVE  Held(d)'
  <2>1. queue' = queue /\ Open(d)
    <3>1. delivery'[d] = delivery[d] \/ delivery'[d] = "deleted"
      BY <1>5 DEF Clear, ClearPayload, RowIsGone, WorkerDies, DeletePayloads, Cascade, rows
    <3> QED BY <1>5, <3>1 DEF Clear, ClearPayload, RowIsGone, WorkerDies, Open
  <2>2. Held(d)
    BY <2>1 DEF AllHeld
  <2>3. worker[k] # NoWork
    BY <1>2, <1>5, TaskTypes DEF Clear, ClearPayload, RowIsGone, WorkerDies
  <2>4. CASE worker[k].delivery # d
    BY <1>c, <2>1, <2>2, <2>4 DEF Queued
  <2>5. CASE worker[k].delivery = d
    <3>1. CASE Clear(k)
      <4>1. worker'[k] # NoWork /\ worker'[k].delivery = d
        BY <1>2, <2>3, <2>5, <3>1, TaskGoes DEF Clear
      <4> QED BY <4>1 DEF Held, InHand
    <3>2. CASE ClearPayload(k)
      <4>1. delivery[d] = "deleted"
        BY <1>b, <2>3, <2>5, <3>2 DEF ClearPayload, Known
      <4> QED BY <2>1, <4>1 DEF Open
    <3>3. CASE RowIsGone(k)
      <4>1. \/ ~Exists(d)
            \/ delivery[d] = "deleted" \/ d[2] \in removed
        BY <1>b, <2>3, <2>5, <3>3 DEF RowIsGone, Known
      <4>2. d[2] \in removed
        BY <2>1, <4>1 DEF Open, Exists, Status
      <4> QED BY <1>0, <4>2 DEF Held
    <3>4. CASE WorkerDies(k)
      BY <2>5, <3>4 DEF WorkerDies, Held
    <3> QED BY <1>5, <3>1, <3>2, <3>3, <3>4
  <2> QED BY <2>4, <2>5
<1> QED BY <1>1, <1>3, <1>4, <1>5 DEF WorkerStep, AllHeld

LEMMA CallHolds ==
  ASSUME RowsOK, AllHeld, CallStep
  PROVE  AllHeld'
<1>0. /\ trigger' = trigger /\ worker' = worker /\ removed \subseteq removed'
      /\ dropped \subseteq dropped'
  BY CallRows DEF RowsOK
<1>1. TypeOK
  BY DEF RowsOK
<1>2. ASSUME NEW d \in Deliveries, EventDeliveryRetry(d) PROVE AllHeld'
  <2>1. delivery' = [delivery EXCEPT ![d] = "pending"] /\ asking' = asking \cup {d} /\ queue' = queue
    BY <1>2 DEF EventDeliveryRetry
  <2> QED BY <1>0, <1>1, <2>1 DEF AllHeld, Open, Held, InHand, Queued, TypeOK
<1>3. ASSUME NEW d \in Deliveries, SendAgain(d) PROVE AllHeld'
  <2> DEFINE m == Message(d, 0)
  <2>1. m \in Messages /\ m.delivery = d
    BY MessageTypes, WebhookModel
  <2>2. delivery' = delivery /\ asking' = asking \ {d} /\ queue' = [queue EXCEPT ![m] = @ + 1]
    BY <1>3 DEF SendAgain, rows
  <2> HIDE DEF m
  <2>3. m \in Queued' /\ \A x \in Queued : x \in Queued'
    BY <1>1, <2>1, <2>2 DEF Queued, TypeOK
  <2> QED BY <1>0, <2>1, <2>2, <2>3 DEF AllHeld, Open, Held, InHand
<1>4. ASSUME NEW d \in Deliveries, SendAgainFails(d) PROVE AllHeld'
  BY <1>0, <1>4 DEF SendAgainFails, rows, AllHeld, Open, Held, InHand, Queued
<1>5. ASSUME NEW w \in Webhooks, WebhookUpdate(w) \/ AppDelete(w) \/ WebhookDelete(w) \/ DeleteWebhookFails(w)
      PROVE  AllHeld'
  <2>1. delivery' = delivery /\ queue' = queue /\ asking' = asking
    BY <1>5 DEF WebhookUpdate, AppDelete, WebhookDelete, DeleteWebhookFails, rows
  <2> QED BY <1>0, <2>1 DEF AllHeld, Open, Held, InHand, Queued
<1>6. ASSUME NEW w \in Webhooks, DeleteWebhook(w) PROVE AllHeld'
  <2>1. queue' = queue /\ asking' = asking /\ \A d \in Deliveries : Open(d)' => Open(d)
    BY <1>6 DEF DeleteWebhook, Cascade, Open
  <2> QED BY <1>0, <2>1 DEF AllHeld, Held, InHand, Queued
<1> QED BY <1>2, <1>3, <1>4, <1>5, <1>6 DEF CallStep

LEMMA CleanUpHolds ==
  ASSUME RowsOK, AllHeld, CleanUp
  PROVE  AllHeld'
<1>1. /\ trigger' = trigger /\ worker' = worker /\ queue' = queue /\ asking' = asking
      /\ dropped' = dropped /\ removed' = removed
  BY CleanUpRows DEF RowsOK, history
<1>2. \A d \in Deliveries : delivery'[d] = delivery[d] \/ delivery'[d] = "deleted"
  BY DEF CleanUp, RemoveApps, SelectDeliveries, RemoveAttempts, RemoveDeliveries, RemovePayloads,
         RemoveWebhook, DeleteEventPayloads, DeletePayloads, Cascade, rows
<1>3. \A d \in Deliveries : Open(d)' => Open(d)
  BY <1>2 DEF Open
<1> QED BY <1>1, <1>3 DEF AllHeld, Held, InHand, Queued

LEMMA HeldStep ==
  ASSUME RowsOK, AllHeld, [Next]_vars
  PROVE  AllHeld'
<1>1. CASE UNCHANGED vars
  BY <1>1 DEF vars, hooks, rows, history, AllHeld, Open, Held, InHand, Queued
<1> QED BY <1>1, TriggerHolds, WorkerHolds, CallHolds, CleanUpHolds
       DEF Next, TriggerStep, CallStep, CleanUp

(* A delivery that is pending, or whose success is recorded and whose row  *)
(* is still there, is with a request, on the queue or with a worker:       *)
(* send_webhook_request_async, handle_webhook_retry and eventDeliveryRetry *)
(* hand it on, whatever retries overlap, and only a process that fails or  *)
(* the removal of the app leaves one behind.                               *)
THEOREM NoDeliveryIsForgotten == Spec => []OpenDeliveryIsInHand
<1>1. Init => AllHeld
  BY DEF Init, AllHeld, Open
<1>2. RowsOK /\ AllHeld /\ [Next]_vars => AllHeld'
  BY HeldStep
<1>3. AllHeld => OpenDeliveryIsInHand
  BY DEF AllHeld, Open, Held, OpenDeliveryIsInHand
<1> QED BY <1>1, <1>2, <1>3, RowsAlways, PTL DEF Spec

-----------------------------------------------------------------------------
(* No young delivery is lost with a payload it shares.                     *)

LEMMA UnusedDeletesNothing ==
  ASSUME NEW P, \A p \in P : p[1] \in young => Unused(p), DeletePayloads(P),
         NEW d \in Deliveries, d[1] \in young, Exists(d)
  PROVE  delivery'[d] = delivery[d]
<1>1. PayloadOf(d)[1] = d[1]
  BY PayloadTypes
<1>2. PayloadOf(d) \notin P
  BY <1>1 DEF Unused
<1> QED BY <1>2 DEF DeletePayloads, Cascade

LEMMA ClearingStep ==
  ASSUME RowsOK, [Next]_vars, NEW d \in Deliveries,
         Exists(d), delivery'[d] = "deleted", d[1] \in young
  PROVE  received[d] > 0 \/ webhook'[d[2]] = "deleted" \/ d[2] \in removed
<1>0. TypeOK /\ MadeOnce /\ delivery[d] # "deleted"
  BY DEF RowsOK, Exists, Status
<1>1. ASSUME NEW e \in Events, TriggerStep(e) PROVE FALSE
  BY <1>0, <1>1, TriggerRows
<1>2. ASSUME NEW k \in Workers, WorkerStep(k) \/ WorkerDies(k) PROVE received[d] > 0
  <2>1. CASE Clear(k)
    <3>1. worker[k] # NoWork /\ worker[k].pc = "sent"
      BY <1>0, <2>1, TaskTypes DEF Clear
    <3>2. worker[k].delivery = d
      BY <1>0, <2>1 DEF Clear, Cascade
    <3> QED BY <3>1, <3>2 DEF RowsOK, WorkersKnow, Known
  <2>2. CASE ClearPayload(k)
    <3>1. PICK P : DeletePayloads(P) /\ \A p \in P : Unused(p)
      BY <2>2 DEF ClearPayload
    <3> QED BY <1>0, <3>1, UnusedDeletesNothing
  <2>3. ASSUME NEW m \in Messages, Take(k, m) PROVE FALSE
    BY <1>0, <2>3 DEF Take, GiveUp, TypeOK
  <2>4. CASE Record(k)
    BY <1>0, <2>4 DEF Record, Outcome, TypeOK
  <2> QED BY <1>0, <1>2, <2>1, <2>2, <2>3, <2>4 DEF WorkerStep, Post, RowIsGone, WorkerDies, rows
<1>3. ASSUME CallStep PROVE webhook'[d[2]] = "deleted"
  <2>1. ASSUME NEW w \in Webhooks, DeleteWebhook(w) PROVE webhook'[d[2]] = "deleted"
    <3>1. d \in RowsOf(w)
      BY <1>0, <2>1 DEF DeleteWebhook, Cascade
    <3> QED BY <1>0, <2>1, <3>1 DEF DeleteWebhook, RowsOf, TypeOK
  <2>2. ASSUME NEW x \in Deliveries, EventDeliveryRetry(x) PROVE FALSE
    BY <1>0, <2>2 DEF EventDeliveryRetry, TypeOK
  <2> QED BY <1>0, <1>3, <2>1, <2>2
         DEF CallStep, SendAgain, SendAgainFails, WebhookUpdate, AppDelete, WebhookDelete,
             DeleteWebhookFails, rows
<1>4. ASSUME CleanUp PROVE webhook'[d[2]] = "deleted" \/ d[2] \in removed
  <2>1. CASE RemoveDeliveries
    <3>1. removal # NoWork /\ d \in removal.ids
      BY <1>0, <2>1, RemovalTypes DEF RemoveDeliveries, Cascade
    <3> QED BY <3>1 DEF RowsOK, RemovalIsOfRemoved
  <2>2. CASE RemoveWebhook
    <3>1. removal.webhook \in Webhooks /\ d \in RowsOf(removal.webhook)
      BY <1>0, <2>2, RemovalTypes DEF RemoveWebhook, Cascade
    <3> QED BY <1>0, <2>2, <3>1 DEF RemoveWebhook, RowsOf, TypeOK
  <2>3. CASE DeleteEventPayloads
    <3>1. DeletePayloads(Expired) /\ \A p \in Expired : p[1] \in young => Unused(p)
      BY <2>3 DEF DeleteEventPayloads, Expired
    <3> QED BY <1>0, <3>1, UnusedDeletesNothing
  <2> QED BY <1>0, <1>4, <2>1, <2>2, <2>3
         DEF CleanUp, RemoveApps, SelectDeliveries, RemoveAttempts, RemovePayloads, rows
<1>5. CASE UNCHANGED vars
  BY <1>0, <1>5 DEF vars, rows
<1> QED BY <1>1, <1>2, <1>3, <1>4, <1>5 DEF Next, TriggerStep, CallStep, CleanUp

(* The row of a young delivery goes only when its request was answered 2xx *)
(* or with its webhook or app: clear_successful_delivery and               *)
(* delete_event_payloads_task delete payloads nobody young refers to, so   *)
(* that webhooks may share one.                                            *)
THEOREM SharedPayloadsAreSafe == Spec => OnlyReceivedIsCleared
<1>1. ASSUME RowsOK, [Next]_vars
      PROVE  [\A d \in Deliveries :
                Exists(d) /\ delivery'[d] = "deleted" /\ d[1] \in young
                => received[d] > 0 \/ webhook'[d[2]] = "deleted" \/ d[2] \in removed]_vars
  BY <1>1, ClearingStep
<1> QED BY <1>1, RowsAlways, PTL DEF Spec, OnlyReceivedIsCleared

-----------------------------------------------------------------------------
(* A webhook receives an event once per asking: every request that may yet *)
(* be made has its own reason, the event or a call of eventDeliveryRetry.  *)

Yes(b) == IF b THEN 1 ELSE 0

\* The task may still reach the webhook, itself or by the retry it puts on the queue.
MayPost(task, d) ==
  /\ task # NoWork /\ task.delivery = d
  /\ task.pc = "read" \/ (task.pc = "answered" /\ task.result = "failed")

Begins(d) == Yes(trigger[d[1]].pc = "idle" \/ d[2] \in trigger[d[1]].to)
OnQueue(d) == SumOver([n \in 0..MaxRetries |-> queue[Message(d, n)]], 0..MaxRetries)
Trying(d) == SumOver([k \in Workers |-> Yes(MayPost(worker[k], d))], Workers)
Waits(d) == Yes(d \in asking)

WithinAsking(d) ==
  received[d] + Begins(d) + OnQueue(d) + Trying(d) + Waits(d) <= 1 + asked[d]
Once == \A d \in Deliveries : WithinAsking(d)

LEMMA ChancesAreNat ==
  ASSUME TypeOK, NEW d \in Deliveries
  PROVE  /\ Begins(d) \in {0, 1} /\ OnQueue(d) \in Nat /\ Trying(d) \in Nat /\ Waits(d) \in {0, 1}
         /\ received[d] \in Nat /\ asked[d] \in Nat
<1>1. IsFiniteSet(0..MaxRetries) /\ IsFiniteSet(Workers)
  BY WebhookModel, FS_Interval
<1>2. [n \in 0..MaxRetries |-> queue[Message(d, n)]] \in [0..MaxRetries -> Nat]
  BY MessageTypes DEF TypeOK
<1>3. [k \in Workers |-> Yes(MayPost(worker[k], d))] \in [Workers -> Nat]
  BY DEF Yes
<1>4. OnQueue(d) \in Nat
  BY ONLY <1>1, <1>2, SumIsNat DEF OnQueue
<1>5. Trying(d) \in Nat
  BY ONLY <1>1, <1>3, SumIsNat DEF Trying
<1> QED BY <1>4, <1>5 DEF Begins, Waits, Yes, TypeOK

(* A message more or less, and a worker that moves.                        *)
LEMMA QueueMoves ==
  ASSUME TypeOK, queue' \in [Messages -> Nat], NEW m \in Messages,
         \A x \in Messages \ {m} : queue'[x] = queue[x], NEW d \in Deliveries
  PROVE  OnQueue(d)' = IF m.delivery = d THEN OnQueue(d) - queue[m] + queue'[m] ELSE OnQueue(d)
<1> DEFINE S == 0..MaxRetries
           f == [n \in S |-> queue[Message(d, n)]]
           g == [n \in S |-> queue'[Message(d, n)]]
<1>1. IsFiniteSet(S)
  BY WebhookModel, FS_Interval
<1>2. f \in [S -> Nat] /\ g \in [S -> Nat]
  BY MessageTypes DEF TypeOK
<1>3. OnQueue(d) = SumOver(f, S) /\ OnQueue(d)' = SumOver(g, S)
  BY DEF OnQueue, Message
<1>4. m.retries \in S /\ m = Message(m.delivery, m.retries)
  BY DEF Messages, Message
<1>5. CASE m.delivery = d
  <2>1. \A n \in S \ {m.retries} : f[n] = g[n]
    <3>1. \A n \in S \ {m.retries} : Message(d, n) \in Messages \ {m}
      BY MessageTypes
    <3> QED BY <3>1
  <2>2. f[m.retries] = queue[m] /\ g[m.retries] = queue'[m]
    BY <1>4, <1>5
  <2> HIDE DEF f, g, S
  <2>3. SumOver(g, S) = SumOver(f, S) - f[m.retries] + g[m.retries]
    BY ONLY <1>1, <1>2, <1>4, <2>1, SumOneChanged
  <2> QED BY <1>3, <1>5, <2>2, <2>3
<1>6. CASE m.delivery # d
  <2>1. \A n \in S : f[n] = g[n]
    <3>1. \A n \in S : Message(d, n) \in Messages \ {m}
      BY <1>6, MessageTypes
    <3> QED BY <3>1
  <2> HIDE DEF f, g, S
  <2>2. SumOver(f, S) = SumOver(g, S)
    BY ONLY <2>1, SumSame
  <2> QED BY <1>3, <1>6, <2>2
<1> QED BY <1>5, <1>6

LEMMA WorkerMoves ==
  ASSUME NEW k \in Workers, \A j \in Workers \ {k} : worker'[j] = worker[j], NEW d \in Deliveries
  PROVE  Trying(d)' = Trying(d) - Yes(MayPost(worker[k], d)) + Yes(MayPost(worker'[k], d))
<1> DEFINE f == [j \in Workers |-> Yes(MayPost(worker[j], d))]
           g == [j \in Workers |-> Yes(MayPost(worker'[j], d))]
<1>1. f \in [Workers -> Nat] /\ g \in [Workers -> Nat]
  BY DEF Yes
<1>2. \A j \in Workers \ {k} : f[j] = g[j]
  OBVIOUS
<1>3. f[k] = Yes(MayPost(worker[k], d)) /\ g[k] = Yes(MayPost(worker'[k], d))
  OBVIOUS
<1>4. Trying(d) = SumOver(f, Workers) /\ Trying(d)' = SumOver(g, Workers)
  BY DEF Trying, MayPost, NoWork
<1> HIDE DEF f, g
<1>5. SumOver(g, Workers) = SumOver(f, Workers) - f[k] + g[k]
  BY ONLY <1>1, <1>2, WebhookModel, SumOneChanged
<1> QED BY <1>3, <1>4, <1>5

LEMMA ChancesStay ==
  ASSUME NEW d \in Deliveries
  PROVE  /\ trigger' = trigger => Begins(d)' = Begins(d)
         /\ queue' = queue => OnQueue(d)' = OnQueue(d)
         /\ worker' = worker => Trying(d)' = Trying(d)
         /\ asking' = asking => Waits(d)' = Waits(d)
<1>1. queue' = queue => OnQueue(d)' = OnQueue(d)
  BY DEF OnQueue, Message
<1>2. worker' = worker => Trying(d)' = Trying(d)
  <2>1. ASSUME worker' = worker
        PROVE  [k \in Workers |-> Yes(MayPost(worker'[k], d))] = [k \in Workers |-> Yes(MayPost(worker[k], d))]
    BY <2>1
  <2>2. Trying(d)' = SumOver([k \in Workers |-> Yes(MayPost(worker'[k], d))], Workers)
    BY DEF Trying, MayPost, NoWork
  <2> QED BY <2>1, <2>2 DEF Trying
<1> QED BY <1>1, <1>2 DEF Begins, Waits

(* What a step adds to one side of the balance it takes from the other.    *)
LEMMA Balance ==
  ASSUME TypeOK, Once, NEW d \in Deliveries,
         received'[d] \in Int, Begins(d)' \in Int, OnQueue(d)' \in Int, Trying(d)' \in Int,
         Waits(d)' \in Int, asked'[d] \in Int,
         received'[d] - received[d] + (Begins(d)' - Begins(d)) + (OnQueue(d)' - OnQueue(d))
         + (Trying(d)' - Trying(d)) + (Waits(d)' - Waits(d)) <= asked'[d] - asked[d]
  PROVE  WithinAsking(d)'
<1> DEFINE b1 == Begins(d)  q1 == OnQueue(d)  t1 == Trying(d)  w1 == Waits(d)
           r1 == received[d]  a1 == asked[d]
           b2 == Begins(d)'  q2 == OnQueue(d)'  t2 == Trying(d)'  w2 == Waits(d)'
           r2 == received'[d]  a2 == asked'[d]
<1>1. /\ r1 \in Int /\ b1 \in Int /\ q1 \in Int /\ t1 \in Int /\ w1 \in Int /\ a1 \in Int
      /\ r2 \in Int /\ b2 \in Int /\ q2 \in Int /\ t2 \in Int /\ w2 \in Int /\ a2 \in Int
  BY ChancesAreNat
<1>2. r1 + b1 + q1 + t1 + w1 <= 1 + a1
  BY DEF Once, WithinAsking
<1>3. r2 - r1 + (b2 - b1) + (q2 - q1) + (t2 - t1) + (w2 - w1) <= a2 - a1
  OBVIOUS
<1> SUFFICES r2 + b2 + q2 + t2 + w2 <= 1 + a2
  BY DEF WithinAsking
<1> HIDE DEF b1, q1, t1, w1, r1, a1, b2, q2, t2, w2, r2, a2
<1> QED BY ONLY <1>1, <1>2, <1>3

LEMMA TriggerOnce ==
  ASSUME TypeOK, MadeOnce, Once, NEW e \in Events, TriggerStep(e), NEW d \in Deliveries
  PROVE  WithinAsking(d)'
<1>0. /\ received'[d] = received[d] /\ asked'[d] = asked[d]
      /\ Trying(d)' = Trying(d) /\ Waits(d)' = Waits(d)
      /\ \A f \in Events \ {e} : trigger'[f] = trigger[f]
  BY TriggerRows, ChancesStay
<1>1. /\ Begins(d) \in {0, 1} /\ OnQueue(d) \in Nat /\ Trying(d) \in Nat /\ Waits(d) \in {0, 1}
      /\ received[d] \in Nat /\ asked[d] \in Nat
  BY ChancesAreNat
<1>2. d[1] \in Events /\ d = <<d[1], d[2]>>
  BY PayloadTypes
<1>3. ASSUME queue' = queue, Begins(d)' \in {0, 1}, Begins(d)' <= Begins(d)
      PROVE  WithinAsking(d)'
  <2>1. OnQueue(d)' = OnQueue(d)
    BY <1>3, ChancesStay
  <2> QED BY <1>0, <1>1, <1>3, <2>1, Balance
<1>4. CASE Trigger(e) \/ TriggerFails(e)
  <2>1. queue' = queue /\ (trigger[e].pc = "idle" \/ (trigger'[e].pc = "ready" /\ trigger'[e].to = {}))
    BY <1>4 DEF Trigger, TriggerFails, TypeOK
  <2>2. Begins(d)' \in {0, 1} /\ Begins(d)' <= Begins(d)
    BY <1>0, <1>2, <2>1 DEF Begins, Yes
  <2> QED BY <1>3, <2>1, <2>2
<1>5. CASE DeliveriesAge(e)
  BY <1>1, <1>3, <1>5, ChancesStay DEF DeliveriesAge
<1>6. ASSUME NEW pc, NEW next \in {"regularPayload", "subscribed", "subscribedPayload", "ready"}, NEW W,
             CreatePayloads(e, pc, next, W) \/ CreateDeliveries(e, pc, next, W)
      PROVE  WithinAsking(d)'
  <2>1. queue' = queue /\ trigger'[e].pc # "idle" /\ trigger'[e].to = trigger[e].to
    BY <1>6, TriggerMoves DEF CreatePayloads, CreateDeliveries
  <2>2. Begins(d)' \in {0, 1} /\ Begins(d)' <= Begins(d)
    BY <1>0, <1>2, <2>1 DEF Begins, Yes
  <2> QED BY <1>3, <2>1, <2>2
<1>7. ASSUME NEW w \in Webhooks, Send(e, w)
      PROVE  WithinAsking(d)'
  <2> DEFINE m == Message(<<e, w>>, 0)
  <2>1. m \in Messages /\ m.delivery = <<e, w>>
    BY MessageTypes, WebhookModel DEF Deliveries
  <2>2. /\ trigger[e].pc = "ready" /\ w \in trigger[e].to
        /\ trigger'[e].pc = "ready" /\ trigger'[e].to = trigger[e].to \ {w}
        /\ queue' = queue \/ queue' = [queue EXCEPT ![m] = @ + 1]
    BY <1>7 DEF Send, TypeOK, Sending
  <2> HIDE DEF m
  <2>3. Begins(d)' = IF d = <<e, w>> THEN 0 ELSE Begins(d)
    BY <1>0, <1>2, <2>2 DEF Begins, Yes
  <2>4. d = <<e, w>> => Begins(d) = 1
    BY <2>2 DEF Begins, Yes
  <2>5. OnQueue(d)' = OnQueue(d) \/ (d = <<e, w>> /\ OnQueue(d)' = OnQueue(d) + 1)
    <3>1. CASE queue' = queue
      BY <3>1, ChancesStay
    <3>2. CASE queue' = [queue EXCEPT ![m] = @ + 1]
      <4>1. /\ queue[m] \in Nat /\ queue'[m] = queue[m] + 1 /\ queue' \in [Messages -> Nat]
            /\ \A x \in Messages \ {m} : queue'[x] = queue[x]
        BY <2>1, <3>2 DEF TypeOK
      <4>2. OnQueue(d)' = IF m.delivery = d THEN OnQueue(d) - queue[m] + queue'[m] ELSE OnQueue(d)
        BY <2>1, <4>1, QueueMoves
      <4> QED BY <1>1, <2>1, <4>1, <4>2
    <3> QED BY <2>2, <3>1, <3>2
  <2> QED BY <1>0, <1>1, <2>3, <2>4, <2>5, Balance
<1> QED BY <1>4, <1>5, <1>6, <1>7 DEF TriggerStep, TriggerWebhooks
LEMMA WorkerOnce ==
  ASSUME TypeOK, TypeOK', Once, NEW k \in Workers, WorkerStep(k) \/ WorkerDies(k), NEW d \in Deliveries
  PROVE  WithinAsking(d)'
<1>0. /\ asked'[d] = asked[d] /\ Begins(d)' = Begins(d) /\ Waits(d)' = Waits(d)
      /\ \A j \in Workers \ {k} : worker'[j] = worker[j]
  BY WorkerRows, ChancesStay
<1>1. /\ Begins(d) \in {0, 1} /\ OnQueue(d) \in Nat /\ Trying(d) \in Nat /\ Waits(d) \in {0, 1}
      /\ received[d] \in Nat /\ asked[d] \in Nat
  BY ChancesAreNat
<1> DEFINE old == Yes(MayPost(worker[k], d))  new == Yes(MayPost(worker'[k], d))
<1>2. Trying(d)' = Trying(d) - old + new /\ old \in {0, 1} /\ new \in {0, 1}
  BY <1>0, WorkerMoves DEF Yes
<1>3. ASSUME OnQueue(d)' \in Int, received'[d] \in Int,
             received'[d] - received[d] + (OnQueue(d)' - OnQueue(d)) + (new - old) <= 0
      PROVE  WithinAsking(d)'
  <2> HIDE DEF old, new
  <2> QED BY <1>0, <1>1, <1>2, <1>3, Balance
\* A message that changes by one.
<1>4. ASSUME NEW m \in Messages, NEW by \in {-1, 1}, queue' = [queue EXCEPT ![m] = @ + by]
      PROVE  OnQueue(d)' = IF m.delivery = d THEN OnQueue(d) + by ELSE OnQueue(d)
  <2>1. /\ queue[m] \in Nat /\ queue' \in [Messages -> Nat] /\ queue'[m] = queue[m] + by
        /\ \A x \in Messages \ {m} : queue'[x] = queue[x]
    BY <1>4 DEF TypeOK
  <2>2. OnQueue(d)' = IF m.delivery = d THEN OnQueue(d) - queue[m] + queue'[m] ELSE OnQueue(d)
    BY <2>1, QueueMoves
  <2> QED BY <1>1, <2>1, <2>2
<1>5. ASSUME NEW m \in Messages, Take(k, m) PROVE WithinAsking(d)'
  <2> DEFINE task == [pc |-> "read", delivery |-> m.delivery, retries |-> m.retries, result |-> "none"]
  <2>1. queue[m] \in Nat /\ queue' = [queue EXCEPT ![m] = @ - 1] /\ received' = received /\ worker[k] = NoWork
    BY <1>5 DEF Take, history, TypeOK
  <2>2. queue' = [queue EXCEPT ![m] = @ + (-1)]
    BY <2>1
  <2>3. OnQueue(d)' = IF m.delivery = d THEN OnQueue(d) + (-1) ELSE OnQueue(d)
    BY <1>4, <2>2
  <2>4. worker'[k] = task \/ worker'[k] = NoWork
    BY <1>5 DEF Take, TypeOK
  <2>5. old = 0 /\ (new = 1 => m.delivery = d)
    BY <2>1, <2>4 DEF MayPost, Yes
  <2> HIDE DEF old, new
  <2> QED BY <1>1, <1>2, <1>3, <2>1, <2>3, <2>5
<1>6. ASSUME NEW result \in {"success", "refused", "failed"}, Post(k, result) PROVE WithinAsking(d)'
  <2> DEFINE x == worker[k].delivery
  <2>1. worker[k] \in Task /\ worker[k] # NoWork /\ worker[k].pc = "read" /\ x \in Deliveries
    BY <1>6, TaskTypes DEF Post
  <2>2. worker'[k] = [worker[k] EXCEPT !.pc = "answered", !.result = result] /\ queue' = queue
    BY <1>6 DEF Post, TypeOK
  <2>3. worker'[k].pc = "answered" /\ worker'[k].result = result /\ worker'[k].delivery = x
        /\ worker'[k] # NoWork
    BY <2>1, <2>2 DEF Task, NoWork
  <2>4. old = (IF x = d THEN 1 ELSE 0) /\ new = (IF x = d /\ result = "failed" THEN 1 ELSE 0)
    BY <2>1, <2>3 DEF MayPost, Yes
  <2>5. received' = [received EXCEPT ![x] =
          IF result = "success" /\ @ <= 1 + asked[x] THEN @ + 1 ELSE @]
    BY <1>6 DEF Post
  <2> HIDE DEF x, old, new
  <2>6. received'[d] = received[d] \/ (x = d /\ result = "success" /\ received'[d] = received[d] + 1)
    BY <2>1, <2>5 DEF TypeOK
  <2>7. OnQueue(d)' = OnQueue(d)
    BY <2>2, ChancesStay
  <2> QED BY <1>1, <1>2, <1>3, <2>4, <2>6, <2>7
<1>7. ASSUME Record(k) PROVE WithinAsking(d)'
  <2> DEFINE x == worker[k].delivery  n == worker[k].retries  result == worker[k].result
             m == Message(x, NextRetry(n))
  <2>1. worker[k] # NoWork /\ worker[k].pc = "answered" /\ x \in Deliveries /\ n \in 0..MaxRetries
    BY <1>7, TaskTypes DEF Record, Task
  <2>2. /\ received' = received
        /\ \/ MayRetry(result, n) /\ Ends(k) /\ queue' = [queue EXCEPT ![m] = @ + 1]
           \/ queue' = queue /\ (Goes(k, "sent") \/ Ends(k))
    BY <1>7 DEF Record, history
  <2>3. Ends(k) => worker'[k] = NoWork
    BY TaskEnds
  <2>4. Goes(k, "sent") => worker'[k].pc = "sent"
    BY <2>1, TaskGoes
  <2>5. new = 0
    BY <2>2, <2>3, <2>4 DEF MayPost, Yes
  <2>6. MayRetry(result, n) /\ x = d => old = 1
    BY <2>1 DEF MayRetry, MayPost, Yes
  <2>7. MayRetry(result, n) => m \in Messages /\ m.delivery = x
    <3>1. MayRetry(result, n) => NextRetry(n) \in 0..MaxRetries
      BY <2>1, WebhookModel DEF MayRetry, NextRetry
    <3> QED BY <2>1, <3>1, MessageTypes
  <2> HIDE DEF m, x, n, result, old, new
  <2>8. OnQueue(d)' = OnQueue(d) \/ (OnQueue(d)' = OnQueue(d) + 1 /\ old = 1)
    BY <1>4, <2>2, <2>6, <2>7, ChancesStay
  <2> QED BY <1>1, <1>2, <1>3, <2>2, <2>5, <2>8
<1>8. ASSUME Clear(k) \/ ClearPayload(k) \/ RowIsGone(k) \/ WorkerDies(k) PROVE WithinAsking(d)'
  <2>1. received' = received /\ queue' = queue
    BY <1>8 DEF Clear, ClearPayload, RowIsGone, WorkerDies, history
  <2>2. worker'[k] = NoWork \/ worker'[k].pc = "cleared"
    <3>1. CASE Clear(k)
      <4>1. worker[k] # NoWork
        BY <3>1, TaskTypes DEF Clear
      <4> QED BY <3>1, <4>1, TaskGoes DEF Clear
    <3> QED BY <1>8, <3>1, TaskEnds DEF ClearPayload, RowIsGone, WorkerDies
  <2>3. new = 0
    BY <2>2 DEF MayPost, Yes
  <2>4. OnQueue(d)' = OnQueue(d)
    BY <2>1, ChancesStay
  <2> HIDE DEF old, new
  <2> QED BY <1>1, <1>2, <1>3, <2>1, <2>3, <2>4
<1> QED BY <1>5, <1>6, <1>7, <1>8 DEF WorkerStep

LEMMA CallOnce ==
  ASSUME TypeOK, Once, CallStep, NEW d \in Deliveries
  PROVE  WithinAsking(d)'
<1>0. received'[d] = received[d] /\ Begins(d)' = Begins(d) /\ Trying(d)' = Trying(d)
  BY CallRows, ChancesStay
<1>1. /\ Begins(d) \in {0, 1} /\ OnQueue(d) \in Nat /\ Trying(d) \in Nat /\ Waits(d) \in {0, 1}
      /\ received[d] \in Nat /\ asked[d] \in Nat
  BY ChancesAreNat
<1>2. ASSUME NEW x \in Deliveries, EventDeliveryRetry(x) PROVE WithinAsking(d)'
  <2>1. /\ queue' = queue /\ x \notin asking /\ asking' = asking \cup {x}
        /\ asked' = [asked EXCEPT ![x] = @ + 1]
    BY <1>2 DEF EventDeliveryRetry
  <2>2. OnQueue(d)' = OnQueue(d)
    BY <2>1, ChancesStay
  <2>3. asked'[d] = IF d = x THEN asked[d] + 1 ELSE asked[d]
    BY <2>1 DEF TypeOK
  <2>4. Waits(d)' = IF d = x THEN Waits(d) + 1 ELSE Waits(d)
    BY <2>1 DEF Waits, Yes
  <2>5. /\ Waits(d)' \in Int /\ asked'[d] \in Int
        /\ Waits(d)' - Waits(d) = asked'[d] - asked[d]
    BY <1>1, <2>3, <2>4
  <2> QED BY <1>0, <1>1, <2>2, <2>5, Balance
<1>3. ASSUME NEW x \in Deliveries, SendAgain(x) PROVE WithinAsking(d)'
  <2> DEFINE m == Message(x, 0)
  <2>1. m \in Messages /\ m.delivery = x
    BY MessageTypes, WebhookModel
  <2>2. /\ queue' = [queue EXCEPT ![m] = @ + 1] /\ x \in asking /\ asking' = asking \ {x}
        /\ asked' = asked
    BY <1>3 DEF SendAgain, history
  <2> HIDE DEF m
  <2>3. /\ queue[m] \in Nat /\ queue' \in [Messages -> Nat] /\ queue'[m] = queue[m] + 1
        /\ \A y \in Messages \ {m} : queue'[y] = queue[y]
    BY <2>1, <2>2 DEF TypeOK
  <2>4. OnQueue(d)' = IF m.delivery = d THEN OnQueue(d) - queue[m] + queue'[m] ELSE OnQueue(d)
    BY <2>1, <2>3, QueueMoves
  <2>5. Waits(d)' = IF d = x THEN Waits(d) - 1 ELSE Waits(d)
    BY <2>2 DEF Waits, Yes
  <2>6. OnQueue(d)' = IF d = x THEN OnQueue(d) + 1 ELSE OnQueue(d)
    BY <1>1, <2>1, <2>3, <2>4
  <2> QED BY <1>0, <1>1, <2>2, <2>5, <2>6, Balance
<1>4. ASSUME NEW x \in Deliveries, SendAgainFails(x) PROVE WithinAsking(d)'
  <2>1. queue' = queue /\ asking' = asking \ {x} /\ asked' = asked
    BY <1>4 DEF SendAgainFails
  <2>2. OnQueue(d)' = OnQueue(d) /\ Waits(d)' \in {0, 1} /\ Waits(d)' <= Waits(d)
    BY <2>1, ChancesStay DEF Waits, Yes
  <2> QED BY <1>0, <1>1, <2>1, <2>2, Balance
<1>5. ASSUME NEW w \in Webhooks, \/ WebhookUpdate(w) \/ AppDelete(w) \/ WebhookDelete(w)
                                 \/ DeleteWebhook(w) \/ DeleteWebhookFails(w)
      PROVE  WithinAsking(d)'
  <2>1. queue' = queue /\ asking' = asking /\ asked' = asked
    BY <1>5 DEF WebhookUpdate, AppDelete, WebhookDelete, DeleteWebhook, DeleteWebhookFails, history
  <2>2. OnQueue(d)' = OnQueue(d) /\ Waits(d)' = Waits(d)
    BY <2>1, ChancesStay
  <2> QED BY <1>0, <1>1, <2>1, <2>2, Balance
<1> QED BY <1>2, <1>3, <1>4, <1>5 DEF CallStep

LEMMA OnceStep ==
  ASSUME RowsOK, RowsOK', Once, [Next]_vars
  PROVE  Once'
<1> SUFFICES ASSUME NEW d \in Deliveries PROVE WithinAsking(d)'
  BY DEF Once
<1>0. TypeOK /\ TypeOK' /\ MadeOnce /\ RemovalIsOfRemoved
  BY DEF RowsOK
<1>1. ASSUME CleanUp \/ UNCHANGED vars PROVE WithinAsking(d)'
  <2>1. /\ trigger' = trigger /\ worker' = worker /\ queue' = queue /\ asking' = asking
        /\ received' = received /\ asked' = asked
    BY <1>0, <1>1, CleanUpRows DEF history, vars
  <2>2. /\ Begins(d)' = Begins(d) /\ OnQueue(d)' = OnQueue(d) /\ Trying(d)' = Trying(d)
        /\ Waits(d)' = Waits(d)
    BY <2>1, ChancesStay
  <2> QED BY <2>1, <2>2 DEF Once, WithinAsking
<1> QED BY <1>0, <1>1, TriggerOnce, WorkerOnce, CallOnce DEF Next, TriggerStep, CallStep, CleanUp

LEMMA OnceInit == Init => Once
<1> SUFFICES ASSUME Init, NEW d \in Deliveries PROVE WithinAsking(d)
  BY DEF Once
<1>1. received[d] = 0 /\ asked[d] = 0 /\ Begins(d) = 1 /\ Waits(d) = 0
  <2>1. d[1] \in Events
    BY PayloadTypes
  <2> QED BY <2>1 DEF Init, Begins, Waits, Yes
<1>2. OnQueue(d) = 0
  <2>1. \A n \in 0..MaxRetries : [i \in 0..MaxRetries |-> queue[Message(d, i)]][n] = 0
    BY MessageTypes DEF Init
  <2> QED BY <2>1, SumZero DEF OnQueue
<1>3. Trying(d) = 0
  <2>1. \A k \in Workers : [j \in Workers |-> Yes(MayPost(worker[j], d))][k] = 0
    BY DEF Init, MayPost, Yes
  <2> QED BY <2>1, SumZero DEF Trying
<1> QED BY <1>1, <1>2, <1>3 DEF WithinAsking

(* A webhook gets an event at most once, and once more for each call of    *)
(* eventDeliveryRetry: a retry of handle_webhook_retry takes the place of  *)
(* the request that failed, and a message that is lost with its worker is  *)
(* not sent again, so that requests and retries may overlap as they like.  *)
THEOREM EventsAreReceivedOnce == Spec => []ReceivedOncePerAsking
<1>1. RowsOK /\ RowsOK' /\ Once /\ [Next]_vars => Once'
  BY OnceStep
<1>2. RowsOK /\ Once => ReceivedOncePerAsking
  <2> SUFFICES ASSUME RowsOK, Once, NEW d \in Deliveries PROVE received[d] <= 1 + asked[d]
    BY DEF ReceivedOncePerAsking
  <2>1. /\ Begins(d) \in {0, 1} /\ OnQueue(d) \in Nat /\ Trying(d) \in Nat /\ Waits(d) \in {0, 1}
        /\ received[d] \in Nat /\ asked[d] \in Nat
    BY ChancesAreNat DEF RowsOK
  <2> QED BY <2>1 DEF Once, WithinAsking
<1> QED BY <1>1, <1>2, OnceInit, RowsAlways, PTL DEF Spec
===============================================================================
