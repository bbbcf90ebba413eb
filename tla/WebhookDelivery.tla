---------------------------- MODULE WebhookDelivery ----------------------------
(***************************************************************************)
(* Asynchronous webhooks: an event writes its payloads and an EventDelivery *)
(* row for each webhook, and puts a message for each row on the celery      *)
(* queue; workers post the payload, try again with a new message, and clear *)
(* what was received.  Around them eventDeliveryRetry, webhookUpdate,       *)
(* webhookDelete, appDelete, and the tasks that remove old payloads and     *)
(* deleted apps.                                                            *)
(*                                                                          *)
(* Every statement on its own commits.  A message is acknowledged when it   *)
(* is taken, so it is lost with its worker.  Each webhook has an app of its *)
(* own; webhooks that share a payload are those without subscription.  The  *)
(* replica that triggers read from does not lag behind.                     *)
(***************************************************************************)
EXTENDS Naturals, FiniteSets

CONSTANTS
  Events, Webhooks,
  Subscribed,  \* webhooks with a subscription query: each has a payload of its own
  Workers,     \* celery processes of the webhook queue
  MaxRetries,  \* retry_kwargs["max_retries"], 5 in the code
  Calls,       \* the calls that may be made: a set of <<kind, webhook>>
  MaxCalls     \* bound on their number

CallKinds == {"retry", "update", "delete", "removeApp"}

ASSUME WebhookModel ==
  /\ IsFiniteSet(Events) /\ IsFiniteSet(Webhooks) /\ IsFiniteSet(Workers)
  /\ Subscribed \subseteq Webhooks
  /\ Calls \subseteq CallKinds \X Webhooks
  /\ MaxRetries \in Nat /\ MaxCalls \in Nat

Deliveries == Events \X Webhooks

\* A payload is known by its event and the webhooks it is for.
PayloadOf(d) == <<d[1], IF d[2] \in Subscribed THEN {d[2]} ELSE Webhooks \ Subscribed>>
Payloads == {PayloadOf(d) : d \in Deliveries}

VARIABLES
  webhook,    \* Webhook.is_active; "deleting" is inactive too, "deleted" is no row
  removed,    \* webhooks whose App has been deleted (removed_at) for long enough
  payloads,   \* EventPayload rows
  delivery,   \* EventDelivery.status; "none" before the row, "deleted" after it
  attempts,   \* EventDeliveryAttempt rows: <<delivery, worker>>, those of old tasks too
  young,      \* events within EVENT_PAYLOAD_DELETE_PERIOD
  queue,      \* how often each message is on the queue
  trigger,    \* where trigger_webhooks_async is for each event
  worker,     \* where each worker is
  asking,     \* deliveries that eventDeliveryRetry has reset, not yet sent
  removal,    \* where remove_apps_task is
  calls,      \* history: the number of calls
  asked,      \* history: calls of eventDeliveryRetry
  received,   \* history: requests that were answered 2xx
  dropped     \* history: deliveries a process had in hand when it failed

rows    == <<payloads, delivery, attempts>>
hooks   == <<webhook, removed, young>>
history == <<calls, asked, received, dropped>>
vars    == <<hooks, rows, queue, trigger, worker, asking, removal, history>>

Status == {"pending", "success", "failed"}
Exists(d) == delivery[d] \in Status
RowsOf(w) == {d \in Deliveries : d[2] = w /\ Exists(d)}
Message(d, n) == [delivery |-> d, retries |-> n]
Messages == [delivery : Deliveries, retries : 0..MaxRetries]
Queued == {m \in Messages : queue[m] > 0}
NoWork == [pc |-> "idle"]

\* on_delete=CASCADE from the payload or the webhook: deliveries and attempts go.
Cascade(D) ==
  /\ delivery' = [d \in Deliveries |-> IF d \in D /\ Exists(d) THEN "deleted" ELSE delivery[d]]
  /\ attempts' = {a \in attempts : a[1] \notin D}
DeletePayloads(P) ==
  /\ payloads' = payloads \ P
  /\ Cascade({d \in Deliveries : PayloadOf(d) \in P})

Init ==
  /\ webhook = [w \in Webhooks |-> "active"] /\ removed = {}
  /\ payloads = {} /\ attempts = {}
  /\ delivery = [d \in Deliveries |-> "none"]
  /\ young = Events
  /\ queue = [m \in Messages |-> 0]
  /\ trigger = [e \in Events |-> [pc |-> "idle", to |-> {}]]
  /\ worker = [k \in Workers |-> NoWork]
  /\ asking = {}
  /\ removal = NoWork
  /\ calls = 0
  /\ asked = [d \in Deliveries |-> 0]
  /\ received = [d \in Deliveries |-> 0]
  /\ dropped = {}
-----------------------------------------------------------------------------
(* trigger_webhooks_async: regular webhooks first, then subscriptions.     *)

Regular(e) == trigger[e].to \ Subscribed

Trigger(e) ==
  /\ trigger[e].pc = "idle"
  /\ LET to == {w \in Webhooks : webhook[w] = "active" /\ w \notin removed} IN
     /\ to # {}
     /\ trigger' = [trigger EXCEPT ![e] = [pc |-> "regular", to |-> to]]
  /\ UNCHANGED <<hooks, rows, queue, worker, asking, removal, history>>

\* A step writes the payloads for the webhooks W, if there are any.
CreatePayloads(e, pc, next, W) ==
  /\ trigger[e].pc = pc
  /\ payloads' = payloads \cup {PayloadOf(<<e, w>>) : w \in W}
  /\ trigger' = [trigger EXCEPT ![e].pc = next]
  /\ UNCHANGED <<hooks, delivery, attempts, queue, worker, asking, removal, history>>

\* Their deliveries: the foreign keys must still be there.
CreateDeliveries(e, pc, next, W) ==
  /\ trigger[e].pc = pc
  /\ \A w \in W : PayloadOf(<<e, w>>) \in payloads /\ webhook[w] # "deleted"
  /\ delivery' = [d \in Deliveries |-> IF d[1] = e /\ d[2] \in W THEN "pending" ELSE delivery[d]]
  /\ trigger' = [trigger EXCEPT ![e].pc = next]
  /\ UNCHANGED <<hooks, payloads, attempts, queue, worker, asking, removal, history>>

\* A subscription may yield no payload; its webhook is left out then.
TriggerWebhooks(e) ==
  \/ CreatePayloads(e, "regular", "regularPayload", Regular(e))
  \/ CreateDeliveries(e, "regularPayload", "subscribed", Regular(e))
  \/ \E W \in SUBSET (trigger[e].to \cap Subscribed) :
       CreatePayloads(e, "subscribed", "subscribedPayload", W)
  \/ CreateDeliveries(e, "subscribedPayload", "ready",
       {w \in Subscribed : <<e, {w}>> \in payloads})

\* send_webhook_request_async.delay(delivery.id); to is what is left to send.
Send(e, w) ==
  /\ trigger[e].pc = "ready" /\ w \in trigger[e].to
  /\ queue' = IF delivery[<<e, w>>] = "none" THEN queue
              ELSE [queue EXCEPT ![Message(<<e, w>>, 0)] = @ + 1]
  /\ trigger' = [trigger EXCEPT ![e].to = @ \ {w}]
  /\ UNCHANGED <<hooks, rows, worker, asking, removal, history>>

\* An error, among them a missing foreign key, or the process dies.
TriggerFails(e) ==
  /\ trigger[e].pc # "idle" /\ trigger[e].to # {}
  /\ trigger' = [trigger EXCEPT ![e] = [pc |-> "ready", to |-> {}]]
  /\ dropped' = dropped \cup {d \in Deliveries : d[1] = e /\ d[2] \in trigger[e].to}
  /\ UNCHANGED <<hooks, rows, queue, worker, asking, removal, calls, asked, received>>
-----------------------------------------------------------------------------
(* send_webhook_request_async.                                             *)

Goes(k, pc) == worker' = [worker EXCEPT ![k].pc = pc]
Ends(k) == worker' = [worker EXCEPT ![k] = NoWork]

\* (mutant) the task returns without a status
LeaveIt(d) == delivery
\* The webhook is inactive: the delivery is given up.
GiveUp(d) == [delivery EXCEPT ![d] = "failed"]

\* get_delivery_for_webhook.
Take(k, m) ==
  /\ worker[k] = NoWork /\ m \in Queued
  /\ queue' = [queue EXCEPT ![m] = @ - 1]
  /\ LET d == m.delivery IN
     /\ worker' = [worker EXCEPT ![k] =
          IF Exists(d) /\ webhook[d[2]] = "active"
          THEN [pc |-> "read", delivery |-> d, retries |-> m.retries, result |-> "none"]
          ELSE NoWork]
     /\ delivery' = IF Exists(d) /\ webhook[d[2]] # "active" THEN GiveUp(d) ELSE delivery
  /\ UNCHANGED <<hooks, payloads, attempts, trigger, asking, removal, history>>

\* create_attempt and the request; "refused" is an answer 3xx or 4xx.
Post(k, result) ==
  /\ worker[k].pc = "read"
  /\ LET d == worker[k].delivery IN
     /\ Exists(d)
     /\ attempts' = attempts \cup {<<d, k>>}
     /\ received' = [received EXCEPT ![d] =
          IF result = "success" /\ @ <= 1 + asked[d] THEN @ + 1 ELSE @]
  /\ worker' = [worker EXCEPT ![k].pc = "answered", ![k].result = result]
  /\ UNCHANGED <<hooks, payloads, delivery, queue, trigger, asking, removal, calls, asked, dropped>>

\* (mutant) whatever the answer was
RetriesAnyway(result, n) == n < MaxRetries
\* handle_webhook_retry: celery refuses a retry beyond max_retries.
MayRetry(result, n) == result = "failed" /\ n < MaxRetries

\* (mutant) a delivery out of retries is left as it is
OnlySuccess(result) == IF result = "success" THEN "success" ELSE "pending"
\* delivery_status
Outcome(result) == IF result = "success" THEN "success" ELSE "failed"

NextRetry(n) == n + 1

\* attempt_update, then the retry is raised or delivery_update.
Record(k) ==
  /\ worker[k].pc = "answered"
  /\ LET d == worker[k].delivery  n == worker[k].retries  result == worker[k].result IN
     /\ <<d, k>> \in attempts
     /\ IF MayRetry(result, n)
        THEN /\ queue' = [queue EXCEPT ![Message(d, NextRetry(n))] = @ + 1]
             /\ Ends(k)
             /\ UNCHANGED delivery
        ELSE /\ delivery' = [delivery EXCEPT ![d] = Outcome(result)]
             /\ IF result = "success" THEN Goes(k, "sent") ELSE Ends(k)
             /\ UNCHANGED queue
  /\ UNCHANGED <<hooks, payloads, attempts, trigger, asking, removal, history>>

\* clear_successful_delivery
Clear(k) ==
  /\ worker[k].pc = "sent"
  /\ Cascade({worker[k].delivery})
  /\ Goes(k, "cleared")
  /\ UNCHANGED <<hooks, payloads, queue, trigger, asking, removal, history>>

\* (mutant) deliveries__isnull is not looked at
Whatever(p) == TRUE
\* No delivery refers to the payload.
Unused(p) == \A d \in Deliveries : PayloadOf(d) = p => ~Exists(d)

ClearPayload(k) ==
  /\ worker[k].pc = "cleared"
  /\ LET p == PayloadOf(worker[k].delivery) IN DeletePayloads(IF Unused(p) THEN {p} ELSE {})
  /\ Ends(k)
  /\ UNCHANGED <<hooks, queue, trigger, asking, removal, history>>

\* The delivery or the attempt is gone when the worker writes: the database refuses.
RowIsGone(k) ==
  /\ \/ worker[k].pc = "read" /\ ~Exists(worker[k].delivery)
     \/ worker[k].pc = "answered" /\ <<worker[k].delivery, k>> \notin attempts
  /\ Ends(k)
  /\ UNCHANGED <<hooks, rows, queue, trigger, asking, removal, history>>

WorkerDies(k) ==
  /\ worker[k] # NoWork
  /\ dropped' = dropped \cup {worker[k].delivery}
  /\ Ends(k)
  /\ UNCHANGED <<hooks, rows, queue, trigger, asking, removal, calls, asked, received>>

WorkerStep(k) ==
  \/ \E m \in Messages : Take(k, m)
  \/ \E result \in {"success", "refused", "failed"} : Post(k, result)
  \/ Record(k) \/ Clear(k) \/ ClearPayload(k) \/ RowIsGone(k)
-----------------------------------------------------------------------------
\* A call by staff or by an app, within the bounds.
Call(kind, w) ==
  /\ <<kind, w>> \in Calls /\ calls < MaxCalls
  /\ calls' = calls + 1

(* eventDeliveryRetry: in any state of the delivery.                       *)

EventDeliveryRetry(d) ==
  /\ Call("retry", d[2])
  /\ Exists(d) /\ d[2] \notin removed /\ d \notin asking
  /\ delivery' = [delivery EXCEPT ![d] = "pending"]
  /\ asking' = asking \cup {d}
  /\ asked' = [asked EXCEPT ![d] = @ + 1]
  /\ UNCHANGED <<hooks, payloads, attempts, queue, trigger, worker, removal, received, dropped>>

SendAgain(d) ==
  /\ d \in asking
  /\ queue' = [queue EXCEPT ![Message(d, 0)] = @ + 1]
  /\ asking' = asking \ {d}
  /\ UNCHANGED <<hooks, rows, trigger, worker, removal, history>>

SendAgainFails(d) ==
  /\ d \in asking
  /\ asking' = asking \ {d}
  /\ dropped' = dropped \cup {d}
  /\ UNCHANGED <<hooks, rows, queue, trigger, worker, removal, calls, asked, received>>
-----------------------------------------------------------------------------
(* webhookUpdate, webhookDelete and appDelete.                             *)

WebhookUpdate(w) ==
  /\ Call("update", w)
  /\ webhook[w] \in {"active", "inactive"} /\ w \notin removed
  /\ \E s \in {"active", "inactive"} : webhook' = [webhook EXCEPT ![w] = s]
  /\ UNCHANGED <<removed, young, rows, queue, trigger, worker, asking, removal, asked, received, dropped>>

\* is_active is saved as False before the row is deleted.
WebhookDelete(w) ==
  /\ Call("delete", w)
  /\ webhook[w] \in {"active", "inactive"} /\ w \notin removed
  /\ webhook' = [webhook EXCEPT ![w] = "deleting"]
  /\ UNCHANGED <<removed, young, rows, queue, trigger, worker, asking, removal, asked, received, dropped>>

DeleteWebhook(w) ==
  /\ webhook[w] = "deleting"
  /\ webhook' = [webhook EXCEPT ![w] = "deleted"]
  /\ Cascade(RowsOf(w))
  /\ UNCHANGED <<removed, young, payloads, queue, trigger, worker, asking, removal, history>>

\* A task inserts rows for it in the meantime, or the request fails.
DeleteWebhookFails(w) ==
  /\ webhook[w] = "deleting"
  /\ webhook' = [webhook EXCEPT ![w] = "inactive"]
  /\ UNCHANGED <<removed, young, rows, queue, trigger, worker, asking, removal, history>>

\* The webhook of a deleted app stays active: deliveries go on.
AppDelete(w) ==
  /\ Call("removeApp", w)
  /\ w \notin removed
  /\ removed' = removed \cup {w}
  /\ UNCHANGED <<webhook, young, rows, queue, trigger, worker, asking, removal, asked, received, dropped>>
-----------------------------------------------------------------------------
(* remove_apps_task, app by app; a run that fails is started again.        *)

SelectDeliveries(w) ==
  /\ w \in removed /\ webhook[w] # "deleted"
  /\ removal = NoWork
  /\ removal' = [pc |-> IF RowsOf(w) = {} THEN "webhook" ELSE "attempts", webhook |-> w, ids |-> RowsOf(w)]
  /\ UNCHANGED <<hooks, rows, queue, trigger, worker, asking, history>>

\* (mutant) attempts are left to the cascade, which raw deletes do not have
LeaveAttempts(D) == attempts
RawDeleteAttempts(D) == {a \in attempts : a[1] \notin D}

RemoveAttempts ==
  /\ removal.pc = "attempts"
  /\ attempts' = RawDeleteAttempts(removal.ids)
  /\ removal' = [removal EXCEPT !.pc = "deliveries"]
  /\ UNCHANGED <<hooks, payloads, delivery, queue, trigger, worker, asking, history>>

\* Rows that still refer to what is deleted make the statement fail, and the run.
RemoveDeliveries ==
  /\ removal.pc = "deliveries"
  /\ IF \A a \in attempts : a[1] \notin removal.ids
     THEN /\ Cascade(removal.ids)
          /\ removal' = [removal EXCEPT !.pc = "payloads"]
     ELSE removal' = NoWork /\ UNCHANGED <<delivery, attempts>>
  /\ UNCHANGED <<hooks, payloads, queue, trigger, worker, asking, history>>

RemovePayloads ==
  /\ removal.pc = "payloads"
  /\ LET P == {PayloadOf(d) : d \in removal.ids}  w == removal.webhook IN
     IF \A p \in P : Unused(p)
     THEN /\ payloads' = payloads \ P
          /\ removal' = [pc |-> IF RowsOf(w) = {} THEN "webhook" ELSE "attempts",
                         webhook |-> w, ids |-> RowsOf(w)]
     ELSE removal' = NoWork /\ UNCHANGED payloads
  /\ UNCHANGED <<hooks, delivery, attempts, queue, trigger, worker, asking, history>>

RemoveWebhook ==
  /\ removal.pc = "webhook"
  /\ webhook' = [webhook EXCEPT ![removal.webhook] = "deleted"]
  /\ Cascade(RowsOf(removal.webhook))
  /\ removal' = NoWork
  /\ UNCHANGED <<removed, young, payloads, queue, trigger, worker, asking, history>>

RemoveApps ==
  \/ \E w \in Webhooks : SelectDeliveries(w)
  \/ RemoveAttempts \/ RemoveDeliveries \/ RemovePayloads \/ RemoveWebhook
-----------------------------------------------------------------------------
(* delete_event_payloads_task                                              *)

\* Long after a request, its deliveries are no longer young.
DeliveriesAge(e) ==
  /\ trigger[e].pc = "ready" /\ trigger[e].to = {}
  /\ e \in young
  /\ young' = young \ {e}
  /\ UNCHANGED <<webhook, removed, rows, queue, trigger, worker, asking, removal, history>>

\* (mutant) payloads with an old delivery
Outdated == {p \in payloads : p[1] \notin young /\ ~Unused(p)}
\* Those without a young delivery: also one that has none yet.
Expired == {p \in payloads : p[1] \in young => Unused(p)}

DeleteEventPayloads ==
  /\ Expired # {}
  /\ DeletePayloads(Expired)
  /\ UNCHANGED <<hooks, queue, trigger, worker, asking, removal, history>>
-----------------------------------------------------------------------------
Next ==
  \/ \E e \in Events :
       \/ Trigger(e) \/ TriggerWebhooks(e) \/ TriggerFails(e) \/ DeliveriesAge(e)
       \/ \E w \in Webhooks : Send(e, w)
  \/ \E k \in Workers : WorkerStep(k) \/ WorkerDies(k)
  \/ \E d \in Deliveries : EventDeliveryRetry(d) \/ SendAgain(d) \/ SendAgainFails(d)
  \/ \E w \in Webhooks : WebhookUpdate(w) \/ AppDelete(w)
                        \/ WebhookDelete(w) \/ DeleteWebhook(w) \/ DeleteWebhookFails(w)
  \/ RemoveApps \/ DeleteEventPayloads

Spec == Init /\ [][Next]_vars

\* Workers consume their queue, a request goes on unless it fails, and beat starts
\* the two tasks again and again (settings.py, CELERY_BEAT_SCHEDULE).
FairSpec ==
  /\ Spec
  /\ \A k \in Workers : WF_vars(WorkerStep(k))
  /\ \A e \in Events : \A w \in Webhooks : WF_vars(Send(e, w))
  /\ \A e \in Events : WF_vars(TriggerWebhooks(e))
  /\ \A d \in Deliveries : WF_vars(SendAgain(d))
  /\ WF_vars(RemoveApps) /\ WF_vars(DeleteEventPayloads)
-----------------------------------------------------------------------------
(* Properties.                                                             *)

Sending == [pc : {"idle", "regular", "regularPayload", "subscribed", "subscribedPayload", "ready"},
            to : SUBSET Webhooks]
Task == [pc : {"read", "answered", "sent", "cleared"}, delivery : Deliveries,
         retries : 0..MaxRetries, result : {"none", "success", "refused", "failed"}]
Removal == [pc : {"attempts", "deliveries", "payloads", "webhook"}, webhook : Webhooks,
            ids : SUBSET Deliveries]

\* Attempts have their delivery and deliveries their payload and webhook.
ForeignKeys ==
  /\ \A a \in attempts : Exists(a[1])
  /\ \A d \in Deliveries : Exists(d) => PayloadOf(d) \in payloads /\ webhook[d[2]] # "deleted"

\* Columns keep their types, and the foreign keys hold across cascades and raw deletes.
TypeOK ==
  /\ webhook \in [Webhooks -> {"active", "inactive", "deleting", "deleted"}]
  /\ removed \subseteq Webhooks /\ payloads \subseteq Payloads
  /\ delivery \in [Deliveries -> Status \cup {"none", "deleted"}]
  /\ attempts \subseteq Deliveries \X Workers
  /\ ForeignKeys
  /\ queue \in [Messages -> Nat] /\ trigger \in [Events -> Sending]
  /\ worker \in [Workers -> Task \cup {NoWork}] /\ asking \subseteq Deliveries
  /\ removal \in Removal \cup {NoWork}
  /\ asked \in [Deliveries -> Nat] /\ received \in [Deliveries -> Nat]

InHand(d) ==
  \/ trigger[d[1]].pc # "idle" /\ d[2] \in trigger[d[1]].to
  \/ \E m \in Queued : m.delivery = d
  \/ \E k \in Workers : worker[k] # NoWork /\ worker[k].delivery = d
  \/ d \in asking

\* A delivery that is not failed is in somebody's hand - a request, a message, a
\* worker - whatever retries of celery and of staff overlap: nothing else would
\* ever look at it again.  Only a process that dies leaves one behind, or the removal
\* of its app, which takes it along (send_webhook_request_async, handle_webhook_retry).
OpenDeliveryIsInHand ==
  \A d \in Deliveries :
    delivery[d] \in {"pending", "success"} => InHand(d) \/ d \in dropped \/ d[2] \in removed

\* A webhook receives an event at most once for each time staff ask: not twice
\* because a request is retried whose answer was lost with a worker, or by retries
\* of two workers (handle_webhook_retry).
ReceivedOncePerAsking == \A d \in Deliveries : received[d] <= 1 + asked[d]

\* A young delivery disappears only when it was received or with its webhook: not
\* when the payload it shares is cleared after another delivery
\* (clear_successful_delivery, delete_event_payloads_task, _raw_remove_deliveries).
OnlyReceivedIsCleared ==
  [][\A d \in Deliveries :
       Exists(d) /\ delivery'[d] = "deleted" /\ d[1] \in young
       => received[d] > 0 \/ webhook'[d[2]] = "deleted" \/ d[2] \in removed]_vars

\* Every pending delivery is settled in the end: received, failed, or removed
\* (send_webhook_request_async), if no process dies with it.
DeliveriesSettle ==
  \A d \in Deliveries :
    delivery[d] = "pending" ~> (delivery[d] # "pending" \/ d \in dropped)

\* An app that was deleted is removed with its webhook, although a run fails when
\* the payloads are shared with other apps or a worker is at it (remove_apps_task).
DeletedAppsAreRemoved ==
  \A w \in Webhooks : w \in removed ~> webhook[w] = "deleted"

\* A payload that lost its deliveries is removed in the end: by the last worker, or
\* by the clean-up task (delete_event_payloads_task).
UnusedPayloadsGo ==
  \A p \in Payloads :
    (p \in payloads /\ Unused(p)) ~> (p \notin payloads \/ ~Unused(p))
=============================================================================
