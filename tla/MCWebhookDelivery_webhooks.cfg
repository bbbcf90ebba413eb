SPECIFICATION FairSpec
CONSTANTS
  e1 = e1  w1 = w1  w2 = w2  k1 = k1  k2 = k2
  Events <- OneEvent
  Webhooks <- TwoWebhooks
  Subscribed <- NoWebhooks
  Workers <- TwoWorkers
  MaxRetries = 1
  Calls <- SomeCalls
  MaxCalls = 1
INVARIANTS TypeOK OpenDeliveryIsInHand 
PROPERTIES  DeliveriesSettle DeletedAppsAreRemoved UnusedPayloadsGo
CHECK_DEADLOCK FALSE
