SPECIFICATION DeliveryFairSpec
CONSTANTS
  Adapters = {a, b}
  Keys = {}
  NoKey = NoKey
  a = a
  b = b
  MaxInbox = 1
  Delays = 1
  MaxItems = 2
  MaxRetries = 1
  MaxAbandons = 1
INVARIANTS
  InboxFirst
  AcceptedOnce
  DeliveredMeansAll
  AllMeansDelivered
PROPERTIES
  ReadSticks
  DeliveriesSettle
CHECK_DEADLOCK FALSE
