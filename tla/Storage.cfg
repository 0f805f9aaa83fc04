SPECIFICATION Spec
CONSTANTS
  Ids <- MCIds
  Filters <- MCFilters
  Pids = {1, 2}
  Topics <- MCTopics
  Payloads = {"m"}
  Kinds <- MCKinds
  Backends = {"bolt", "badger", "pebble", "redis"}
  Modes = {TRUE, FALSE}
  Scenarios = {{"subscribe", "expire"}, {"message", "expire"}, {"retain", "expire"}, {"tick"}}
  MaxConnects = 3
  MaxCrashes = 1
  MaxTicks = 1
  MaxLog = 1
INVARIANTS SubscriptionsKept NoGhostSubscriptions MessagesKept StoreIsMemory RecordIsCurrent
CHECK_DEADLOCK FALSE
