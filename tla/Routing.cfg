SPECIFICATION Spec
CONSTANTS
  Clients = {"c1", "c2"}
  Publishers = {"p", "q", "c1"}
  InlineClient = "inline"
  Ticker = "ticker"
  InlineIds = {"i"}
  Subscriptions <- MCSubscriptions
  Scenarios <- MCScenarios
  MaxInbound = 1
  MaxOutbound = 1
INVARIANTS ScanComplete ScanSound TreeWellFormed SubscriberLearns AliasFaithful
CHECK_DEADLOCK FALSE
