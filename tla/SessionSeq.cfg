CONSTANTS
  MaxConns = 3
  Filters = {f1}
  Kinds = {"stay", "leave", "visit3"}
  Wills = {"none"}
  MaxMsgs = 1
  MaximumClients = 3
  MayExpire = FALSE
  Overlaps = {}
SPECIFICATION Spec
INVARIANTS LiveIsRegistered IndexIsOwned SessionKept SessionRemembered NoMessageLost
CHECK_DEADLOCK FALSE
