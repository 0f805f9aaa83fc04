CONSTANTS
  MaxConns = 2
  Filters = {f1}
  Kinds = {"stay", "leave"}
  Wills = {"none"}
  MaxMsgs = 0
  MaximumClients = 3
  MayExpire = FALSE
  Overlaps = {"cleanup"}
SPECIFICATION Spec
INVARIANTS LiveIsRegistered
CHECK_DEADLOCK FALSE
