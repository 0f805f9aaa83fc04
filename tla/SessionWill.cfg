CONSTANTS
  MaxConns = 2
  Filters = {}
  Kinds = {"stay", "visit3"}
  Wills = {"none", "now", "delayed"}
  MaxMsgs = 0
  MaximumClients = 3
  MayExpire = TRUE
  Overlaps = {"handshake", "cleanup", "packet"}
SPECIFICATION FairSpec
INVARIANTS TypeOK WillOnce
PROPERTIES TakenOverEnds
CHECK_DEADLOCK FALSE
