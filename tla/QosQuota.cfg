CONSTANTS
  Publishers = {p1, p2}
  MaxMsgs = 3
  Qos2Msgs = {2}
  MaxPacketID = 3
  MaximumInflight = 3
  MaxPending = 3
  ClientReceiveMax = 2
  ReceiveMaximum = 3
  ClientIds = {4}
  MaxIn = 2
  Qos2In = {1}
  HookResults = {"ok", "denied", "reject", "ignore", "error"}
  PubrecErrors = TRUE
  WriteFails = FALSE
  PublishDuringResend = FALSE
  MaxLosses = 0
  MaxExpired = 0
SPECIFICATION Spec
INVARIANTS QuotaAtRest GaugeAtRest
CHECK_DEADLOCK FALSE
