CONSTANTS
  Publishers = {p1, p2}
  MaxMsgs = 2
  Qos2Msgs = {2}
  MaxPacketID = 3
  MaximumInflight = 2
  MaxPending = 1
  ClientReceiveMax = 1
  ReceiveMaximum = 1
  ClientIds = {4}
  MaxIn = 1
  Qos2In = {1}
  HookResults = {"ok", "denied", "reject", "ignore", "error"}
  PubrecErrors = TRUE
  WriteFails = TRUE
  PublishDuringResend = FALSE
  MaxLosses = 1
  MaxExpired = 1
SPECIFICATION Spec
INVARIANTS TypeOK NotForgotten ExactlyOnceOut
CHECK_DEADLOCK FALSE
