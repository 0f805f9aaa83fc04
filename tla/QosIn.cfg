CONSTANTS
  Publishers = {p1}
  MaxMsgs = 0
  Qos2Msgs = {}
  MaxPacketID = 3
  MaximumInflight = 2
  MaxPending = 1
  ClientReceiveMax = 0
  ReceiveMaximum = 2
  ClientIds = {4, 5}
  MaxIn = 3
  Qos2In = {1, 3}
  HookResults = {"ok", "denied", "reject", "error"}
  PubrecErrors = FALSE
  WriteFails = FALSE
  PublishDuringResend = FALSE
  MaxLosses = 2
  MaxExpired = 0
SPECIFICATION Spec
INVARIANTS ExactlyOnceIn NeverOverQuota AckedIsRouted
CHECK_DEADLOCK FALSE
