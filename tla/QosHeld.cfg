CONSTANTS
  Publishers = {p1}
  MaxMsgs = 3
  Qos2Msgs = {}
  MaxPacketID = 3
  MaximumInflight = 3
  MaxPending = 3
  ClientReceiveMax = 1
  ReceiveMaximum = 1
  ClientIds = {}
  MaxIn = 0
  Qos2In = {}
  HookResults = {"ok"}
  PubrecErrors = FALSE
  WriteFails = FALSE
  PublishDuringResend = FALSE
  MaxLosses = 0
  MaxExpired = 0
SPECIFICATION FairSpec
PROPERTIES HeldIsSent
CHECK_DEADLOCK FALSE
