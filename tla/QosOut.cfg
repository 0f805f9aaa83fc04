CONSTANTS
  Publishers = {p1, p2}
  MaxMsgs = 4
  Qos2Msgs = {1, 2}
  MaxPacketID = 4
  MaximumInflight = 2
  MaxPending = 1
  ClientReceiveMax = 0
  ReceiveMaximum = 1
  ClientIds = {}
  MaxIn = 0
  Qos2In = {}
  HookResults = {"ok"}
  PubrecErrors = FALSE
  WriteFails = FALSE
  PublishDuringResend = FALSE
  MaxLosses = 1
  MaxExpired = 0
SPECIFICATION FairSpec
INVARIANTS ExactlyOnceOut InflightBound
CHECK_DEADLOCK FALSE
PROPERTIES Delivered
