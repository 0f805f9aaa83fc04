CONSTANTS
  Publishers = {p1, p2}
  MaxMessages = 2
  MayStop = TRUE
SPECIFICATION FairSpec
INVARIANTS TypeOK StartedOnce NoSleepOnWork AgedFirst
PROPERTIES ImplementsFifo EveryPacketInjected
CHECK_DEADLOCK FALSE
