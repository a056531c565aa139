SPECIFICATION Spec
CHECK_DEADLOCK FALSE
CONSTANTS
  InitialWindow = 4
  MinimumWindow = 1
  MaxDatagram = 2
  PacketThreshold = 2
  LossDelays = {1}
  Ptos = {2}
  Sizes = {1}
  AppSlack = 1
  FecM = 1
  FecN = 1
  MaxInitialPn = 0
  MaxHandshakePn = 1
  MaxAppPn = 3
  MaxNow = 2
INVARIANTS InFlightExact TimerArmed NoLimbo
PROPERTIES CutOncePerFlight
