SPECIFICATION Spec
CHECK_DEADLOCK FALSE
CONSTANTS
  Algorithms = {"cubic", "bbr", "cc_trigger"}
  InitialWindow = 6
  MinimumWindow = 2
  MaxDatagram = 2
  MaxIncrement = 3
  RestoreThreshold = 2
  BwUnit = 6
  BwWindow = 2
  InitCwnd = 4
  MinCwnd = 1
  MaxCwnd = 6
  MinRttExpiry = 1
  ProbeRttTime = 1
  ProbeRttSlack = 1
  DefaultRtt = 1
  ProbeOffsets = {0, 7}
  StartupRounds = 2
  Sizes <- PacketSizes
  AppSlack = 1
  Answers = {3, 5}
  MaxPn = 4
  MaxNow = 4
INVARIANTS WindowInBounds BBRConsistent
PROPERTIES CubicCuts
