SPECIFICATION Spec
CONSTANTS
  BaseKey = 10
  Length = {5, 6}
  ClientLength = {5}
  LoginPackets = 2
  Burst = 2
  FirstObjID = 1001
  MaxFromClient = 4
  MaxFromWorld = 2
  WriteMayFail = FALSE
INVARIANT ClientFollows
CHECK_DEADLOCK FALSE
