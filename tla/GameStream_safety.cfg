SPECIFICATION Spec
CONSTANTS
  BaseKey = 10
  Length = {5, 6}
  ClientLength = {5}
  LoginPackets = 2
  Burst = 2
  FirstObjID = 1001
  MaxFromClient = 5
  MaxFromWorld = 2
  WriteMayFail = TRUE
INVARIANTS StreamSound LobbyInOrder InboundInSync
CHECK_DEADLOCK FALSE
