SPECIFICATION FairSpec
CONSTANTS
  Conn = {c1, c2}
  NoConn = NoConn
  MaxEntity = 3
  MaxPackets = 1
  MaxFaults = 2
INVARIANTS IndexSound SessionsApart
PROPERTIES ConnectedKeepsEntity SessionsSettle
CHECK_DEADLOCK FALSE
