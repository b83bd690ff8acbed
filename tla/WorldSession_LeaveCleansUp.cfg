SPECIFICATION Spec
CONSTANTS
  Conn = {c1, c2}
  NoConn = NoConn
  MaxEntity = 2
  MaxPackets = 1
  MaxFaults = 0
SYMMETRY WorldSessionSymmetry
INVARIANT LeaveCleansUp
CHECK_DEADLOCK FALSE
