SPECIFICATION Spec
CONSTANTS
  Session = {s1, s2}
  Char = {c1}
  None = None
  Rewarder = {r1}
  Currency = {"kinah", "ap"}
  Amount = {1, 2}
  Initial = 2
  MaxCalls = 4
  Environments = {{"sp_fail"}, {"sp_fail", "reply_lost", "entry_fail", "logout", "reward", "twin"}}
SYMMETRY WalletSymmetry
INVARIANTS Solvent PointsAgree PointsCovered
CHECK_DEADLOCK FALSE
