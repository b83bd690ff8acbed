SPECIFICATION MCFairSpec
CONSTANTS
  VM = {1, 2, 3, 4, 5, 6}
  NoVM = 0
  Borrower = {b1, b2}
  Reloader = {r1, r2}
  Capacity = 2
  MaxVersion = 3
INVARIANTS PoolSound
PROPERTIES BorrowedUntouched ReloadTakesEffect
ACTION_CONSTRAINT FreshFirst
CHECK_DEADLOCK FALSE
