SPECIFICATION Spec
CONSTANTS
  Char = {c1, c2, c3}
  Listing = {l1, l2}
  NoOne = NoOne
  Worker = {w1, w2}
  Price = {1, 2}
  Fee = 1
  MaxActive = 1
  Duration = 1
  Purse = 2
  MaxTime = 1
  MaxCalls = 3
  MaxRetries = 1
  Faults = {"sp_fail", "reply_lost", "count_fail", "enqueue_fail", "redelivery"}
SYMMETRY AuctionSymmetry
INVARIANTS ListingsCovered NoKinahMinted
PROPERTIES ImplementsContract
CHECK_DEADLOCK FALSE
