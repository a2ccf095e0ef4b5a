CONSTANTS
  Accounts <- MCTwo
  GlobalSlots = 3
  GlobalQueue = 1
  AccountSlots = 1
  AccountQueue = 2
  PriceBump = 10
  Txs <- MCLong
  Bodies <- MCNothing
  Prices = {1}
  Submitters = {"b"}
  Sync = TRUE
  London = TRUE
  MaxReorgDepth = 64
  chainHeadChanSize = 10
  RichBalance = 2
  PoorBalance = 1
  MaxBatch = 1
  MaxHeads = 0
  MaxDepth = 0
  MaxNumber = 0
  MaxAdds = 5
  MaxSetHeads = 0
  MaxEvicts = 0
  MaxRestarts = 0
  MaxMissing = 0
SPECIFICATION Spec
INVARIANTS
  LimitsHold
CHECK_DEADLOCK FALSE
