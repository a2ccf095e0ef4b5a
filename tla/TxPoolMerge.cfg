CONSTANTS
  Accounts <- MCTwo
  GlobalSlots = 3
  GlobalQueue = 3
  AccountSlots = 1
  AccountQueue = 3
  PriceBump = 10
  Txs <- MCRun
  Bodies <- MCRunBodies
  Prices = {1}
  Submitters = {}
  Sync = FALSE
  London = TRUE
  MaxReorgDepth = 64
  chainHeadChanSize = 10
  RichBalance = 2
  PoorBalance = 1
  MaxBatch = 1
  MaxHeads = 1
  MaxDepth = 0
  MaxNumber = 1
  MaxAdds = 2
  MaxSetHeads = 0
  MaxEvicts = 0
  MaxRestarts = 0
  MaxMissing = 0
SPECIFICATION Spec
INVARIANTS
  NothingReadyIsQueued
CHECK_DEADLOCK FALSE
