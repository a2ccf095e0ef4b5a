CONSTANTS
  Accounts <- MCOne
  GlobalSlots = 3
  GlobalQueue = 3
  AccountSlots = 1
  AccountQueue = 3
  PriceBump = 10
  Txs <- MCCostly
  Bodies <- MCCostlyBodies
  Prices = {1}
  Submitters = {}
  Sync = FALSE
  London = FALSE
  MaxReorgDepth = 1
  chainHeadChanSize = 10
  RichBalance = 2
  PoorBalance = 1
  MaxBatch = 2
  MaxHeads = 2
  MaxDepth = 0
  MaxNumber = 2
  MaxAdds = 3
  MaxSetHeads = 1
  MaxEvicts = 0
  MaxRestarts = 0
  MaxMissing = 1
SPECIFICATION Spec
INVARIANTS
  PendingIsExecutable
CHECK_DEADLOCK FALSE
