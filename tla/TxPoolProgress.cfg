CONSTANTS
  Accounts <- MCTwo
  GlobalSlots = 1
  GlobalQueue = 1
  AccountSlots = 1
  AccountQueue = 1
  PriceBump = 10
  Txs <- MCTxs
  Bodies <- MCTxsBodies
  Prices = {1}
  Submitters = {"b"}
  Sync = FALSE
  London = TRUE
  MaxReorgDepth = 64
  chainHeadChanSize = 10
  RichBalance = 2
  PoorBalance = 1
  MaxBatch = 1
  MaxHeads = 1
  MaxDepth = 0
  MaxNumber = 1
  MaxAdds = 2
  MaxSetHeads = 0
  MaxEvicts = 0
  MaxRestarts = 1
  MaxMissing = 0
SPECIFICATION FairSpec
PROPERTIES
  Settles
  RestartKeepsLocals
CHECK_DEADLOCK FALSE
