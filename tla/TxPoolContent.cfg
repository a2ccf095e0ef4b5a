CONSTANTS
  Accounts <- MCTwo
  GlobalSlots = 1
  GlobalQueue = 1
  AccountSlots = 1
  AccountQueue = 1
  PriceBump = 10
  Txs <- MCTxs
  Bodies <- MCNothing
  Prices = {1, 2}
  Submitters = {"b"}
  Sync = FALSE
  London = TRUE
  MaxReorgDepth = 64
  chainHeadChanSize = 10
  RichBalance = 2
  PoorBalance = 1
  MaxBatch = 1
  MaxHeads = 0
  MaxDepth = 0
  MaxNumber = 0
  MaxAdds = 3
  MaxSetHeads = 0
  MaxEvicts = 1
  MaxRestarts = 1
  MaxMissing = 0
SPECIFICATION Spec
INVARIANTS
  PoolIsCoherent
  LimitsHold
PROPERTIES
  LocalsAreKept
  RestartKeepsLocals
CHECK_DEADLOCK FALSE
