CONSTANTS
  Accounts <- MCOne
  GlobalSlots = 3
  GlobalQueue = 3
  AccountSlots = 1
  AccountQueue = 3
  PriceBump = 10
  Txs <- MCRun
  Bodies <- MCRunBodies
  Prices = {1}
  Submitters = {}
  Sync = FALSE
  London = TRUE
  MaxReorgDepth = 64
  chainHeadChanSize = 10
  RichBalance = 2
  PoorBalance = 1
  MaxBatch = 1
  MaxHeads = 2
  MaxDepth = 1
  MaxNumber = 2
  MaxAdds = 3
  MaxSetHeads = 0
  MaxEvicts = 0
  MaxRestarts = 1
  MaxMissing = 0
SPECIFICATION FairSpec
INVARIANTS
  NonceIsNext
  StateIsCurrent
  PendingIsAnnounced
PROPERTIES
  Settles
CHECK_DEADLOCK FALSE
