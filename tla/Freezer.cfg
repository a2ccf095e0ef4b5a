SPECIFICATION FairSpec
CONSTANTS
  Blocks <- MCBlocks
  threshold = 1
  freezerBatchLimit = 1
  RewindWhileFreezing = FALSE
  CrashInRewind = FALSE
  MaxRewinds = 1
  MaxFaults = 1
INVARIANTS
  ChainIsReadable
  NodeStarts
  AncientsAreFinal
  NoExtraAncients
  NoMissedRead
PROPERTY FreezerCatchesUp
CHECK_DEADLOCK FALSE
