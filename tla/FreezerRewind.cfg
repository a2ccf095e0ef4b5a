SPECIFICATION Spec
CONSTANTS
  Blocks <- MCBlocks
  threshold = 1
  freezerBatchLimit = 2
  RewindWhileFreezing = FALSE
  CrashInRewind = TRUE
  MaxRewinds = 1
  MaxFaults = 1
INVARIANT CrashLeavesNoExtraAncients
CHECK_DEADLOCK FALSE
