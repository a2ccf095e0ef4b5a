SPECIFICATION Spec
CONSTANTS
  Addr = {0, 1, 2, 3, 4}
  ZeroAddress = 0
  GenesisSigners = {1, 2, 3, 4}
  Epoch = 3
  inmemorySnapshots = 1
  checkpointInterval = 2
  FullImmutabilityThreshold = 9
  Uint64 = 64
  Others = {1, 2, 3, 4}
  Ballots <- MCVoteless
  SignerLists <- MCMoreLists
  Keys = {}
  Proposable = {}
  StartNumber = 0
  MaxNumber = 3
  MaxBlocks = 4
  MaxBatch = 1
  MaxFaults = 0
  MaxSealed = 1
INVARIANT
  StoredIsAuthorized
