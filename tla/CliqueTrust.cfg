SPECIFICATION Spec
CONSTANTS
  Addr = {0, 1, 2}
  ZeroAddress = 0
  GenesisSigners = {1}
  Epoch = 2
  inmemorySnapshots = 1
  checkpointInterval = 2
  FullImmutabilityThreshold = 2
  Uint64 = 64
  Others = {1, 2}
  Ballots <- MCBallots
  SignerLists <- MCLists
  Keys = {}
  Proposable = {}
  StartNumber = 0
  MaxNumber = 5
  MaxBlocks = 7
  MaxBatch = 1
  MaxSealed = 1
  MaxFaults = 1
INVARIANTS
  TrustIsHealed
  SnapshotAvailable
