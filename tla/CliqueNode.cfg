SPECIFICATION Spec
CONSTANTS
  Addr = {0, 1, 2, 3}
  ZeroAddress = 0
  GenesisSigners = {1, 2}
  Epoch = 3
  inmemorySnapshots = 1
  checkpointInterval = 3
  FullImmutabilityThreshold = 9
  Uint64 = 64
  Others = {2}
  Ballots <- MCVoteless
  SignerLists <- MCMoreLists
  Keys = {1}
  Proposable = {3}
  StartNumber = 0
  MaxNumber = 3
  MaxBlocks = 4
  MaxBatch = 3
  MaxSealed = 1
  MaxFaults = 0
INVARIANTS
  SnapshotsCoherent
  StoredIsAuthorized
  OneInTurnAuthor
  SealedIsValid
