SPECIFICATION Spec
CONSTANTS
  Addr = {A, B, C, D, Zero}
  ZeroAddress = Zero
  GenesisSigners = {A, B, C}
  Epoch = 5
  MaxNumber = 6
SYMMETRY Symmetry
CHECK_DEADLOCK FALSE
INVARIANTS
  TallyMatchesVotes
  OneVotePerSigner
  SomeSignerMaySign
  RecentsAreWindow
PROPERTIES
  MajorityDecides
  SpamProtection
  CheckpointKeepsSigners
