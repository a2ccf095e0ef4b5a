SPECIFICATION FairSpec
CONSTANTS
  Peers = {p1, p2}
  Hashes = {h1, h2}
  None = None
  maxTxAnnounces = 2
  maxTxRetrievals = 2
INVARIANTS
  OneStage
  RequestsMatch
  Accounted
PROPERTIES
 NobodyIsStuck
 IdlePeersAreUsed
