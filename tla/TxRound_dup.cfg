SPECIFICATION FairSpec
CONSTANTS
  Miners = {m1}
  Leader = l
  None = None
  NumTxListPerEpoch = 1
  GossipRound = 1
  MaxHandlers = 2
  MaxInFlight = 1
PROPERTY
  EpochCommits
