\* The branch "First NewRep Gossip Time Out" never ends the first phase.
SPECIFICATION FairSpec
CONSTANTS
  N = 2
  None = None
  VoteWeight = 1
  Faulty = {1}
  Volatile = {}
  MaxView = 0
  MaxInFlight = 1
PROPERTY PhaseOneEnds
