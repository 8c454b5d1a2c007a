SPECIFICATION FairSpec
CONSTANTS
  N = 2
  None = None
  VoteWeight = 1
  Faulty = {1}
  Volatile = {0}
  MaxView = 1
  MaxInFlight = 2
PROPERTY RoundCompletes
