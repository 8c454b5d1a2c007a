SPECIFICATION Spec
CONSTANTS
  N = 3
  None = None
  VoteWeight = 0
  Faulty = {2}
  Volatile = {0}
  MaxView = 1
  MaxInFlight = 1
INVARIANTS
  EmptyReplyNeedsReset
  AccusationBacked
  BlocksAgree
  BlockAfterPhaseOne
  DivergenceVisible
PROPERTY FirstMessageKept
