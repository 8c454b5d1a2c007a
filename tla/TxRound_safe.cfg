SPECIFICATION Spec
CONSTANTS
  Miners = {m1}
  Leader = l
  None = None
  NumTxListPerEpoch = 2
  GossipRound = 2
  MaxHandlers = 1
  MaxInFlight = 1
INVARIANTS
  SignedDecisionsKept
  NoLostSignal
PROPERTY
  OrderedRounds
