SPECIFICATION FairSpec
CONSTANTS
  Members = {m1, m2}
  Leader = ldr
  Divergent = {m2}
  Lossy = {m1, m2}
  Rounds = 1
  Timeouts = 2
  None = None
  Nil = Nil
PROPERTIES
  SigFetched
  CommitPhaseEnds
CHECK_DEADLOCK FALSE
