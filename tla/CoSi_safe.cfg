SPECIFICATION Spec
CONSTANTS
  Members = {m1, m2}
  Leader = ldr
  Divergent = {m2}
  Lossy = {}
  Rounds = 2
  Timeouts = 1
  None = None
  Nil = Nil
INVARIANTS
  CommitsFresh
  ResponsesDistinct
  SignaturesAgree
  ValidIffUnanimous
CHECK_DEADLOCK FALSE
