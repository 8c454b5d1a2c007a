SPECIFICATION Spec
CONSTANTS
  a1 = a1
  a2 = a2
  a3 = a3
  b1 = b1
  b2 = b2
  b3 = b3
  A = A
  B = B
  Shards = {A, B}
  Home <- MCHome
  Lead <- MCLead
  Nodes = {a1, a2, b1, b2}
  ShardSize = 2
  Epochs = 2
  Resends = 0
  Lossy = {a2}
INVARIANTS
  QuorumReady
  MinerFollowsLeader
CHECK_DEADLOCK FALSE
