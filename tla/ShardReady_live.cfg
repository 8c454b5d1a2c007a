SPECIFICATION FairSpec
CONSTANTS
  a1 = a1
  a2 = a2
  a3 = a3
  b1 = b1
  b2 = b2
  b3 = b3
  A = A
  B = B
  Shards = {A, B}
  Home <- MCHome
  Lead <- MCLead
  Nodes = {a1, a2, a3, b1, b2, b3}
  ShardSize = 3
  Epochs = 1
  Resends = 1
  Lossy = {a2}
PROPERTY
  MembersPhaseEnds
CHECK_DEADLOCK FALSE
