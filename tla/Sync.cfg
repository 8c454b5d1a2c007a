SPECIFICATION FairSpec
CONSTANTS
  a = a
  b = b
  c = c
  d = d
  Nodes = {a, b, c, d}
  Me = a
  Shards = {1, 2}
  Size = 2
  Deal <- MCDeal
  Epochs = 2
  Windows = 1
  Odd = {d}
  Lossy = {c}
  MaxInFlight = 1
  None = None
INVARIANTS
  TypeOK
  SeedsOfMembers
  RepAgrees
  FinalOfEpoch
PROPERTY SyncEnds
CHECK_DEADLOCK FALSE
