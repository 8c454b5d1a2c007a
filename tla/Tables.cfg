SPECIFICATION Spec
CONSTANTS
  alice = alice
  bob = bob
  carol = carol
  a1 = a1
  a2 = a2
  b1 = b1
  Nodes = {a1, a2, b1}
  ShardNum <- MCShardNum
  Leader <- MCLeader
  Deposits <- MCDeposits
  BlockTxs <- MCBlockTxs
  Failing = {a2}
  Syncing = {a1, a2}
  MaxHeight = 3
  MaxBlocks = 3
  MaxRestarts = 1
  Word = 8
  Accounts = {alice, bob, carol}
  Shards = {0, 1}
  TxHashes = {1, 2, 3, 4}
  AccShard <- MCShard
  Me = 0
  Wallet <- MCWallet
  Txs <- MCTxs
  Deciders = {0, 1, 2}
  KeyCnt = 5
  ByteBits = 3
  Members = {0, 1, 2, 3, 4, 5}
  Address <- MCAddress
  Reps = {0, 1, 3}
  Shapes <- MCShapes
  Random = 2
  Chains = {1, 2, 3}
  MyChain = 1
  LastEpoch = 2
  LastBlock = 5
  Voters = {1, 2}
  Targets = {0}
  Here = 0
  DecBits = 3
  Sizes = {0, 3, 4}
  ListsPerEpoch = 2
  Copies = 2
  VotesUnderWay = 2
INVARIANTS
  TypeOK
  Accounted
  NoOverdraft
  AggrIsEnabled
  ShardsFormed
  EpochReadable
  
  VotesReadable
  VotesCounted
  TipsStored
  OwnFinalStored
  BalancesOfFinal
PROPERTIES
  DecisionSound
  StartAgrees
CONSTRAINT
  Known
CHECK_DEADLOCK FALSE
