--------------------------- MODULE TxRound_proofs ---------------------------
(***************************************************************************)
(* Proofs about the transaction rounds, for every shard, every number of   *)
(* rounds and every bound of TxRound.                                      *)
(***************************************************************************)
EXTENDS TxRound, TLAPS, FiniteSetTheorems

LEMMA ShardSizeNat == ShardSize \in Nat /\ ShardSize >= 1
<1>1. IsFiniteSet(Nodes) /\ Leader \in Nodes
  BY FS_AddElement, TxRoundAssumption DEF Nodes
<1>2. Cardinality(Nodes) \in Nat /\ Cardinality(Nodes) # 0
  BY <1>1, FS_CardinalityType, FS_EmptySet
<1> QED
  BY <1>2 DEF ShardSize

LEMMA RoundsNat == /\ Rounds \subseteq Nat
                   /\ \A r \in Rounds : r > 0 => r - 1 \in Rounds
BY TxRoundAssumption DEF Rounds

(* What a gossip sends: copies of one item. *)
LEMMA GossipSent ==
  ASSUME NEW from, NEW kind, NEW round, NEW level, NEW data,
         NEW sent \in Gossip(from, kind, round, level, data), NEW msg \in sent
  PROVE  \E to \in Nodes \ {from}, i \in 1 .. level :
           msg = Msg(kind, to, round, i, data)
BY DEF Gossip

LEMMA GossipSentType ==
  ASSUME NEW from, NEW kind \in Items, NEW round \in Rounds,
         NEW level \in Int, level <= GossipRound, NEW data \in SUBSET Miners,
         NEW sent \in Gossip(from, kind, round, level, data), NEW msg \in sent
  PROVE  msg \in Messages
<1>1. PICK to \in Nodes \ {from}, i \in 1 .. level :
        msg = Msg(kind, to, round, i, data)
  BY GossipSent
<1>2. i \in 0 .. GossipRound
  BY TxRoundAssumption
<1> QED
  BY <1>1, <1>2 DEF Messages, Msg

LEMMA GossipSentItem ==
  ASSUME NEW from, NEW kind, NEW round, NEW level, NEW data,
         NEW sent \in Gossip(from, kind, round, level, data), NEW msg \in sent
  PROVE  msg.kind = kind /\ msg.round = round /\ msg.data = data
<1>1. PICK to \in Nodes \ {from}, i \in 1 .. level :
        msg = Msg(kind, to, round, i, data)
  BY GossipSent
<1> QED
  BY <1>1 DEF Msg

(* A handler at its next stage is the same handler otherwise. *)
LEMMA MovedJob ==
  ASSUME NEW job \in Jobs, NEW stage \in {"check", "signal", "store", "await", "get", "pass"}
  PROVE  /\ Later(job, stage) \in Jobs /\ Later(job, stage).stage = stage
         /\ Later(job, stage).at = job.at /\ Later(job, stage).kind = job.kind
         /\ Later(job, stage).round = job.round
         /\ Later(job, stage).data = job.data
<1>1. 0 \in 0 .. GossipRound
  BY TxRoundAssumption
<1> QED
  BY <1>1 DEF Jobs, Later

LEMMA InitTyped == Init => TypeOK
<1> SUFFICES ASSUME Init PROVE TypeOK
  OBVIOUS
<1>1. 1 \in 1 .. ShardSize
  BY ShardSizeNat
<1> QED
  BY <1>1 DEF Init, TypeOK

LEMMA LeaderTyped ==
  ASSUME TypeOK, NEW r \in Rounds, LeaderStep(r)
  PROVE  TypeOK'
<1> Leader \in Nodes
  BY DEF Nodes
<1> GossipRound \in Int /\ GossipRound <= GossipRound
  BY TxRoundAssumption
<1> ShardSize \in Nat
  BY ShardSizeNat
<1>1. CASE TxListProcess(r)
  <2>1. \A msg \in net' : msg \in Messages
    BY <1>1, GossipSentType DEF TxListProcess, TypeOK, Post, Items
  <2> QED
    BY <1>1, <2>1 DEF TxListProcess, TypeOK, minerVars
<1>2. CASE CountVote(r)
  <2>1. cnt' \in [Rounds -> 1 .. ShardSize] /\ votes' \in [Rounds -> Nat]
    BY <1>2 DEF CountVote, TypeOK
  <2> QED
    BY <1>2, <2>1 DEF CountVote, TypeOK, minerVars
<1>3. CASE EndCollect(r)
  BY <1>3 DEF EndCollect, TypeOK, minerVars
<1>4. CASE SignTDS(r)
  <2>1. \A msg \in net' : msg \in Messages
    BY <1>4, GossipSentType DEF SignTDS, TypeOK, Post, Items
  <2> QED
    BY <1>4, <2>1 DEF SignTDS, TypeOK, minerVars
<1>5. CASE TxNormalBlock(r)
  <2>1. \A msg \in net' : msg \in Messages
    BY <1>5, GossipSentType DEF TxNormalBlock, TypeOK, Post, Items
  <2> QED
    BY <1>5, <2>1 DEF TxNormalBlock, TypeOK, minerVars, leaderVars
<1> QED
  BY <1>1, <1>2, <1>3, <1>4, <1>5 DEF LeaderStep

LEMMA ReceiveTyped ==
  ASSUME TypeOK, NEW msg \in net, Receive(msg)
  PROVE  TypeOK'
<1> msg \in Messages /\ Leader \in Nodes
  BY DEF TypeOK, Nodes
<1>1. CASE HandleTxDecLeader(msg)
  BY <1>1 DEF HandleTxDecLeader, TypeOK, minerVars, Messages
<1>2. CASE HandleTxDecSetLeader(msg)
  BY <1>2 DEF HandleTxDecSetLeader, TypeOK, minerVars, leaderVars
<1>3. CASE Drop(msg)
  <2>1. net' = net \ {msg} /\ UNCHANGED <<leaderVars, minerVars, lists, blocks, tdsCnt, jobs>>
    BY <1>3 DEF Drop
  <2> QED
    BY <2>1 DEF TypeOK, minerVars, leaderVars
<1>4. CASE Pass(msg)
  <2>1. \A job \in jobs' : job \in Jobs
    BY <1>4 DEF Pass, TypeOK, Job, Jobs, Messages
  <2> QED
    BY <1>4, <2>1 DEF Pass, TypeOK, minerVars, leaderVars
<1> QED
  BY <1>1, <1>2, <1>3, <1>4 DEF Receive

LEMMA JobTyped ==
  ASSUME TypeOK, NEW job \in jobs, JobStep(job)
  PROVE  TypeOK'
<1>a. job \in Jobs /\ job.at \in Miners /\ job.at \in Nodes /\ job.round \in Rounds
      /\ job.data \in SUBSET Miners /\ job.kind \in Items
  BY DEF TypeOK, Jobs, Nodes
<1>b. job.level - 1 \in Int /\ job.level - 1 <= GossipRound
  BY <1>a, TxRoundAssumption DEF Jobs
<1>c. ASSUME NEW sent \in Forward(job), NEW msg \in sent
      PROVE  msg \in Messages
  BY <1>a, <1>b, <1>c, GossipSentType DEF Forward
<1>d. ASSUME NEW stage \in {"check", "signal", "store", "await", "get", "pass"},
             Move(job, stage)
      PROVE  \A j \in jobs' : j \in Jobs
  BY <1>a, <1>d, MovedJob DEF Move, TypeOK
<1>1. CASE HandleTxList(job)
  <2>1. Msg("TxDec", Leader, job.round, 0, {job.at}) \in Messages
    BY <1>a, TxRoundAssumption DEF Msg, Messages, Nodes
  <2>2. \A msg \in net' : msg \in Messages
    BY <1>1, <1>c, <2>1 DEF HandleTxList, TypeOK, Post
  <2> QED
    BY <1>1, <1>a, <2>2 DEF HandleTxList, TypeOK, minerVars, leaderVars
<1>2. CASE AcceptTDS(job)
  <2>1. \A msg \in net' : msg \in Messages
    BY <1>2, <1>c DEF AcceptTDS, TypeOK, Post
  <2>2. \A j \in jobs' : j \in Jobs
    BY <1>2, <1>d DEF AcceptTDS
  <2> QED
    BY <1>2, <1>a, <2>1, <2>2 DEF AcceptTDS, TypeOK, leaderVars
<1>3. CASE SignalTDS(job)
  <2>1. \A j \in jobs' : j \in Jobs
    BY <1>3, <1>d DEF SignalTDS
  <2> QED
    BY <1>3, <1>a, <2>1 DEF SignalTDS, TypeOK, leaderVars
<1>4. CASE GetTDS(job)
  BY <1>4, <1>a DEF GetTDS, TypeOK, leaderVars
<1>5. CASE AcceptBlock(job)
  <2>1. \A msg \in net' : msg \in Messages
    BY <1>5, <1>c DEF AcceptBlock, TypeOK, Post
  <2>2. \A j \in jobs' : j \in Jobs
    BY <1>5, <1>d DEF AcceptBlock
  <2> QED
    BY <1>5, <1>a, <2>1, <2>2 DEF AcceptBlock, TypeOK, leaderVars
<1>6. CASE AwaitTDS(job)
  <2>1. \A j \in jobs' : j \in Jobs
    BY <1>6, <1>d DEF AwaitTDS
  <2> QED
    BY <1>6, <1>a, <2>1 DEF AwaitTDS, TypeOK, leaderVars
<1>7. CASE GetTxBlock(job)
  <2>1. \A j \in jobs' : j \in Jobs
    BY <1>7, <1>d DEF GetTxBlock
  <2> QED
    BY <1>7, <1>a, <2>1 DEF GetTxBlock, TypeOK, leaderVars
<1>8. CASE PassOn(job)
  BY <1>8, <1>a DEF PassOn, TypeOK, leaderVars
<1> QED
  BY <1>1, <1>2, <1>3, <1>4, <1>5, <1>6, <1>7, <1>8 DEF JobStep

(* What a cache answers is a set of decisions. *)
LEMMA CachedType ==
  ASSUME TypeOK, NEW n \in Nodes, NEW kind \in Items, NEW r \in Rounds,
         NEW data \in Cached(n, kind, r)
  PROVE  data \in SUBSET Miners
<1>1. CASE kind = "TxDecSetM"
  <2>1. CASE n = Leader
    BY <1>1, <2>1 DEF Cached, TypeOK
  <2>2. CASE n # Leader
    BY <1>1, <2>2 DEF Cached, TypeOK, Nodes
  <2> QED
    BY <2>1, <2>2
<1>2. CASE kind # "TxDecSetM"
  BY <1>2 DEF Cached, Items
<1> QED
  BY <1>1, <1>2

LEMMA QueryTyped ==
  ASSUME TypeOK, NEW m \in Miners, NEW n \in Nodes, NEW kind \in Items,
         NEW r \in Rounds, Query(m, n, kind, r)
  PROVE  TypeOK'
<1>1. ASSUME NEW data \in Cached(n, kind, r)
      PROVE  Msg(kind, m, r, 0, data) \in Messages
  BY <1>1, CachedType, TxRoundAssumption DEF Msg, Messages, Nodes
<1>2. \A msg \in net' : msg \in Messages
  BY <1>1 DEF Query, Post, TypeOK
<1> QED
  BY <1>2 DEF Query, TypeOK, leaderVars, minerVars

LEMMA NextTyped == TypeOK /\ [Next]_vars => TypeOK'
<1> SUFFICES ASSUME TypeOK, [Next]_vars PROVE TypeOK'
  OBVIOUS
<1>1. CASE UNCHANGED vars
  BY <1>1 DEF vars, leaderVars, minerVars, TypeOK
<1> QED
  BY <1>1, LeaderTyped, ReceiveTyped, JobTyped, QueryTyped DEF Next, Finished

(* All the variables keep their types: no channel and no cache is ever      *)
(* indexed by a round outside the epoch, no count passes ShardSize.         *)
THEOREM TypeCorrect == Spec => []TypeOK
BY InitTyped, NextTyped, PTL DEF Spec

-----------------------------------------------------------------------------
(* Nothing that is sent, handled or stored goes before the leader: a        *)
(* decision set carries all that the leader signed, a block is the leader's *)
(* and each member has a block for every earlier round too.                 *)

Done == {r \in Rounds : loop[r] = "done"}

Signed(r, data) ==
  signed[r] # None /\ signed[r] \subseteq data /\ data \subseteq memD[r]

Downward(set) == \A r \in set, q \in Rounds : q < r => q \in set

LeaderOrder ==
  /\ \A r \in Rounds : loop[r] = "done" <=> signed[r] # None
  /\ \A r \in Rounds : signed[r] # None => signed[r] \subseteq memD[r]
  /\ Downward(Done) /\ Downward(blocks[Leader])
  /\ blocks[Leader] \subseteq Done

(* For messages and for handlers. *)
Backed(item) ==
  /\ item.kind = "TxDecSetM" => Signed(item.round, item.data)
  /\ item.kind = "TxB" => item.round \in blocks[Leader]

Traffic ==
  /\ \A msg \in net : Backed(msg)
  /\ \A job \in jobs : Backed(job)

Stages ==
  \A job \in jobs :
    /\ job.stage \in {"signal", "store", "get"} => job.round \in tdsCheck[job.at]
    /\ job.stage = "pass" => job.round \in blocks[job.at]

Caches ==
  \A m \in Miners :
    /\ \A r \in Rounds : tds[m][r] # None => Signed(r, tds[m][r])
    /\ tdsChan[m] \subseteq tdsCheck[m] /\ tdsCheck[m] \subseteq Done
    /\ tbChan[m] \subseteq blocks[m] /\ blocks[m] \subseteq blocks[Leader]
    /\ Downward(blocks[m])

Ordered == TypeOK /\ LeaderOrder /\ Traffic /\ Stages /\ Caches

(* What no step takes back: what was signed, what the leader has. *)
Kept ==
  /\ \A r \in Rounds : signed[r] # None => signed'[r] = signed[r]
  /\ \A r \in Rounds : memD[r] \subseteq memD'[r]
  /\ blocks[Leader] \subseteq blocks'[Leader]
  /\ Done \subseteq Done'

LEMMA SignedKept ==
  ASSUME Kept, NEW r \in Rounds, NEW data, Signed(r, data)
  PROVE  Signed(r, data)'
BY DEF Kept, Signed

LEMMA BackedKept ==
  ASSUME Kept, NEW item, item.round \in Rounds, Backed(item)
  PROVE  Backed(item)'
<1>1. CASE item.kind = "TxDecSetM"
  <2>1. Signed(item.round, item.data)'
    BY <1>1, SignedKept DEF Backed
  <2> QED
    BY <1>1, <2>1 DEF Backed
<1>2. CASE item.kind # "TxDecSetM"
  BY <1>2 DEF Backed, Kept
<1> QED
  BY <1>1, <1>2

LEMMA ItemsBacked ==
  ASSUME TypeOK, Traffic, Kept,
         \A msg \in net' \ net : Backed(msg)',
         \A job \in jobs' \ jobs : Backed(job)'
  PROVE  Traffic'
<1>1. ASSUME NEW msg \in net PROVE Backed(msg)'
  BY <1>1, BackedKept DEF TypeOK, Messages, Traffic
<1>2. ASSUME NEW job \in jobs PROVE Backed(job)'
  BY <1>2, BackedKept DEF TypeOK, Jobs, Traffic
<1> QED
  BY <1>1, <1>2 DEF Traffic

(* A step that leaves the leader's rounds and blocks alone. *)
LEMMA LeaderSame ==
  ASSUME TypeOK, LeaderOrder, Done' = Done, UNCHANGED signed,
         blocks'[Leader] = blocks[Leader],
         \A r \in Rounds : memD[r] \subseteq memD'[r]
  PROVE  LeaderOrder' /\ Kept
<1>1. \A r \in Rounds : loop'[r] = "done" <=> loop[r] = "done"
  BY DEF Done
<1>2. Kept
  BY DEF Kept
<1>3. Downward(Done)' /\ Downward(blocks[Leader])'
  BY DEF LeaderOrder, Downward
<1> QED
  BY <1>1, <1>2, <1>3 DEF LeaderOrder

(* A step that leaves the miners' caches alone. *)
LEMMA CachesSame ==
  ASSUME TypeOK, Caches, Kept, UNCHANGED <<tds, tdsChan, tdsCheck, tbChan>>,
         \A m \in Miners : blocks'[m] = blocks[m]
  PROVE  Caches'
<1> SUFFICES ASSUME NEW m \in Miners
             PROVE  /\ \A r \in Rounds : tds'[m][r] # None => Signed(r, tds[m][r])'
                    /\ tdsChan'[m] \subseteq tdsCheck'[m] /\ tdsCheck'[m] \subseteq Done'
                    /\ tbChan'[m] \subseteq blocks'[m]
                    /\ blocks'[m] \subseteq blocks'[Leader]
                    /\ Downward(blocks[m])'
  BY DEF Caches
<1>1. ASSUME NEW r \in Rounds, tds'[m][r] # None PROVE Signed(r, tds[m][r])'
  <2>1. PICK data : data = tds[m][r] /\ data = tds'[m][r]
    OBVIOUS
  <2>2. Signed(r, data)'
    BY <1>1, <2>1, SignedKept DEF Caches
  <2> QED
    BY <2>1, <2>2
<1>2. Downward(blocks[m])'
  BY DEF Caches, Downward
<1> QED
  BY <1>1, <1>2 DEF Caches, Kept

LEMMA StagesKept ==
  ASSUME TypeOK, Stages,
         \A m \in Miners : tdsCheck[m] \subseteq tdsCheck'[m] /\ blocks[m] \subseteq blocks'[m],
         \A job \in jobs' \ jobs :
           /\ job.stage \in {"signal", "store", "get"} => job.round \in tdsCheck'[job.at]
           /\ job.stage = "pass" => job.round \in blocks'[job.at]
  PROVE  Stages'
BY DEF Stages, TypeOK, Jobs

LEMMA InitOrdered == Init => Ordered
<1> SUFFICES ASSUME Init PROVE Ordered
  OBVIOUS
<1>1. TypeOK
  BY InitTyped
<1>2. Done = {} /\ blocks[Leader] = {}
  BY DEF Init, Done, Nodes
<1>3. LeaderOrder
  BY <1>2 DEF Init, LeaderOrder, Downward
<1>4. Traffic /\ Stages
  BY DEF Init, Traffic, Stages
<1>5. Caches
  BY DEF Init, Caches, Downward, Nodes
<1> QED
  BY <1>1, <1>3, <1>4, <1>5 DEF Ordered

LEMMA LeaderOrdered ==
  ASSUME Ordered, NEW r \in Rounds, LeaderStep(r)
  PROVE  Ordered'
<1> USE DEF Ordered
<1>t. TypeOK'
  BY LeaderTyped
<1>1. CASE TxListProcess(r)
  <2>1. Done' = Done
    BY <1>1 DEF TxListProcess, Done, TypeOK
  <2>2. LeaderOrder' /\ Kept
    BY <1>1, <2>1, LeaderSame DEF TxListProcess
  <2>3. \A msg \in net' \ net : Backed(msg)'
    BY <1>1, GossipSentItem DEF TxListProcess, Post, Backed
  <2>4. Traffic'
    BY <1>1, <2>2, <2>3, ItemsBacked DEF TxListProcess
  <2>5. Stages'
    BY <1>1, StagesKept DEF TxListProcess, minerVars
  <2>6. Caches'
    BY <1>1, <2>2, CachesSame DEF TxListProcess, minerVars
  <2> QED
    BY <1>t, <2>2, <2>4, <2>5, <2>6
<1>2. CASE CountVote(r) \/ EndCollect(r)
  <2>0. UNCHANGED <<memD, signed, minerVars, blocks, jobs, net>>
    BY <1>2 DEF CountVote, EndCollect
  <2>1. Done' = Done
    BY <1>2 DEF CountVote, EndCollect, Done, TypeOK
  <2>2. LeaderOrder' /\ Kept
    BY <2>0, <2>1, LeaderSame
  <2>4. Traffic'
    BY <2>0, <2>2, ItemsBacked
  <2>5. Stages'
    BY <2>0, StagesKept DEF minerVars
  <2>6. Caches'
    BY <2>0, <2>2, CachesSame DEF minerVars
  <2> QED
    BY <1>t, <2>2, <2>4, <2>5, <2>6
<1>3. CASE SignTDS(r)
  <2>0. /\ loop[r] = "closed" /\ (r > 0 => loop[r - 1] = "done")
        /\ UNCHANGED <<memD, minerVars, blocks, jobs>>
    BY <1>3 DEF SignTDS
  <2>1. /\ loop'[r] = "done" /\ signed'[r] = memD[r] /\ memD[r] # None
        /\ \A q \in Rounds \ {r} : loop'[q] = loop[q] /\ signed'[q] = signed[q]
    BY <1>3, TxRoundAssumption DEF SignTDS, TypeOK
  <2>2. Done' = Done \cup {r} /\ signed[r] = None
    BY <2>0, <2>1 DEF Done, LeaderOrder
  <2>3. Kept
    BY <2>0, <2>1, <2>2 DEF Kept
  <2>4. Downward(Done')
    <3> SUFFICES ASSUME NEW q \in Rounds, q < r PROVE q \in Done
      BY <2>2 DEF Downward, LeaderOrder
    <3>1. r - 1 \in Done /\ r \in Nat /\ q \in Nat
      BY <2>0, RoundsNat DEF Done
    <3> QED
      BY <3>1 DEF LeaderOrder, Downward
  <2>5. LeaderOrder'
    BY <2>0, <2>1, <2>2, <2>4 DEF LeaderOrder, Downward
  <2>6. ASSUME NEW msg \in net' \ net PROVE Backed(msg)'
    <3>1. msg.kind = "TxDecSetM" /\ msg.round = r /\ msg.data = memD[r]
      BY <1>3, <2>6, GossipSentItem DEF SignTDS, Post
    <3> QED
      BY <2>0, <2>1, <3>1 DEF Backed, Signed
  <2>7. Traffic'
    BY <2>0, <2>3, <2>6, ItemsBacked
  <2>8. Stages'
    BY <2>0, StagesKept DEF minerVars
  <2>9. Caches'
    BY <2>0, <2>3, CachesSame DEF minerVars
  <2> QED
    BY <1>t, <2>5, <2>7, <2>8, <2>9
<1>4. CASE TxNormalBlock(r)
  <2>0. /\ loop[r] = "done" /\ (r > 0 => r - 1 \in blocks[Leader])
        /\ UNCHANGED <<leaderVars, minerVars, jobs>>
    BY <1>4 DEF TxNormalBlock
  <2>1. /\ blocks'[Leader] = blocks[Leader] \cup {r}
        /\ \A m \in Miners : blocks'[m] = blocks[m]
    BY <1>4, TxRoundAssumption DEF TxNormalBlock, TypeOK, Nodes
  <2>2. Done' = Done
    BY <2>0 DEF Done, leaderVars
  <2>3. Kept
    BY <2>0, <2>1, <2>2 DEF Kept, leaderVars
  <2>4. Downward(blocks'[Leader])
    <3> SUFFICES ASSUME NEW q \in Rounds, q < r PROVE q \in blocks[Leader]
      BY <2>1 DEF Downward, LeaderOrder
    <3>1. r - 1 \in blocks[Leader] /\ r \in Nat /\ q \in Nat
      BY <2>0, RoundsNat
    <3> QED
      BY <3>1 DEF LeaderOrder, Downward
  <2>5. LeaderOrder'
    BY <2>0, <2>1, <2>2, <2>4 DEF LeaderOrder, Downward, leaderVars, Done
  <2>6. ASSUME NEW msg \in net' \ net PROVE Backed(msg)'
    <3>1. msg.kind = "TxB" /\ msg.round = r
      BY <1>4, <2>6, GossipSentItem DEF TxNormalBlock, Post
    <3> QED
      BY <2>1, <3>1 DEF Backed
  <2>7. Traffic'
    BY <2>0, <2>3, <2>6, ItemsBacked
  <2>8. Stages'
    BY <2>0, <2>1, StagesKept DEF minerVars
  <2>9. Caches'
    BY <2>0, <2>1, <2>3, CachesSame DEF minerVars
  <2> QED
    BY <1>t, <2>5, <2>7, <2>8, <2>9
<1> QED
  BY <1>1, <1>2, <1>3, <1>4 DEF LeaderStep

LEMMA ReceiveOrdered ==
  ASSUME Ordered, NEW msg \in net, Receive(msg)
  PROVE  Ordered'
<1> USE DEF Ordered
<1>t. TypeOK'
  BY ReceiveTyped
<1>1. UNCHANGED <<signed, loop, minerVars, blocks>> /\ net' \subseteq net
  BY DEF Receive, HandleTxDecLeader, HandleTxDecSetLeader, Drop, Pass, leaderVars
<1>2. Done' = Done /\ \A r \in Rounds : memD[r] \subseteq memD'[r]
  BY <1>1 DEF Receive, HandleTxDecLeader, HandleTxDecSetLeader, Drop, Pass,
              leaderVars, Done, TypeOK
<1>3. LeaderOrder' /\ Kept
  BY <1>1, <1>2, LeaderSame
<1>4. ASSUME NEW job \in jobs' \ jobs
      PROVE  Backed(job)' /\ job.stage = "check"
  <2>1. PICK id \in 1 .. MaxHandlers : job = Job(msg, id, "check")
    BY <1>4 DEF Receive, HandleTxDecLeader, HandleTxDecSetLeader, Drop, Pass
  <2>2. Backed(msg)'
    BY <1>3, BackedKept DEF Traffic, TypeOK, Messages
  <2> QED
    BY <2>1, <2>2 DEF Job, Backed
<1>5. Traffic'
  BY <1>1, <1>3, <1>4, ItemsBacked
<1>6. Stages'
  BY <1>1, <1>4, StagesKept DEF minerVars
<1>7. Caches'
  BY <1>1, <1>3, CachesSame DEF minerVars
<1> QED
  BY <1>t, <1>3, <1>5, <1>6, <1>7

(* A handler that moves on, or ends, and leaves the leader alone. *)
LEMMA JobMoved ==
  ASSUME Ordered, NEW job \in jobs, NEW stage \in {"check", "signal", "store", "await", "get", "pass"},
         Kept, Move(job, stage) \/ jobs' = jobs \ {job}
  PROVE  \A j \in jobs' \ jobs :
           /\ Backed(j)' /\ j.stage = stage
           /\ j.round = job.round /\ j.at = job.at /\ j.kind = job.kind
<1>1. job \in Jobs /\ Backed(job) /\ job.round \in Rounds
  BY DEF Ordered, TypeOK, Traffic, Jobs
<1>2. Backed(job)'
  BY <1>1, BackedKept
<1>3. Backed(Later(job, stage))'
  BY <1>1, <1>2, MovedJob DEF Backed
<1> QED
  BY <1>1, <1>3, MovedJob DEF Move

LEMMA JobOrdered ==
  ASSUME Ordered, NEW job \in jobs, JobStep(job)
  PROVE  Ordered'
<1> USE DEF Ordered
<1> DEFINE m == job.at
           r == job.round
<1>t. TypeOK'
  BY JobTyped
<1>a. /\ job \in Jobs /\ m \in Miners /\ m \in Nodes /\ m # Leader
      /\ r \in Rounds /\ Backed(job)
  BY TxRoundAssumption DEF TypeOK, Jobs, Nodes, Traffic
<1>b. UNCHANGED leaderVars
  BY DEF JobStep, HandleTxList, AcceptTDS, SignalTDS, GetTDS,
         AcceptBlock, AwaitTDS, GetTxBlock, PassOn
<1>c. blocks'[Leader] = blocks[Leader]
  <2>1. CASE GetTxBlock(job)
    <3>1. blocks' = [blocks EXCEPT ![m] = @ \cup {r}]
      BY <2>1 DEF GetTxBlock
    <3> QED
      BY <1>a, <3>1 DEF TypeOK, Nodes
  <2>2. CASE ~GetTxBlock(job)
    <3>1. UNCHANGED blocks
      BY <2>2 DEF JobStep, HandleTxList, AcceptTDS, SignalTDS, GetTDS,
                  AcceptBlock, AwaitTDS, PassOn
    <3> QED
      BY <3>1
  <2> QED
    BY <2>1, <2>2
<1>d. LeaderOrder' /\ Kept
  <2>1. Done' = Done
    BY <1>b DEF leaderVars, Done
  <2> QED
    BY <1>b, <1>c, <2>1, LeaderSame DEF leaderVars
<1>e. \A msg \in net' \ net : Backed(msg)'
  <2>1. ASSUME NEW msg \in net' \ net
        PROVE  \/ msg.kind = job.kind /\ msg.round = r /\ msg.data = job.data
               \/ msg.kind = "TxDec"
    <3>1. ASSUME NEW sent \in Forward(job), msg \in sent
          PROVE  msg.kind = job.kind /\ msg.round = r /\ msg.data = job.data
      BY <3>1, GossipSentItem DEF Forward
    <3>2. CASE HandleTxList(job)
      <4>1. PICK sent \in Forward(job), reply \in {{}, {Msg("TxDec", Leader, r, 0, {m})}} :
              Post(net, sent \cup reply)
        BY <3>2 DEF HandleTxList
      <4>2. msg \in sent \/ msg = Msg("TxDec", Leader, r, 0, {m})
        BY <2>1, <4>1 DEF Post
      <4> QED
        BY <3>1, <4>2 DEF Msg
    <3>3. CASE AcceptTDS(job) \/ AcceptBlock(job)
      BY <2>1, <3>1, <3>3 DEF AcceptTDS, AcceptBlock, Post
    <3>4. CASE ~(HandleTxList(job) \/ AcceptTDS(job) \/ AcceptBlock(job))
      <4>1. UNCHANGED net
        BY <3>4 DEF JobStep, SignalTDS, GetTDS, AwaitTDS, GetTxBlock, PassOn
      <4> QED
        BY <2>1, <4>1
    <3> QED
      BY <3>2, <3>3, <3>4
  <2>2. Backed(job)'
    BY <1>a, <1>d, BackedKept
  <2> QED
    BY <2>1, <2>2 DEF Backed
<1>1. CASE HandleTxList(job) \/ PassOn(job) \/ GetTDS(job)
  <2>1. jobs' = jobs \ {job} /\ UNCHANGED <<tdsCheck, tdsChan, blocks>>
    BY <1>1 DEF HandleTxList, PassOn, GetTDS, minerVars
  <2>2. Traffic' /\ Stages'
    BY <1>d, <1>e, <2>1, ItemsBacked, StagesKept
  <2>3. CASE HandleTxList(job)
    <3>1. Caches'
      BY <2>3, <1>d, CachesSame DEF HandleTxList, minerVars
    <3> QED
      BY <1>t, <1>d, <2>2, <3>1
  <2>4. CASE PassOn(job)
    <3>1. r \in blocks[m]
      BY <2>4 DEF PassOn, Stages
    <3>2. \A n \in Miners : tbChan'[n] \subseteq blocks[n]
      BY <2>4, <1>a, <3>1 DEF PassOn, TypeOK, Caches
    <3>3. Caches'
      BY <2>4, <1>b, <2>1, <3>2 DEF PassOn, Caches, Downward, Done, leaderVars, Signed
    <3> QED
      BY <1>t, <1>d, <2>2, <3>3
  <2>5. CASE GetTDS(job)
    <3>1. Signed(r, job.data)
      BY <2>5, <1>a DEF GetTDS, Backed
    <3>2. /\ tds'[m][r] = job.data
          /\ \A n \in Miners, q \in Rounds : <<n, q>> # <<m, r>> => tds'[n][q] = tds[n][q]
      BY <2>5, <1>a DEF GetTDS, TypeOK
    <3>3. ASSUME NEW n \in Miners, NEW q \in Rounds, tds'[n][q] # None
          PROVE  Signed(q, tds[n][q])'
      <4>1. CASE <<n, q>> = <<m, r>>
        BY <1>b, <3>1, <3>2, <4>1 DEF Signed, leaderVars
      <4>2. CASE <<n, q>> # <<m, r>>
        BY <1>b, <3>2, <3>3, <4>2 DEF Signed, leaderVars, Caches
      <4> QED
        BY <4>1, <4>2
    <3>4. Caches'
      BY <2>5, <1>b, <2>1, <3>3 DEF GetTDS, Caches, Downward, Done, leaderVars
    <3> QED
      BY <1>t, <1>d, <2>2, <3>4
  <2> QED
    BY <1>1, <2>3, <2>4, <2>5
<1>2. CASE AcceptTDS(job) \/ SignalTDS(job)
  <2>1. PICK stage \in {"signal", "store"} :
          Move(job, stage) /\ UNCHANGED <<tds, tbChan, blocks>>
    BY <1>2 DEF AcceptTDS, SignalTDS
  <2>2. r \in tdsCheck'[m] /\ r \in Done
    <3>1. r \in Done
      BY <1>2, <1>a DEF AcceptTDS, SignalTDS, Backed, Signed, Done, LeaderOrder
    <3>2. CASE AcceptTDS(job)
      BY <1>a, <3>1, <3>2 DEF AcceptTDS, TypeOK
    <3>3. CASE SignalTDS(job)
      BY <1>a, <3>1, <3>3 DEF SignalTDS, TypeOK, Stages
    <3> QED
      BY <1>2, <3>2, <3>3
  <2>3. \A n \in Miners : /\ tdsCheck[n] \subseteq tdsCheck'[n]
                          /\ tdsCheck'[n] \subseteq tdsCheck[n] \cup {r}
                          /\ n # m => tdsCheck'[n] = tdsCheck[n]
                          /\ tdsChan'[n] \subseteq tdsChan[n] \cup {r}
                          /\ n # m => tdsChan'[n] = tdsChan[n]
    BY <1>2, <1>a DEF AcceptTDS, SignalTDS, TypeOK
  <2>4. \A j \in jobs' \ jobs : Backed(j)' /\ j.stage \in {"signal", "store"}
                                /\ j.round = r /\ j.at = m
    BY <1>d, <2>1, JobMoved
  <2>5. Traffic'
    BY <1>d, <1>e, <2>4, ItemsBacked
  <2>6. Stages'
    <3>1. \A n \in Miners : tdsCheck[n] \subseteq tdsCheck'[n] /\ blocks[n] \subseteq blocks'[n]
      BY <2>1, <2>3
    <3>2. \A j \in jobs' \ jobs : j.round \in tdsCheck'[j.at] /\ j.stage # "pass"
      BY <2>2, <2>4
    <3> QED
      BY <3>1, <3>2, StagesKept
  <2>7. Caches'
    <3>1. \A n \in Miners : tdsChan'[n] \subseteq tdsCheck'[n] /\ tdsCheck'[n] \subseteq Done
      BY <1>a, <2>2, <2>3 DEF Caches
    <3> QED
      BY <1>b, <2>1, <3>1 DEF Caches, Downward, Done, leaderVars, Signed
  <2> QED
    BY <1>t, <1>d, <2>5, <2>6, <2>7
<1>3. CASE AcceptBlock(job)
  <2>1. Move(job, "await") /\ UNCHANGED <<tds, tdsChan, tdsCheck, tbChan, blocks>>
    BY <1>3 DEF AcceptBlock
  <2>2. Traffic' /\ Stages'
    BY <1>d, <1>e, <2>1, JobMoved, ItemsBacked, StagesKept
  <2>3. Caches'
    BY <1>d, <2>1, CachesSame
  <2> QED
    BY <1>t, <1>d, <2>2, <2>3
<1>4. CASE AwaitTDS(job)
  <2>1. /\ Move(job, "get") /\ UNCHANGED <<tds, tdsCheck, tbChan, blocks>>
        /\ r \in tdsChan[m]
        /\ \A n \in Miners : tdsChan'[n] \subseteq tdsChan[n]
    BY <1>4, <1>a DEF AwaitTDS, TypeOK
  <2>2. r \in tdsCheck'[m]
    BY <1>a, <2>1 DEF Caches
  <2>3. Traffic' /\ Stages'
    BY <1>d, <1>e, <2>1, <2>2, JobMoved, ItemsBacked, StagesKept
  <2>4. Caches'
    BY <1>b, <2>1 DEF Caches, Downward, Done, leaderVars, Signed
  <2> QED
    BY <1>t, <1>d, <2>3, <2>4
<1>5. CASE GetTxBlock(job)
  <2>1. /\ Move(job, "pass") /\ UNCHANGED <<tds, tdsCheck, tdsChan>>
        /\ r > 0 => r - 1 \in tbChan[m]
        /\ r \in blocks[Leader]
    BY <1>5, <1>a DEF GetTxBlock, Backed
  <2>2. /\ blocks'[m] = blocks[m] \cup {r}
        /\ \A n \in Miners : /\ n # m => blocks'[n] = blocks[n]
                             /\ tbChan'[n] \subseteq tbChan[n]
    BY <1>5, <1>a DEF GetTxBlock, TypeOK
  <2>3. Traffic' /\ Stages'
    BY <1>a, <1>d, <1>e, <2>1, <2>2, JobMoved, ItemsBacked, StagesKept
  <2>4. \A q \in Rounds : q < r => q \in blocks[m]
    <3> SUFFICES ASSUME NEW q \in Rounds, q < r PROVE q \in blocks[m]
      OBVIOUS
    <3>1. r \in Nat /\ q \in Nat
      BY <1>a, RoundsNat
    <3>2. r > 0 /\ r - 1 \in Rounds
      BY <1>a, <3>1, RoundsNat
    <3>3. r - 1 \in blocks[m]
      BY <1>a, <2>1, <3>2 DEF Caches
    <3> QED
      BY <1>a, <3>1, <3>3 DEF Caches, Downward
  <2>5. ASSUME NEW n \in Miners
        PROVE  /\ tbChan'[n] \subseteq blocks'[n] /\ blocks'[n] \subseteq blocks[Leader]
               /\ Downward(blocks'[n])
    BY <1>a, <2>1, <2>2, <2>4 DEF Caches, Downward
  <2>6. Caches'
    BY <1>b, <1>c, <2>1, <2>5 DEF Caches, Downward, Done, leaderVars, Signed
  <2> QED
    BY <1>t, <1>d, <2>3, <2>6
<1> QED
  BY <1>1, <1>2, <1>3, <1>4, <1>5 DEF JobStep

LEMMA QueryOrdered ==
  ASSUME Ordered, NEW m \in Miners, NEW n \in Nodes, NEW kind \in Items,
         NEW r \in Rounds, Query(m, n, kind, r)
  PROVE  Ordered'
<1> USE DEF Ordered
<1>t. TypeOK'
  BY QueryTyped
<1>1. UNCHANGED <<leaderVars, minerVars, blocks, jobs>>
  BY DEF Query
<1>2. LeaderOrder' /\ Kept
  <2>1. Done' = Done
    BY <1>1 DEF leaderVars, Done
  <2> QED
    BY <1>1, <2>1, LeaderSame DEF leaderVars
<1>3. ASSUME NEW data \in Cached(n, kind, r)
      PROVE  Backed(Msg(kind, m, r, 0, data))
  <2>1. CASE kind = "TxDecSetM"
    <3>1. CASE n = Leader
      <4>1. loop[r] = "done" /\ data = memD[r]
        BY <1>3, <2>1, <3>1 DEF Cached
      <4> QED
        BY <2>1, <4>1 DEF Backed, Msg, Signed, LeaderOrder
    <3>2. CASE n # Leader
      <4>1. n \in Miners /\ data = tds[n][r] /\ data # None
        BY <1>3, <2>1, <3>2 DEF Cached, Nodes
      <4> QED
        BY <2>1, <4>1 DEF Backed, Msg, Caches
    <3> QED
      BY <3>1, <3>2
  <2>2. CASE kind = "TxB"
    <3>1. r \in blocks[n]
      BY <1>3, <2>2 DEF Cached
    <3>2. r \in blocks[Leader]
      BY <3>1 DEF Caches, Nodes
    <3> QED
      BY <2>2, <3>2 DEF Backed, Msg
  <2>3. CASE kind = "TxList"
    BY <2>3 DEF Backed, Msg
  <2> QED
    BY <2>1, <2>2, <2>3 DEF Items
<1>4. ASSUME NEW msg \in net' \ net PROVE Backed(msg)'
  <2>1. PICK data \in Cached(n, kind, r) : msg = Msg(kind, m, r, 0, data)
    BY <1>4 DEF Query, Post
  <2>2. Backed(msg) /\ msg.round \in Rounds
    BY <1>3, <2>1 DEF Msg
  <2> QED
    BY <1>2, <2>2, BackedKept
<1>5. Traffic'
  BY <1>1, <1>2, <1>4, ItemsBacked
<1>6. Stages'
  BY <1>1, StagesKept DEF minerVars
<1>7. Caches'
  BY <1>1, <1>2, CachesSame DEF minerVars
<1> QED
  BY <1>t, <1>2, <1>5, <1>6, <1>7

LEMMA NextOrdered == Ordered /\ [Next]_vars => Ordered'
<1> SUFFICES ASSUME Ordered, [Next]_vars PROVE Ordered'
  OBVIOUS
<1>1. CASE UNCHANGED vars
  BY <1>1 DEF vars, leaderVars, minerVars, Ordered, TypeOK, LeaderOrder, Traffic,
              Stages, Caches, Backed, Signed, Downward, Done
<1> QED
  BY <1>1, LeaderOrdered, ReceiveOrdered, JobOrdered, QueryOrdered DEF Next, Finished

LEMMA OrderedAlways == Spec => []Ordered
BY InitOrdered, NextOrdered, PTL DEF Spec

(* A miner's decision set has all the leader signed and nothing the leader  *)
(* did not get, wherever the miner got it from.                             *)
THEOREM DecisionsKept == Spec => []SignedDecisionsKept
<1>1. Ordered => SignedDecisionsKept
  BY DEF Ordered, Caches, Signed, SignedDecisionsKept
<1> QED
  BY <1>1, OrderedAlways, PTL

-----------------------------------------------------------------------------
(* The rounds implement OrderedCommit.  Four actions are steps of it, the   *)
(* others leave decided, produced, known and applied as they are.           *)

LEMMA InitImplements == Init => OC!OCInit
BY DEF Init, OC!OCInit, Nodes

LEMMA SignImplements ==
  ASSUME Ordered, NEW r \in Rounds, SignTDS(r)
  PROVE  OC!Decide(r)
<1>1. /\ loop[r] = "closed" /\ (r > 0 => loop[r - 1] = "done")
      /\ UNCHANGED <<tdsCheck, blocks>>
  BY DEF SignTDS, minerVars
<1>2. loop'[r] = "done" /\ \A q \in Rounds \ {r} : loop'[q] = loop[q]
  BY DEF SignTDS, Ordered, TypeOK
<1>3. Done' = Done \cup {r} /\ r \notin Done
  BY <1>1, <1>2 DEF Done
<1>4. ASSUME NEW q \in Rounds, q < r PROVE q \in Done
  <2>1. r \in Nat /\ q \in Nat
    BY RoundsNat
  <2>2. r > 0 /\ r - 1 \in Rounds
    BY <1>4, <2>1, RoundsNat
  <2>3. r - 1 \in Done
    BY <1>1, <2>2 DEF Done
  <2> QED
    BY <1>4, <2>1, <2>3 DEF Ordered, LeaderOrder, Downward
<1> QED
  BY <1>1, <1>3, <1>4 DEF OC!Decide, OC!IsNext, Done

LEMMA BlockImplements ==
  ASSUME Ordered, NEW r \in Rounds, TxNormalBlock(r)
  PROVE  OC!Produce(r)
<1>1. /\ loop[r] = "done" /\ r \notin blocks[Leader]
      /\ (r > 0 => r - 1 \in blocks[Leader])
      /\ UNCHANGED <<loop, tdsCheck>>
  BY DEF TxNormalBlock, minerVars, leaderVars
<1>2. /\ blocks'[Leader] = blocks[Leader] \cup {r}
      /\ \A m \in Miners : blocks'[m] = blocks[m]
  BY TxRoundAssumption DEF TxNormalBlock, Ordered, TypeOK, Nodes
<1>3. ASSUME NEW q \in Rounds, q < r PROVE q \in blocks[Leader]
  <2>1. r \in Nat /\ q \in Nat
    BY RoundsNat
  <2>2. r > 0 /\ r - 1 \in Rounds
    BY <1>3, <2>1, RoundsNat
  <2> QED
    BY <1>1, <1>3, <2>1, <2>2 DEF Ordered, LeaderOrder, Downward
<1> QED
  BY <1>1, <1>2, <1>3 DEF OC!Produce, OC!IsNext

LEMMA AcceptImplements ==
  ASSUME Ordered, NEW job \in jobs, AcceptTDS(job)
  PROVE  OC!Learn(job.at, job.round) \/ UNCHANGED OC!ocVars
<1>1. job.at \in Miners /\ job.round \in Done
  BY DEF Ordered, TypeOK, Jobs, Traffic, Backed, Signed, LeaderOrder, AcceptTDS, Done
<1>2. /\ tdsCheck' = [tdsCheck EXCEPT ![job.at] = @ \cup {job.round}]
      /\ UNCHANGED <<loop, blocks>>
  BY DEF AcceptTDS, leaderVars
<1>3. CASE job.round \in tdsCheck[job.at]
  <2>1. tdsCheck' = tdsCheck
    BY <1>1, <1>2, <1>3 DEF Ordered, TypeOK
  <2> QED
    BY <1>2, <2>1 DEF OC!ocVars
<1>4. CASE job.round \notin tdsCheck[job.at]
  BY <1>1, <1>2, <1>4 DEF OC!Learn, Done
<1> QED
  BY <1>3, <1>4

LEMMA CommitImplements ==
  ASSUME Ordered, NEW job \in jobs, GetTxBlock(job)
  PROVE  OC!Apply(job.at, job.round) \/ UNCHANGED OC!ocVars
<1> DEFINE m == job.at
           r == job.round
<1>1. m \in Miners /\ m # Leader /\ r \in Rounds /\ r \in blocks[Leader] /\ r \in tdsCheck[m]
  BY TxRoundAssumption
     DEF Ordered, TypeOK, Jobs, Traffic, Backed, Stages, GetTxBlock
<1>2. /\ r > 0 => r - 1 \in tbChan[m]
      /\ UNCHANGED <<loop, tdsCheck>>
      /\ blocks' = [blocks EXCEPT ![m] = @ \cup {r}]
  BY DEF GetTxBlock, leaderVars
<1>3. /\ blocks'[Leader] = blocks[Leader] /\ blocks'[m] = blocks[m] \cup {r}
      /\ \A n \in Miners \ {m} : blocks'[n] = blocks[n]
  BY <1>1, <1>2 DEF Ordered, TypeOK, Nodes
<1>4. ASSUME NEW q \in Rounds, q < r PROVE q \in blocks[m]
  <2>1. r \in Nat /\ q \in Nat
    BY <1>1, RoundsNat
  <2>2. r > 0 /\ r - 1 \in Rounds
    BY <1>1, <1>4, <2>1, RoundsNat
  <2>3. r - 1 \in blocks[m]
    BY <1>1, <1>2, <2>2 DEF Ordered, Caches
  <2> QED
    BY <1>1, <1>4, <2>1, <2>3 DEF Ordered, Caches, Downward
<1>5. CASE r \in blocks[m]
  <2>1. [n \in Miners |-> blocks[n]]' = [n \in Miners |-> blocks[n]]
    BY <1>3, <1>5
  <2> QED
    BY <1>2, <1>3, <2>1 DEF OC!ocVars
<1>6. CASE r \notin blocks[m]
  <2>1. [n \in Miners |-> blocks[n]]'
          = [[n \in Miners |-> blocks[n]] EXCEPT ![m] = @ \cup {r}]
    BY <1>1, <1>3
  <2> QED
    BY <1>1, <1>2, <1>3, <1>4, <1>6, <2>1 DEF OC!Apply, OC!IsNext
<1> QED
  BY <1>5, <1>6

LEMMA NextImplements == Ordered /\ [Next]_vars => [OC!OCNext]_(OC!ocVars)
<1> SUFFICES ASSUME Ordered, [Next]_vars PROVE [OC!OCNext]_(OC!ocVars)
  OBVIOUS
<1>a. ASSUME Done' = Done, UNCHANGED <<blocks, tdsCheck>>
      PROVE  UNCHANGED OC!ocVars
  BY <1>a DEF OC!ocVars, Done
<1>1. ASSUME NEW r \in Rounds, LeaderStep(r) PROVE [OC!OCNext]_(OC!ocVars)
  <2>1. CASE SignTDS(r)
    BY <2>1, SignImplements DEF OC!OCNext
  <2>2. CASE TxNormalBlock(r)
    BY <2>2, BlockImplements DEF OC!OCNext
  <2>3. CASE TxListProcess(r) \/ CountVote(r) \/ EndCollect(r)
    <3>1. Done' = Done /\ UNCHANGED <<blocks, tdsCheck>>
      BY <2>3 DEF TxListProcess, CountVote, EndCollect, Done, Ordered, TypeOK, minerVars
    <3> QED
      BY <1>a, <3>1
  <2> QED
    BY <1>1, <2>1, <2>2, <2>3 DEF LeaderStep
<1>2. ASSUME NEW msg \in net, Receive(msg) PROVE [OC!OCNext]_(OC!ocVars)
  <2>1. UNCHANGED <<loop, blocks, tdsCheck>>
    BY <1>2 DEF Receive, HandleTxDecLeader, HandleTxDecSetLeader, Drop, Pass,
                minerVars, leaderVars
  <2> QED
    BY <1>a, <2>1 DEF Done
<1>3. ASSUME NEW job \in jobs, JobStep(job) PROVE [OC!OCNext]_(OC!ocVars)
  <2>1. job.at \in Miners /\ job.round \in Rounds
    BY DEF Ordered, TypeOK, Jobs
  <2>2. CASE AcceptTDS(job)
    BY <2>1, <2>2, AcceptImplements DEF OC!OCNext
  <2>3. CASE GetTxBlock(job)
    BY <2>1, <2>3, CommitImplements DEF OC!OCNext
  <2>4. CASE ~(AcceptTDS(job) \/ GetTxBlock(job))
    <3>1. UNCHANGED <<loop, blocks, tdsCheck>>
      BY <1>3, <2>4 DEF JobStep, HandleTxList, SignalTDS, GetTDS, AcceptBlock,
                        AwaitTDS, PassOn, minerVars, leaderVars
    <3> QED
      BY <1>a, <3>1 DEF Done
  <2> QED
    BY <2>2, <2>3, <2>4
<1>4. ASSUME NEW m \in Miners, NEW n \in Nodes, NEW kind \in Items, NEW r \in Rounds,
             Query(m, n, kind, r)
      PROVE  [OC!OCNext]_(OC!ocVars)
  <2>1. UNCHANGED <<loop, blocks, tdsCheck>>
    BY <1>4 DEF Query, minerVars, leaderVars
  <2> QED
    BY <1>a, <2>1 DEF Done
<1>5. CASE UNCHANGED vars
  BY <1>a, <1>5 DEF vars, leaderVars, minerVars, Done
<1> QED
  BY <1>1, <1>2, <1>3, <1>4, <1>5 DEF Next, Finished

(* Decision sets and blocks come one per round and in order, at the leader  *)
(* and at every miner.                                                      *)
THEOREM ImplementsOrderedCommit == Spec => OrderedRounds
BY InitImplements, NextImplements, OrderedAlways, PTL DEF Spec, OrderedRounds, OC!OCSpec

-----------------------------------------------------------------------------
(* The signals between the handlers of a miner.  A handler that leaves a    *)
(* stage which stands for a signal has put what replaces it in place.       *)

LEMMA BlockJobKept ==
  ASSUME NEW m, NEW r, NEW stages, NEW job, BlockJob(m, r, stages),
         jobs \ {job} \subseteq jobs'
  PROVE  \/ BlockJob(m, r, stages)'
         \/ /\ job.at = m /\ job.kind = "TxB" /\ job.round = r
            /\ job.stage \in stages
BY DEF BlockJob

LEMMA TDSJobKept ==
  ASSUME NEW m, NEW r, NEW stages, NEW job, TDSJob(m, r, stages),
         jobs \ {job} \subseteq jobs'
  PROVE  \/ TDSJob(m, r, stages)'
         \/ /\ job.at = m /\ job.kind = "TxDecSetM" /\ job.round = r
            /\ job.stage \in stages
BY DEF TDSJob

(* A step that changes no cache, channel or stage of a miner. *)
LEMMA SignalsSame ==
  ASSUME NoLostSignal, UNCHANGED minerVars,
         \A m \in Miners : blocks'[m] = blocks[m],
         jobs \subseteq jobs', \A job \in jobs' \ jobs : job.stage = "check"
  PROVE  NoLostSignal'
<1> SUFFICES ASSUME NEW m \in Miners, NEW r \in Rounds
             PROVE  /\ tds'[m][r] # None \/ TDSJob(m, r, {"store"})' =>
                         r \in tdsChan'[m] \cup blocks'[m] \/ BlockJob(m, r, {"get"})'
                    /\ r \in blocks'[m] /\ r + 1 \in Rounds =>
                         r \in tbChan'[m] \/ r + 1 \in blocks'[m] \/ BlockJob(m, r, {"pass"})'
                    /\ r \in tdsCheck'[m] =>
                         tds'[m][r] # None \/ TDSJob(m, r, {"signal", "store"})'
                    /\ r \in tbCheck'[m] =>
                         r \in blocks'[m] \/ BlockJob(m, r, {"await", "get"})'
  BY DEF NoLostSignal
<1>1. TDSJob(m, r, {"store"})' => TDSJob(m, r, {"store"})
  BY DEF TDSJob
<1>2. /\ BlockJob(m, r, {"get"}) => BlockJob(m, r, {"get"})'
      /\ BlockJob(m, r, {"pass"}) => BlockJob(m, r, {"pass"})'
      /\ BlockJob(m, r, {"await", "get"}) => BlockJob(m, r, {"await", "get"})'
      /\ TDSJob(m, r, {"signal", "store"}) => TDSJob(m, r, {"signal", "store"})'
  BY DEF BlockJob, TDSJob
<1> QED
  BY <1>1, <1>2 DEF NoLostSignal, minerVars

LEMMA JobSignals ==
  ASSUME TypeOK, NoLostSignal, NEW job \in jobs, JobStep(job)
  PROVE  NoLostSignal'
<1>a. job \in Jobs /\ job.at \in Miners /\ job.round \in Rounds
  BY DEF TypeOK, Jobs
<1>b. jobs \ {job} \subseteq jobs'
  BY DEF JobStep, HandleTxList, AcceptTDS, SignalTDS, GetTDS,
         AcceptBlock, AwaitTDS, GetTxBlock, PassOn, Move
<1>1. CASE HandleTxList(job)
  <2>1. ASSUME NEW m \in Miners, NEW r \in Rounds
        PROVE  /\ TDSJob(m, r, {"store"})' => TDSJob(m, r, {"store"})
               /\ BlockJob(m, r, {"get"}) => BlockJob(m, r, {"get"})'
               /\ BlockJob(m, r, {"pass"}) => BlockJob(m, r, {"pass"})'
               /\ BlockJob(m, r, {"await", "get"}) => BlockJob(m, r, {"await", "get"})'
               /\ TDSJob(m, r, {"signal", "store"}) => TDSJob(m, r, {"signal", "store"})'
    BY <1>1 DEF HandleTxList, TDSJob, BlockJob
  <2> QED
    BY <1>1, <2>1 DEF HandleTxList, NoLostSignal, minerVars
<1>2. CASE AcceptTDS(job) \/ SignalTDS(job) \/ GetTDS(job)
  <2>1. /\ UNCHANGED <<blocks, tbCheck, tbChan>> /\ job.kind = "TxDecSetM"
        /\ \A m \in Miners : tdsChan[m] \subseteq tdsChan'[m]
    BY <1>2, <1>a DEF AcceptTDS, SignalTDS, GetTDS, TypeOK
  <2>2. ASSUME NEW m \in Miners, NEW r \in Rounds
        PROVE  /\ BlockJob(m, r, {"get"}) => BlockJob(m, r, {"get"})'
               /\ BlockJob(m, r, {"pass"}) => BlockJob(m, r, {"pass"})'
               /\ BlockJob(m, r, {"await", "get"}) => BlockJob(m, r, {"await", "get"})'
    BY <1>b, <2>1, BlockJobKept
  <2>3. ASSUME NEW m \in Miners, NEW r \in Rounds
        PROVE  /\ r \in blocks'[m] /\ r + 1 \in Rounds =>
                    r \in tbChan'[m] \/ r + 1 \in blocks'[m] \/ BlockJob(m, r, {"pass"})'
               /\ r \in tbCheck'[m] => r \in blocks'[m] \/ BlockJob(m, r, {"await", "get"})'
    BY <2>1, <2>2 DEF NoLostSignal
  <2>4. CASE AcceptTDS(job)
    <3>1. /\ Later(job, "signal") \in jobs' /\ jobs' \subseteq jobs \cup {Later(job, "signal")}
          /\ UNCHANGED <<tds, tdsChan>> /\ job.stage = "check"
      BY <2>4 DEF AcceptTDS, Move
    <3>2. ASSUME NEW m \in Miners, NEW r \in Rounds
          PROVE  /\ TDSJob(m, r, {"store"})' => TDSJob(m, r, {"store"})
                 /\ TDSJob(m, r, {"signal", "store"}) => TDSJob(m, r, {"signal", "store"})'
      <4>1. Later(job, "signal").stage = "signal"
        BY <1>a, MovedJob
      <4>2. TDSJob(m, r, {"store"})' => TDSJob(m, r, {"store"})
        BY <3>1, <4>1 DEF TDSJob
      <4>3. TDSJob(m, r, {"signal", "store"}) => TDSJob(m, r, {"signal", "store"})'
        BY <1>b, <3>1, TDSJobKept
      <4> QED
        BY <4>2, <4>3
    <3>3. TDSJob(job.at, job.round, {"signal", "store"})'
      BY <1>a, <2>1, <3>1, MovedJob DEF TDSJob
    <3>4. ASSUME NEW m \in Miners, NEW r \in Rounds, r \in tdsCheck'[m]
          PROVE  r \in tdsCheck[m] \/ (m = job.at /\ r = job.round)
      BY <1>a, <2>4, <3>4 DEF AcceptTDS, TypeOK
    <3>5. ASSUME NEW m \in Miners, NEW r \in Rounds, r \in tdsCheck'[m]
          PROVE  tds'[m][r] # None \/ TDSJob(m, r, {"signal", "store"})'
      BY <3>1, <3>2, <3>3, <3>4, <3>5 DEF NoLostSignal
    <3>6. ASSUME NEW m \in Miners, NEW r \in Rounds,
                 tds'[m][r] # None \/ TDSJob(m, r, {"store"})'
          PROVE  r \in tdsChan'[m] \cup blocks'[m] \/ BlockJob(m, r, {"get"})'
      BY <2>1, <2>2, <3>1, <3>2, <3>6 DEF NoLostSignal
    <3> QED
      BY <2>3, <3>5, <3>6 DEF NoLostSignal
  <2>5. CASE SignalTDS(job)
    <3>1. /\ Later(job, "store") \in jobs' /\ jobs' \subseteq jobs \cup {Later(job, "store")}
          /\ UNCHANGED <<tds, tdsCheck>> /\ job.round \in tdsChan'[job.at]
      BY <1>a, <2>5 DEF SignalTDS, Move, TypeOK
    <3>2. TDSJob(job.at, job.round, {"signal", "store"})'
      BY <1>a, <2>1, <3>1, MovedJob DEF TDSJob
    <3>3. ASSUME NEW m \in Miners, NEW r \in Rounds, TDSJob(m, r, {"store"})'
          PROVE  TDSJob(m, r, {"store"}) \/ (m = job.at /\ r = job.round)
      BY <1>a, <3>1, <3>3, MovedJob DEF TDSJob
    <3>4. ASSUME NEW m \in Miners, NEW r \in Rounds, r \in tdsCheck'[m]
          PROVE  tds'[m][r] # None \/ TDSJob(m, r, {"signal", "store"})'
      <4>1. tds[m][r] # None \/ TDSJob(m, r, {"signal", "store"})
        BY <3>1, <3>4 DEF NoLostSignal
      <4>2. TDSJob(m, r, {"signal", "store"}) => TDSJob(m, r, {"signal", "store"})'
        BY <1>b, <3>2, TDSJobKept
      <4> QED
        BY <3>1, <4>1, <4>2
    <3>5. ASSUME NEW m \in Miners, NEW r \in Rounds,
                 tds'[m][r] # None \/ TDSJob(m, r, {"store"})'
          PROVE  r \in tdsChan'[m] \cup blocks'[m] \/ BlockJob(m, r, {"get"})'
      BY <2>1, <2>2, <3>1, <3>3, <3>5 DEF NoLostSignal
    <3> QED
      BY <2>3, <3>4, <3>5 DEF NoLostSignal
  <2>6. CASE GetTDS(job)
    <3>1. /\ jobs' = jobs \ {job} /\ UNCHANGED <<tdsCheck, tdsChan>>
          /\ job.stage = "store" /\ job.data # None
      BY <1>a, <2>6, TxRoundAssumption DEF GetTDS, Jobs
    <3>2. /\ tds'[job.at][job.round] # None
          /\ \A m \in Miners, r \in Rounds :
               tds'[m][r] = tds[m][r] \/ (m = job.at /\ r = job.round)
      BY <1>a, <2>6, <3>1 DEF GetTDS, TypeOK
    <3>3. TDSJob(job.at, job.round, {"store"})
      BY <2>1, <3>1 DEF TDSJob
    <3>4. ASSUME NEW m \in Miners, NEW r \in Rounds, TDSJob(m, r, {"store"})'
          PROVE  TDSJob(m, r, {"store"})
      BY <3>1, <3>4 DEF TDSJob
    <3>5. ASSUME NEW m \in Miners, NEW r \in Rounds, r \in tdsCheck'[m]
          PROVE  tds'[m][r] # None \/ TDSJob(m, r, {"signal", "store"})'
      <4>1. tds[m][r] # None \/ TDSJob(m, r, {"signal", "store"})
        BY <3>1, <3>5 DEF NoLostSignal
      <4>2. TDSJob(m, r, {"signal", "store"}) =>
              TDSJob(m, r, {"signal", "store"})' \/ (m = job.at /\ r = job.round)
        BY <1>b, TDSJobKept
      <4> QED
        BY <3>2, <4>1, <4>2
    <3>6. ASSUME NEW m \in Miners, NEW r \in Rounds,
                 tds'[m][r] # None \/ TDSJob(m, r, {"store"})'
          PROVE  r \in tdsChan'[m] \cup blocks'[m] \/ BlockJob(m, r, {"get"})'
      BY <2>1, <2>2, <3>1, <3>2, <3>3, <3>4, <3>6 DEF NoLostSignal
    <3> QED
      BY <2>3, <3>5, <3>6 DEF NoLostSignal
  <2> QED
    BY <1>2, <2>4, <2>5, <2>6
<1>3. CASE AcceptBlock(job) \/ AwaitTDS(job) \/ GetTxBlock(job) \/ PassOn(job)
  <2>1. UNCHANGED <<tds, tdsCheck>> /\ job.kind = "TxB"
    BY <1>3 DEF AcceptBlock, AwaitTDS, GetTxBlock, PassOn
  <2>2. ASSUME NEW m \in Miners, NEW r \in Rounds
        PROVE  /\ TDSJob(m, r, {"store"})' => TDSJob(m, r, {"store"})
               /\ TDSJob(m, r, {"signal", "store"}) => TDSJob(m, r, {"signal", "store"})'
    <3>1. \A j \in jobs' \ jobs : j.kind = "TxB"
      BY <1>3, <1>a, <2>1, MovedJob DEF AcceptBlock, AwaitTDS, GetTxBlock, PassOn, Move
    <3>2. TDSJob(m, r, {"store"})' => TDSJob(m, r, {"store"})
      BY <3>1 DEF TDSJob
    <3>3. TDSJob(m, r, {"signal", "store"}) => TDSJob(m, r, {"signal", "store"})'
      BY <1>b, <2>1, TDSJobKept
    <3> QED
      BY <3>2, <3>3
  <2>3. ASSUME NEW m \in Miners, NEW r \in Rounds, r \in tdsCheck'[m]
        PROVE  tds'[m][r] # None \/ TDSJob(m, r, {"signal", "store"})'
    BY <2>1, <2>2, <2>3 DEF NoLostSignal
  <2>4. ASSUME NEW m \in Miners, NEW r \in Rounds,
               tds'[m][r] # None \/ TDSJob(m, r, {"store"})'
        PROVE  r \in tdsChan[m] \cup blocks[m] \/ BlockJob(m, r, {"get"})
    BY <2>1, <2>2, <2>4 DEF NoLostSignal
  <2>5. CASE AcceptBlock(job)
    <3>1. /\ Later(job, "await") \in jobs' /\ job.stage = "check"
          /\ UNCHANGED <<tdsChan, tbChan, blocks>>
      BY <2>5 DEF AcceptBlock, Move
    <3>2. ASSUME NEW m \in Miners, NEW r \in Rounds
          PROVE  /\ BlockJob(m, r, {"get"}) => BlockJob(m, r, {"get"})'
                 /\ BlockJob(m, r, {"pass"}) => BlockJob(m, r, {"pass"})'
                 /\ BlockJob(m, r, {"await", "get"}) => BlockJob(m, r, {"await", "get"})'
      BY <1>b, <3>1, BlockJobKept
    <3>3. BlockJob(job.at, job.round, {"await", "get"})'
      BY <1>a, <2>1, <3>1, MovedJob DEF BlockJob
    <3>4. ASSUME NEW m \in Miners, NEW r \in Rounds, r \in tbCheck'[m]
          PROVE  r \in tbCheck[m] \/ (m = job.at /\ r = job.round)
      BY <1>a, <2>5, <3>4 DEF AcceptBlock, TypeOK
    <3>5. ASSUME NEW m \in Miners, NEW r \in Rounds, r \in tbCheck'[m]
          PROVE  r \in blocks'[m] \/ BlockJob(m, r, {"await", "get"})'
      BY <3>1, <3>2, <3>3, <3>4, <3>5 DEF NoLostSignal
    <3>6. ASSUME NEW m \in Miners, NEW r \in Rounds, r \in blocks'[m], r + 1 \in Rounds
          PROVE  r \in tbChan'[m] \/ r + 1 \in blocks'[m] \/ BlockJob(m, r, {"pass"})'
      BY <3>1, <3>2, <3>6 DEF NoLostSignal
    <3> QED
      BY <2>3, <2>4, <3>1, <3>2, <3>5, <3>6 DEF NoLostSignal
  <2>6. CASE AwaitTDS(job)
    <3>1. /\ Later(job, "get") \in jobs' /\ job.stage = "await"
          /\ UNCHANGED <<tbCheck, tbChan, blocks>>
      BY <2>6 DEF AwaitTDS, Move
    <3>2. BlockJob(job.at, job.round, {"get"})' /\ BlockJob(job.at, job.round, {"await", "get"})'
      BY <1>a, <2>1, <3>1, MovedJob DEF BlockJob
    <3>3. ASSUME NEW m \in Miners, NEW r \in Rounds
          PROVE  /\ BlockJob(m, r, {"get"}) => BlockJob(m, r, {"get"})'
                 /\ BlockJob(m, r, {"pass"}) => BlockJob(m, r, {"pass"})'
                 /\ BlockJob(m, r, {"await", "get"}) => BlockJob(m, r, {"await", "get"})'
      BY <1>b, <3>1, <3>2, BlockJobKept
    <3>4. ASSUME NEW m \in Miners, NEW r \in Rounds, r \in tdsChan[m]
          PROVE  r \in tdsChan'[m] \/ (m = job.at /\ r = job.round)
      BY <1>a, <2>6, <3>4 DEF AwaitTDS, TypeOK
    <3>5. ASSUME NEW m \in Miners, NEW r \in Rounds,
                 tds'[m][r] # None \/ TDSJob(m, r, {"store"})'
          PROVE  r \in tdsChan'[m] \cup blocks'[m] \/ BlockJob(m, r, {"get"})'
      BY <2>4, <3>1, <3>2, <3>3, <3>4, <3>5
    <3>6. ASSUME NEW m \in Miners, NEW r \in Rounds
          PROVE  /\ r \in blocks'[m] /\ r + 1 \in Rounds =>
                      r \in tbChan'[m] \/ r + 1 \in blocks'[m] \/ BlockJob(m, r, {"pass"})'
                 /\ r \in tbCheck'[m] => r \in blocks'[m] \/ BlockJob(m, r, {"await", "get"})'
      BY <3>1, <3>3 DEF NoLostSignal
    <3> QED
      BY <2>3, <3>5, <3>6 DEF NoLostSignal
  <2>7. CASE GetTxBlock(job)
    <3>1. /\ Later(job, "pass") \in jobs' /\ job.stage = "get"
          /\ UNCHANGED <<tbCheck, tdsChan>> /\ job.round \in blocks'[job.at]
      BY <1>a, <2>7 DEF GetTxBlock, Move, TypeOK, Nodes
    <3>2. BlockJob(job.at, job.round, {"pass"})'
      BY <1>a, <2>1, <3>1, MovedJob DEF BlockJob
    <3>3. ASSUME NEW m \in Miners, NEW r \in Rounds
          PROVE  /\ BlockJob(m, r, {"get"}) =>
                      BlockJob(m, r, {"get"})' \/ (m = job.at /\ r = job.round)
                 /\ BlockJob(m, r, {"pass"}) => BlockJob(m, r, {"pass"})'
                 /\ BlockJob(m, r, {"await", "get"}) =>
                      BlockJob(m, r, {"await", "get"})' \/ (m = job.at /\ r = job.round)
      BY <1>b, <3>1, BlockJobKept
    <3>4. \A m \in Miners : blocks[m] \subseteq blocks'[m]
      BY <1>a, <2>7 DEF GetTxBlock, TypeOK, Nodes
    <3>5. ASSUME NEW m \in Miners, NEW r \in Rounds, r \in blocks'[m]
          PROVE  r \in blocks[m] \/ (m = job.at /\ r = job.round)
      BY <1>a, <2>7, <3>5 DEF GetTxBlock, TypeOK, Nodes
    <3>6. ASSUME NEW m \in Miners, NEW r \in Rounds, r \in tbChan[m]
          PROVE  r \in tbChan'[m] \/ (m = job.at /\ r + 1 = job.round)
      <4>1. r \in Nat /\ job.round \in Nat
        BY <1>a, RoundsNat
      <4>2. r \in tbChan'[m] \/ (m = job.at /\ r = job.round - 1)
        BY <1>a, <2>7, <3>6 DEF GetTxBlock, TypeOK
      <4> QED
        BY <4>1, <4>2
    <3>7. ASSUME NEW m \in Miners, NEW r \in Rounds, r \in blocks'[m], r + 1 \in Rounds
          PROVE  r \in tbChan'[m] \/ r + 1 \in blocks'[m] \/ BlockJob(m, r, {"pass"})'
      <4>1. CASE m = job.at /\ r = job.round
        BY <3>2, <4>1
      <4>2. CASE ~(m = job.at /\ r = job.round)
        <5>1. r \in tbChan[m] \/ r + 1 \in blocks[m] \/ BlockJob(m, r, {"pass"})
          BY <3>5, <3>7, <4>2 DEF NoLostSignal
        <5> QED
          BY <3>1, <3>3, <3>4, <3>6, <5>1
      <4> QED
        BY <4>1, <4>2
    <3>8. ASSUME NEW m \in Miners, NEW r \in Rounds,
                 tds'[m][r] # None \/ TDSJob(m, r, {"store"})'
          PROVE  r \in tdsChan'[m] \cup blocks'[m] \/ BlockJob(m, r, {"get"})'
      BY <2>4, <3>1, <3>3, <3>4, <3>8
    <3>9. ASSUME NEW m \in Miners, NEW r \in Rounds, r \in tbCheck'[m]
          PROVE  r \in blocks'[m] \/ BlockJob(m, r, {"await", "get"})'
      BY <3>1, <3>3, <3>4, <3>9 DEF NoLostSignal
    <3> QED
      BY <2>3, <3>7, <3>8, <3>9 DEF NoLostSignal
  <2>8. CASE PassOn(job)
    <3>1. /\ job.stage = "pass" /\ UNCHANGED <<tbCheck, tdsChan, blocks>>
          /\ job.round \in tbChan'[job.at]
          /\ \A m \in Miners : tbChan[m] \subseteq tbChan'[m]
      BY <1>a, <2>8 DEF PassOn, TypeOK
    <3>2. ASSUME NEW m \in Miners, NEW r \in Rounds
          PROVE  /\ BlockJob(m, r, {"get"}) => BlockJob(m, r, {"get"})'
                 /\ BlockJob(m, r, {"pass"}) =>
                      BlockJob(m, r, {"pass"})' \/ (m = job.at /\ r = job.round)
                 /\ BlockJob(m, r, {"await", "get"}) => BlockJob(m, r, {"await", "get"})'
      BY <1>b, <3>1, BlockJobKept
    <3>3. ASSUME NEW m \in Miners, NEW r \in Rounds
          PROVE  /\ r \in blocks'[m] /\ r + 1 \in Rounds =>
                      r \in tbChan'[m] \/ r + 1 \in blocks'[m] \/ BlockJob(m, r, {"pass"})'
                 /\ r \in tbCheck'[m] => r \in blocks'[m] \/ BlockJob(m, r, {"await", "get"})'
      BY <3>1, <3>2 DEF NoLostSignal
    <3> QED
      BY <2>3, <2>4, <3>1, <3>2, <3>3 DEF NoLostSignal
  <2> QED
    BY <1>3, <2>5, <2>6, <2>7, <2>8
<1> QED
  BY <1>1, <1>2, <1>3 DEF JobStep

LEMMA NextSignals == TypeOK /\ NoLostSignal /\ [Next]_vars => NoLostSignal'
<1> SUFFICES ASSUME TypeOK, NoLostSignal, [Next]_vars PROVE NoLostSignal'
  OBVIOUS
<1>1. ASSUME NEW r \in Rounds, LeaderStep(r) PROVE NoLostSignal'
  <2>1. UNCHANGED <<minerVars, jobs>> /\ \A m \in Miners : blocks'[m] = blocks[m]
    BY <1>1, TxRoundAssumption DEF LeaderStep, TxListProcess, CountVote, EndCollect,
                                   SignTDS, TxNormalBlock, TypeOK, Nodes
  <2> QED
    BY <2>1, SignalsSame
<1>2. ASSUME NEW msg \in net, Receive(msg) PROVE NoLostSignal'
  <2>1. UNCHANGED <<minerVars, blocks>> /\ jobs \subseteq jobs'
    BY <1>2 DEF Receive, HandleTxDecLeader, HandleTxDecSetLeader, Drop, Pass
  <2>2. \A job \in jobs' \ jobs : job.stage = "check"
    BY <1>2 DEF Receive, HandleTxDecLeader, HandleTxDecSetLeader, Drop, Pass, Job
  <2> QED
    BY <2>1, <2>2, SignalsSame
<1>3. ASSUME NEW m \in Miners, NEW n \in Nodes, NEW kind \in Items, NEW r \in Rounds,
             Query(m, n, kind, r)
      PROVE  NoLostSignal'
  <2>1. UNCHANGED <<minerVars, blocks, jobs>>
    BY <1>3 DEF Query
  <2> QED
    BY <2>1, SignalsSame
<1>4. CASE UNCHANGED vars
  <2>1. UNCHANGED <<minerVars, blocks, jobs>>
    BY <1>4 DEF vars
  <2> QED
    BY <2>1, SignalsSame
<1> QED
  BY <1>1, <1>2, <1>3, <1>4, JobSignals DEF Next, Finished

(* No signal between the handlers of a miner is lost, however many copies   *)
(* of a message are handled at once.                                        *)
THEOREM SignalsKept == Spec => []NoLostSignal
<1>1. Init => NoLostSignal
  BY DEF Init, NoLostSignal, TDSJob, BlockJob, Nodes
<1> QED
  BY <1>1, NextSignals, TypeCorrect, PTL DEF Spec
=============================================================================
