------------------------------- MODULE TxRound -------------------------------
(***************************************************************************)
(* The transaction rounds of one epoch of a shard: the leader's            *)
(* TxListProcess and TxNormalBlock (TransactionProtocol.go), the miners'   *)
(* HandleTxList, HandleTxDecSet, HandleTxBlock and the queries by which a  *)
(* miner fetches what the gossip did not bring it                          *)
(* (TransactionProtocolMiner.go), over the caches of DbRef.                *)
(*                                                                         *)
(* Every message is handled in a goroutine of its own, and the three       *)
(* handlers of a miner read their TLCheck/TDSCheck/TBCheck flag and set it *)
(* in two steps without the lock.  The handlers of one round meet through  *)
(* channels of capacity one: TDSChan[r] tells the block handler that the   *)
(* decision set came, TBChan[r] tells the handler of block r+1 that block  *)
(* r is in.                                                                *)
(*                                                                         *)
(* Abstraction: transactions, hashes and signatures are left out; a        *)
(* decision is the miner it comes from, a TxDecSet the set of decisions it *)
(* carries (MemD), a block its round (Height - PrevHeight - 1).            *)
(***************************************************************************)
EXTENDS Integers, FiniteSets

CONSTANTS Miners, Leader,     \* the members of the shard
          None,               \* an empty TDSCache entry
          NumTxListPerEpoch,  \* gVar.NumTxListPerEpoch: rounds of the epoch
          GossipRound,        \* gVar.GossipRound: level of the leader's gossip
          MaxHandlers,        \* bound: handlers of one item past its check
          MaxInFlight         \* bound: messages in flight

Nodes == Miners \cup {Leader}
Rounds == 0 .. (NumTxListPerEpoch - 1)
Items == {"TxList", "TxDecSetM", "TxB"}
ShardSize == Cardinality(Nodes)

ASSUME TxRoundAssumption ==
  /\ IsFiniteSet(Miners) /\ Leader \notin Miners
  /\ \A decisions \in SUBSET Miners : decisions # None
  /\ NumTxListPerEpoch \in Nat \ {0}
  /\ GossipRound \in Nat
  /\ MaxHandlers \in Nat \ {0} /\ MaxInFlight \in Nat \ {0}

VARIABLES
  loop,      \* loop[r]: where the leader's TxListProcess of round r is
  cnt,       \* cnt[r]: its count of members that decided, itself included
  votes,     \* votes[r]: signals in TLChan[r], blocked senders included
  memD,      \* memD[r]: MemD of the leader's TxDecSet, which TDSCache points to
  signed,    \* history: signed[r] is what SignTDS signed, None before
  lists,     \* lists[n]: rounds with TLCheck and TLSCache set
  tdsCheck,  \* tdsCheck[m]: rounds with TDSCheck set, of a miner
  tds,       \* tds[m][r]: TDSCache[r] of a miner
  tdsCnt,    \* tdsCnt[n]: TDSCnt of the shard
  tdsChan,   \* tdsChan[m]: rounds whose TDSChan holds its signal
  tbCheck,   \* tbCheck[m]: rounds with TBCheck set, of a miner
  blocks,    \* blocks[n]: rounds with TBBCache set
  tbChan,    \* tbChan[m]: rounds whose TBChan holds its signal, at a miner
  jobs,      \* handlers in progress at the miners
  net        \* messages in flight

leaderVars == <<loop, cnt, votes, memD, signed>>
minerVars == <<tdsCheck, tds, tdsChan, tbCheck, tbChan>>
vars == <<leaderVars, minerVars, lists, blocks, tdsCnt, jobs, net>>

Msg(kind, to, round, level, data) ==
  [kind |-> kind, to |-> to, round |-> round, level |-> level, data |-> data]

Job(msg, id, stage) ==
  [at |-> msg.to, kind |-> msg.kind, round |-> msg.round, level |-> msg.level,
   data |-> msg.data, id |-> id, stage |-> stage]

(* SendTxList, SendTxDecSetInShard, SendTxBlock: one message per level from *)
(* level down to 1, each to a member GetGossipID picks; any may be lost.    *)
Gossip(from, kind, round, level, data) ==
  {msgs \in SUBSET {Msg(kind, to, round, i, data) :
                      to \in Nodes \ {from}, i \in 1 .. level} :
     \A x, y \in msgs : x.level = y.level => x = y}

(* The messages of sent that are not lost are now in flight. *)
Post(rest, sent) ==
  /\ Cardinality(rest \cup sent) <= MaxInFlight \/ sent = {}
  /\ net' = rest \cup sent

-----------------------------------------------------------------------------

Init ==
  /\ loop = [r \in Rounds |-> "idle"]
  /\ cnt = [r \in Rounds |-> 1]
  /\ votes = [r \in Rounds |-> 0]
  /\ memD = [r \in Rounds |-> {}]
  /\ signed = [r \in Rounds |-> None]
  /\ lists = [n \in Nodes |-> {}]
  /\ tdsCheck = [m \in Miners |-> {}]
  /\ tds = [m \in Miners |-> [r \in Rounds |-> None]]
  /\ tdsCnt = [n \in Nodes |-> 0]
  /\ tdsChan = [m \in Miners |-> {}]
  /\ tbCheck = [m \in Miners |-> {}]
  /\ blocks = [n \in Nodes |-> {}]
  /\ tbChan = [m \in Miners |-> {}]
  /\ jobs = {} /\ net = {}

(* The first locked section of TxListProcess.  TxGeneralLoop starts one     *)
(* every ten seconds, whether or not the ones before it are done.           *)
TxListProcess(r) ==
  /\ loop[r] = "idle" /\ \A q \in Rounds : q < r => loop[q] # "idle"
  /\ loop' = [loop EXCEPT ![r] = "collect"]
  /\ lists' = [lists EXCEPT ![Leader] = @ \cup {r}]
  /\ \E sent \in Gossip(Leader, "TxList", r, GossipRound, {}) : Post(net, sent)
  /\ UNCHANGED <<cnt, votes, memD, signed, minerVars, blocks, tdsCnt, jobs>>

(* <-TLChan[r]: one more decision. *)
CountVote(r) ==
  /\ loop[r] = "collect" /\ cnt[r] < ShardSize /\ votes[r] > 0
  /\ votes' = [votes EXCEPT ![r] = @ - 1]
  /\ cnt' = [cnt EXCEPT ![r] = @ + 1]
  /\ UNCHANGED <<loop, memD, signed, minerVars, lists, blocks, tdsCnt, jobs, net>>

(* The loop ends with cnt = ShardSize or when timeoutTL passes without a    *)
(* vote, which may be at any time.                                          *)
EndCollect(r) ==
  /\ loop[r] = "collect"
  /\ loop' = [loop EXCEPT ![r] = "closed"]
  /\ UNCHANGED <<cnt, votes, memD, signed, minerVars, lists, blocks, tdsCnt, jobs, net>>

(* The second locked section, after <-TBChan[r-1]; the signal it leaves in  *)
(* TBChan[r] is the value "done" of loop[r].  A variant clears the set.     *)
SignTDSReset(r) ==
  /\ loop[r] = "closed"
  /\ r > 0 => loop[r - 1] = "done"
  /\ loop' = [loop EXCEPT ![r] = "done"]
  /\ signed' = [signed EXCEPT ![r] = memD[r]]
  /\ memD' = [memD EXCEPT ![r] = {}]
  /\ tdsCnt' = [tdsCnt EXCEPT ![Leader] = @ + 1]
  /\ \E sent \in Gossip(Leader, "TxDecSetM", r, GossipRound, memD[r]) :
       Post(net, sent)
  /\ UNCHANGED <<cnt, votes, minerVars, lists, blocks, jobs>>
SignTDS(r) ==
  /\ loop[r] = "closed"
  /\ r > 0 => loop[r - 1] = "done"
  /\ loop' = [loop EXCEPT ![r] = "done"]
  /\ signed' = [signed EXCEPT ![r] = memD[r]]
  /\ tdsCnt' = [tdsCnt EXCEPT ![Leader] = @ + 1]
  /\ \E sent \in Gossip(Leader, "TxDecSetM", r, GossipRound, memD[r]) :
       Post(net, sent)
  /\ UNCHANGED <<cnt, votes, memD, minerVars, lists, blocks, jobs>>

(* TxNormalBlock, started by SignTDS; it waits for TBBChan[r-1], which the  *)
(* one of the round before fills when its block is made.                    *)
TxNormalBlock(r) ==
  /\ loop[r] = "done" /\ r \notin blocks[Leader]
  /\ r > 0 => r - 1 \in blocks[Leader]
  /\ blocks' = [blocks EXCEPT ![Leader] = @ \cup {r}]
  /\ \E sent \in Gossip(Leader, "TxB", r, GossipRound, {}) : Post(net, sent)
  /\ UNCHANGED <<leaderVars, minerVars, lists, tdsCnt, jobs>>

(* HandleTxDecLeader and UpdateTXCache: nothing tells a late decision, or a *)
(* second one, from a first one in time.                                    *)
HandleTxDecLeader(msg) ==
  /\ msg.kind = "TxDec"
  /\ memD' = [memD EXCEPT ![msg.round] = @ \cup msg.data]
  /\ votes' = [votes EXCEPT ![msg.round] = @ + 1]
  /\ net' = net \ {msg}
  /\ UNCHANGED <<loop, cnt, signed, minerVars, lists, blocks, tdsCnt, jobs>>

(* HandleTxDecSetLeader: what a miner gossips back is counted again. *)
HandleTxDecSetLeader(msg) ==
  /\ msg.kind = "TxDecSetM" /\ msg.to = Leader
  /\ tdsCnt' = [tdsCnt EXCEPT ![Leader] = @ + 1]
  /\ net' = net \ {msg}
  /\ UNCHANGED <<leaderVars, minerVars, lists, blocks, jobs>>

-----------------------------------------------------------------------------

(* The flag a handler looks at first; the leader sets TBCheck with TDSCheck *)
(* and never handles a TxDecSetM as a miner does.                           *)
Checked(n, kind, r) ==
  CASE kind = "TxList" -> r \in lists[n]
    [] kind = "TxDecSetM" -> n \in Miners /\ r \in tdsCheck[n]
    [] kind = "TxB" -> IF n = Leader THEN loop[r] = "done" ELSE r \in tbCheck[n]

(* A handler returns at once if its flag is set ... *)
Drop(msg) ==
  /\ msg.kind \in Items /\ Checked(msg.to, msg.kind, msg.round)
  /\ net' = net \ {msg}
  /\ UNCHANGED <<leaderVars, minerVars, lists, blocks, tdsCnt, jobs>>

Busy(msg) ==
  {job.id : job \in {j \in jobs : <<j.at, j.kind, j.round>>
                                  = <<msg.to, msg.kind, msg.round>>}}

(* ... or goes on, and has not set it yet. *)
Pass(msg) ==
  /\ msg.kind \in Items /\ msg.to \in Miners
  /\ ~Checked(msg.to, msg.kind, msg.round)
  /\ \E id \in 1 .. MaxHandlers :
       /\ id \notin Busy(msg) /\ \A i \in 1 .. (id - 1) : i \in Busy(msg)
       /\ jobs' = jobs \cup {Job(msg, id, "check")}
  /\ net' = net \ {msg}
  /\ UNCHANGED <<leaderVars, minerVars, lists, blocks, tdsCnt>>

(* The handler is at its next stage; it has no use for the level any more. *)
Later(job, stage) == [job EXCEPT !.stage = stage, !.level = 0]

Move(job, stage) == jobs' = (jobs \ {job}) \cup {Later(job, stage)}

Forward(job) ==
  Gossip(job.at, job.kind, job.round, job.level - 1, job.data)

(* The rest of HandleTxList: the flag, the gossip, ProcessTL, the decision. *)
HandleTxList(job) ==
  /\ job.kind = "TxList" /\ job.stage = "check"
  /\ lists' = [lists EXCEPT ![job.at] = @ \cup {job.round}]
  /\ LET dec == Msg("TxDec", Leader, job.round, 0, {job.at}) IN
       \E sent \in Forward(job), reply \in {{}, {dec}} : Post(net, sent \cup reply)
  /\ jobs' = jobs \ {job}
  /\ UNCHANGED <<leaderVars, minerVars, blocks, tdsCnt>>

(* HandleTxDecSet sets its flag and gossips, ... *)
AcceptTDS(job) ==
  /\ job.kind = "TxDecSetM" /\ job.stage = "check"
  /\ tdsCheck' = [tdsCheck EXCEPT ![job.at] = @ \cup {job.round}]
  /\ \E sent \in Forward(job) : Post(net, sent)
  /\ Move(job, "signal")
  /\ UNCHANGED <<leaderVars, tds, tdsChan, tbCheck, tbChan, lists, blocks, tdsCnt>>

(* ... signals TDSChan[r], blocking while it is full, ... *)
SignalTDS(job) ==
  /\ job.kind = "TxDecSetM" /\ job.stage = "signal"
  /\ job.round \notin tdsChan[job.at]
  /\ tdsChan' = [tdsChan EXCEPT ![job.at] = @ \cup {job.round}]
  /\ Move(job, "store")
  /\ UNCHANGED <<leaderVars, tdsCheck, tds, tbCheck, tbChan, lists, blocks, tdsCnt, net>>

(* ... and then, with the lock, counts and stores it (GetTDS). *)
GetTDS(job) ==
  /\ job.kind = "TxDecSetM" /\ job.stage = "store"
  /\ tds' = [tds EXCEPT ![job.at][job.round] = job.data]
  /\ tdsCnt' = [tdsCnt EXCEPT ![job.at] = @ + 1]
  /\ jobs' = jobs \ {job}
  /\ UNCHANGED <<leaderVars, tdsCheck, tdsChan, tbCheck, tbChan, lists, blocks, net>>

(* HandleTxBlock sets its flag and gossips, ... *)
AcceptBlock(job) ==
  /\ job.kind = "TxB" /\ job.stage = "check"
  /\ tbCheck' = [tbCheck EXCEPT ![job.at] = @ \cup {job.round}]
  /\ \E sent \in Forward(job) : Post(net, sent)
  /\ Move(job, "await")
  /\ UNCHANGED <<leaderVars, tdsCheck, tds, tdsChan, tbChan, lists, blocks, tdsCnt>>

(* ... waits for TDSChan[r], ... *)
AwaitTDS(job) ==
  /\ job.kind = "TxB" /\ job.stage = "await"
  /\ job.round \in tdsChan[job.at]
  /\ tdsChan' = [tdsChan EXCEPT ![job.at] = @ \ {job.round}]
  /\ Move(job, "get")
  /\ UNCHANGED <<leaderVars, tdsCheck, tds, tbCheck, tbChan, lists, blocks, tdsCnt, net>>

(* ... and, but for the first round, for TBChan[r-1]; stores the block      *)
(* (GetTxBlock) ...  A variant stores it whatever the round before did.     *)
GetTxBlockAtOnce(job) ==
  /\ job.kind = "TxB" /\ job.stage = "get"
  /\ tbChan' = [tbChan EXCEPT ![job.at] = @ \ {job.round - 1}]
  /\ blocks' = [blocks EXCEPT ![job.at] = @ \cup {job.round}]
  /\ Move(job, "pass")
  /\ UNCHANGED <<leaderVars, tdsCheck, tds, tdsChan, tbCheck, lists, tdsCnt, net>>
GetTxBlock(job) ==
  /\ job.kind = "TxB" /\ job.stage = "get"
  /\ job.round > 0 => job.round - 1 \in tbChan[job.at]
  /\ tbChan' = [tbChan EXCEPT ![job.at] = @ \ {job.round - 1}]
  /\ blocks' = [blocks EXCEPT ![job.at] = @ \cup {job.round}]
  /\ Move(job, "pass")
  /\ UNCHANGED <<leaderVars, tdsCheck, tds, tdsChan, tbCheck, lists, tdsCnt, net>>

(* ... and signals TBChan[r].  A variant does not. *)
PassOnSilently(job) ==
  /\ job.kind = "TxB" /\ job.stage = "pass"
  /\ jobs' = jobs \ {job}
  /\ UNCHANGED <<leaderVars, minerVars, lists, blocks, tdsCnt, net>>
PassOn(job) ==
  /\ job.kind = "TxB" /\ job.stage = "pass"
  /\ job.round \notin tbChan[job.at]
  /\ tbChan' = [tbChan EXCEPT ![job.at] = @ \cup {job.round}]
  /\ jobs' = jobs \ {job}
  /\ UNCHANGED <<leaderVars, tdsCheck, tds, tdsChan, tbCheck, lists, blocks, tdsCnt, net>>

-----------------------------------------------------------------------------

(* What n caches of round r and answers a query with; the leader's TDSCache *)
(* points to the set that late decisions still join.                        *)
Cached(n, kind, r) ==
  CASE kind = "TxList" -> IF r \in lists[n] THEN {{}} ELSE {}
    [] kind = "TxDecSetM" ->
         IF n = Leader THEN IF loop[r] = "done" THEN {memD[r]} ELSE {}
         ELSE {tds[n][r]} \ {None}
    [] kind = "TxB" -> IF r \in blocks[n] THEN {{}} ELSE {}

(* HandleTxLoopMiner: the decision set and the block once the list is in.   *)
(* A variant stops asking when one of the two is there.                     *)
WantedUntilOne(m, kind, r) ==
  /\ Cached(m, kind, r) = {}
  /\ kind # "TxList" => /\ r \in lists[m]
                        /\ Cached(m, "TxDecSetM", r) = {} /\ Cached(m, "TxB", r) = {}
Wanted(m, kind, r) ==
  /\ Cached(m, kind, r) = {}
  /\ kind # "TxList" => r \in lists[m]

(* QueryTL, QueryTDS or QueryTB of m meets HandleQTL, HandleQTDS or HandleQTB *)
(* of n, and the answer, of level 0, is in flight.                            *)
Query(m, n, kind, r) ==
  /\ m # n /\ Wanted(m, kind, r)
  /\ \E data \in Cached(n, kind, r) : Post(net, {Msg(kind, m, r, 0, data)})
  /\ UNCHANGED <<leaderVars, minerVars, lists, blocks, tdsCnt, jobs>>

(* The epoch is over: nobody starts a round any more, all blocks are in. *)
Finished ==
  /\ \A n \in Nodes : blocks[n] = Rounds
  /\ UNCHANGED vars

LeaderStep(r) ==
  TxListProcess(r) \/ CountVote(r) \/ EndCollect(r) \/ SignTDS(r) \/ TxNormalBlock(r)

Receive(msg) ==
  HandleTxDecLeader(msg) \/ HandleTxDecSetLeader(msg) \/ Drop(msg) \/ Pass(msg)

JobStep(job) ==
  \/ HandleTxList(job) \/ AcceptTDS(job) \/ SignalTDS(job) \/ GetTDS(job)
  \/ AcceptBlock(job) \/ AwaitTDS(job) \/ GetTxBlock(job) \/ PassOn(job)

Next ==
  \/ \E r \in Rounds : LeaderStep(r)
  \/ \E msg \in net : Receive(msg)
  \/ \E job \in jobs : JobStep(job)
  \/ \E m \in Miners, n \in Nodes, kind \in Items, r \in Rounds : Query(m, n, kind, r)
  \/ Finished

Spec == Init /\ [][Next]_vars

(* Goroutines are not starved, the leader's timer fires, a message that was *)
(* not lost arrives, and a miner that keeps asking random members asks the  *)
(* leader, and gets its answer, again and again.                            *)
Fairness ==
  /\ \A r \in Rounds : WF_vars(LeaderStep(r))
  /\ \A m \in Miners, r \in Rounds, kind \in Items :
       /\ SF_vars(Query(m, Leader, kind, r))
       /\ WF_vars(\E job \in jobs : /\ job.at = m /\ job.kind = kind /\ job.round = r
                                    /\ JobStep(job))
  /\ \A n \in Nodes, r \in Rounds, kind \in Items \cup {"TxDec"} :
       WF_vars(\E msg \in net : /\ msg.to = n /\ msg.kind = kind /\ msg.round = r
                                /\ Receive(msg))

FairSpec == Spec /\ Fairness

-----------------------------------------------------------------------------

Messages ==
  [kind : Items \cup {"TxDec"}, to : Nodes, round : Rounds,
   level : 0 .. GossipRound, data : SUBSET Miners]

Jobs ==
  [at : Miners, kind : Items, round : Rounds, level : 0 .. GossipRound,
   data : SUBSET Miners, id : 1 .. MaxHandlers,
   stage : {"check", "signal", "store", "await", "get", "pass"}]

(* Every variable has its type; channels and caches only hold rounds of the *)
(* epoch, where the code would index out of its arrays.                     *)
TypeOK ==
  /\ loop \in [Rounds -> {"idle", "collect", "closed", "done"}]
  /\ cnt \in [Rounds -> 1 .. ShardSize] /\ votes \in [Rounds -> Nat]
  /\ memD \in [Rounds -> SUBSET Miners]
  /\ signed \in [Rounds -> {None} \cup SUBSET Miners]
  /\ lists \in [Nodes -> SUBSET Rounds] /\ blocks \in [Nodes -> SUBSET Rounds]
  /\ tdsCheck \in [Miners -> SUBSET Rounds] /\ tbCheck \in [Miners -> SUBSET Rounds]
  /\ tds \in [Miners -> [Rounds -> {None} \cup SUBSET Miners]]
  /\ tdsCnt \in [Nodes -> Nat]
  /\ tdsChan \in [Miners -> SUBSET Rounds] /\ tbChan \in [Miners -> SUBSET Rounds]
  /\ \A job \in jobs : job \in Jobs
  /\ \A msg \in net : msg \in Messages

(* What a miner stores for a round in TDSCache, from gossip, from another   *)
(* miner or from the leader's answer, has every decision the leader signed, *)
(* and none that the leader never got (SignTDS, UpdateTXCache, GetTDS).     *)
SignedDecisionsKept ==
  \A m \in Miners, r \in Rounds : tds[m][r] # None =>
    signed[r] # None /\ signed[r] \subseteq tds[m][r] /\ tds[m][r] \subseteq memD[r]

(* A handler of the block of round r at miner m, at one of the stages. *)
BlockJob(m, r, stages) ==
  \E job \in jobs : /\ job.at = m /\ job.kind = "TxB" /\ job.round = r
                    /\ job.stage \in stages

TDSJob(m, r, stages) ==
  \E job \in jobs : /\ job.at = m /\ job.kind = "TxDecSetM" /\ job.round = r
                    /\ job.stage \in stages

(* The handlers of a miner hand each other every signal a block waits for,  *)
(* however many copies of a message are handled at once: a decision set     *)
(* that was signalled is in TDSChan until a block handler took it, which    *)
(* then stores the block; a stored block is in TBChan or about to be until  *)
(* the next block is stored; and a flag is only set with a handler at work  *)
(* or its result stored (HandleTxDecSet, HandleTxBlock).                    *)
NoLostSignal ==
  \A m \in Miners, r \in Rounds :
    /\ tds[m][r] # None \/ TDSJob(m, r, {"store"}) =>
         r \in tdsChan[m] \cup blocks[m] \/ BlockJob(m, r, {"get"})
    /\ r \in blocks[m] /\ r + 1 \in Rounds =>
         r \in tbChan[m] \/ r + 1 \in blocks[m] \/ BlockJob(m, r, {"pass"})
    /\ r \in tdsCheck[m] => tds[m][r] # None \/ TDSJob(m, r, {"signal", "store"})
    /\ r \in tbCheck[m] => r \in blocks[m] \/ BlockJob(m, r, {"await", "get"})

(* The rounds keep what OrderedCommit promises: a decision set and then a   *)
(* block per round, in order at the leader and at every miner, whatever     *)
(* order the messages and goroutines run in.                                *)
OC == INSTANCE OrderedCommit
        WITH decided <- {r \in Rounds : loop[r] = "done"},
             produced <- blocks[Leader],
             known <- tdsCheck,
             applied <- [m \in Miners |-> blocks[m]]

OrderedRounds == OC!OCSpec

(* Every miner ends up with the decision set and the block of every round,  *)
(* even if all the gossip is lost (HandleTxLoopMiner, MinerLoop).           *)
EpochCommits ==
  <>(\A m \in Miners, r \in Rounds : tds[m][r] # None /\ r \in blocks[m])
=============================================================================
