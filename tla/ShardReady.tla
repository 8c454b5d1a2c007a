----------------------------- MODULE ShardReady -----------------------------
(***************************************************************************)
(* The start of an epoch (ShardProtocol.go).  Every process computes the   *)
(* shards anew.  The leader of a shard announces the epoch to its miners,  *)
(* waits until all of them, or after some time two thirds, have answered,  *)
(* tells the other leaders, and waits for theirs to tell the same.  A      *)
(* process may be an epoch ahead of another one, so the messages of two    *)
(* epochs meet in the same channels.                                       *)
(***************************************************************************)
EXTENDS Integers, FiniteSets

CONSTANTS Nodes,      \* the members of all shards
          Shards,
          ShardSize,  \* members of a shard, its leader included
          Epochs,     \* epochs of the run; CurrentEpoch is -1 in the first
          Home,       \* Home[e][n]: the shard of n in epoch e
          Lead,       \* Lead[e][s]: ShardToGlobal[s][0] in epoch e
          Resends,    \* time-outs before two thirds are enough
          Lossy       \* members whose messages may be lost

Members(e, s) == {n \in Nodes : Home[e][n] = s}
Miners(e, s) == Members(e, s) \ {Lead[e][s]}
ShardCnt == Cardinality(Shards)

ASSUME SizeAssumption ==
  /\ IsFiniteSet(Nodes) /\ IsFiniteSet(Shards) /\ Shards # {}
  /\ ShardSize \in Nat \ {0} /\ Resends \in Nat /\ Epochs \in Nat \ {0}
  /\ Lossy \subseteq Nodes
ASSUME ShardingAssumption ==
  /\ Home \in [1..Epochs -> [Nodes -> Shards]]
  /\ Lead \in [1..Epochs -> [Shards -> Nodes]]
  /\ \A e \in 1..Epochs, s \in Shards :
       Home[e][Lead[e][s]] = s /\ Cardinality(Members(e, s)) = ShardSize

VARIABLES
  epoch,        \* CurrentEpoch
  pc,           \* where the process is
  membermask,   \* members whose answer the leader has
  readyMember,  \* answers it has counted, itself included
  cnt,          \* its time-outs, no more than matter
  timeoutflag,  \* FALSE once it has given up waiting
  leadermask,   \* shards it takes for ready
  net           \* messages under way or in a channel

leaderVars == <<membermask, readyMember, cnt, timeoutflag, leadermask>>
vars == <<epoch, pc, leaderVars, net>>

\* "begin": CurrentEpoch is the new one, the shards are the old ones;
\* "sharded": the leader has the new shards; "members", "leaders": its two
\* loops; "wait": the loop of a miner; "ready": ShardProcess is over.
Phases == {"begin", "sharded", "members", "leaders", "wait", "ready", "down"}

\* HandleShardReady puts both in readyMemberCh; ID is the sender.
MemberMsg == [kind : {"readyAnnoun", "shardReady"}, to : Nodes, ID : Nodes,
              epoch : 1..Epochs]

\* To leaders; ID is a shard.
LeaderMsg == [kind : {"leaderReady", "reqLeaReady"}, to : Nodes, ID : Shards,
              epoch : 1..Epochs]

Msg == MemberMsg \union LeaderMsg
ReadyInfo(k, to, id, e) == [kind |-> k, to |-> to, ID |-> id, epoch |-> e]

MyShard(n) == Home[epoch[n]][n]
IsLeader(n) == Lead[epoch[n]][MyShard(n)] = n

Init ==
  /\ epoch = [n \in Nodes |-> 1]
  /\ pc = [n \in Nodes |-> "begin"]
  /\ membermask = [n \in Nodes |-> {}]
  /\ readyMember = [n \in Nodes |-> 1]
  /\ cnt = [n \in Nodes |-> 0]
  /\ timeoutflag = [n \in Nodes |-> TRUE]
  /\ leadermask = [n \in Nodes |-> {}]
  /\ net = {}

\* What may arrive of the messages S that n sends: sendData dials once.
Arriving(n, S) == {T \in SUBSET S : \A m \in S \ T : n \in Lossy \/ m.to \in Lossy}

\* n takes the messages D and sends the messages S.
Exchange(n, D, S) ==
  /\ D \subseteq net
  /\ \E T \in Arriving(n, S) : net' = (net \ D) \union T

Goto(n, p) == pc' = [pc EXCEPT ![n] = p]

-----------------------------------------------------------------------------
\* SyncProcess: the next epoch has begun for n.
NextEpoch(n) ==
  /\ pc[n] = "ready"
  /\ epoch[n] < Epochs
  /\ epoch' = [epoch EXCEPT ![n] = @ + 1]
  /\ Goto(n, "begin")
  /\ UNCHANGED <<leaderVars, net>>

\* The shards are computed, the role is known.
ShardProcess(n) ==
  /\ pc[n] = "begin"
  /\ Goto(n, IF IsLeader(n) THEN "sharded" ELSE "wait")
  /\ UNCHANGED <<epoch, leaderVars, net>>

Announce(n, S) == {ReadyInfo("readyAnnoun", m, n, epoch[n]) : m \in S}

LeaderReadyProcess(n) ==
  /\ pc[n] = "sharded"
  /\ Goto(n, "members")
  /\ membermask' = [membermask EXCEPT ![n] = {}]
  /\ readyMember' = [readyMember EXCEPT ![n] = 1]
  /\ cnt' = [cnt EXCEPT ![n] = 0]
  /\ timeoutflag' = [timeoutflag EXCEPT ![n] = TRUE]
  /\ leadermask' = [leadermask EXCEPT ![n] = {}]
  /\ Exchange(n, {}, Announce(n, Miners(epoch[n], MyShard(n))))
  /\ UNCHANGED epoch

Enough(n) == readyMember[n] >= (ShardSize * 2) \div 3

WaitsForMembers(n) ==
  pc[n] = "members" /\ timeoutflag[n] /\ readyMember[n] < ShardSize

\* Mistake: an answer of any epoch is counted.
CurrentAny(n, e) == e \in 1..Epochs

\* The epoch a message must carry for n.
Current(n, e) == e = epoch[n]

\* Every answer is counted, whether its sender's bit is set or not.
CountMember(n, m) ==
  /\ WaitsForMembers(n)
  /\ m \in MemberMsg /\ m.to = n
  /\ Exchange(n, {m}, {})
  /\ IF Current(n, m.epoch)
       THEN /\ membermask' = [membermask EXCEPT ![n] = @ \union {m.ID}]
            /\ readyMember' = [readyMember EXCEPT ![n] = @ + 1]
       ELSE UNCHANGED <<membermask, readyMember>>
  /\ UNCHANGED <<epoch, pc, cnt, timeoutflag, leadermask>>

\* Mistake: the time-outs are not counted.
MembersTimeoutUncounted(n) ==
  /\ WaitsForMembers(n)
  /\ Exchange(n, {}, Announce(n, Miners(epoch[n], MyShard(n)) \ membermask[n]))
  /\ UNCHANGED <<epoch, pc, leaderVars>>

MembersTimeout(n) ==
  /\ WaitsForMembers(n)
  /\ Exchange(n, {}, Announce(n, Miners(epoch[n], MyShard(n)) \ membermask[n]))
  /\ cnt' = [cnt EXCEPT ![n] = IF @ > Resends THEN @ ELSE @ + 1]
  /\ timeoutflag' = [timeoutflag EXCEPT ![n] =
                       ~(cnt'[n] > Resends /\ Enough(n))]
  /\ UNCHANGED <<epoch, pc, membermask, readyMember, leadermask>>

TellLeaders(n) == {ReadyInfo("leaderReady", Lead[epoch[n]][s], MyShard(n), epoch[n]) :
                     s \in Shards \ {MyShard(n)}}

\* The loop is over: the other leaders are told.
MembersReady(n) ==
  /\ pc[n] = "members"
  /\ ~WaitsForMembers(n)
  /\ Goto(n, "leaders")
  /\ Exchange(n, {}, TellLeaders(n))
  /\ UNCHANGED <<epoch, leaderVars>>

WaitsForLeaders(n) ==
  /\ pc[n] = "leaders"
  /\ timeoutflag[n]
  /\ 1 + Cardinality(leadermask[n]) < ShardCnt

CountLeader(n, m) ==
  /\ WaitsForLeaders(n)
  /\ m.kind = "leaderReady" /\ m.to = n
  /\ Exchange(n, {m}, {})
  /\ leadermask' = [leadermask EXCEPT ![n] =
                      IF Current(n, m.epoch) THEN @ \union {m.ID} ELSE @]
  /\ UNCHANGED <<epoch, pc, membermask, readyMember, cnt, timeoutflag>>

LeadersTimeout(n) ==
  /\ WaitsForLeaders(n)
  /\ Exchange(n, {}, {ReadyInfo("reqLeaReady", Lead[epoch[n]][s], MyShard(n), epoch[n]) :
                        s \in Shards \ (leadermask[n] \union {MyShard(n)})})
  /\ UNCHANGED <<epoch, pc, leaderVars>>

\* "All shards are ready."
LeadersReady(n) ==
  /\ pc[n] = "leaders"
  /\ ~WaitsForLeaders(n)
  /\ Goto(n, "ready")
  /\ UNCHANGED <<epoch, leaderVars, net>>

\* FALSE only in the loop for the members: TRUE from the last epoch, or from
\* the start of the process, until the announcements are out.
SentLeaderReadyFlag(n) == pc[n] # "members"

\* The epoch whose tables the process holds: those of the last one until
\* ShardProcess has made them anew.
Table(n) == IF pc[n] = "begin" THEN epoch[n] - 1 ELSE epoch[n]

\* The answer goes to the leader of the asking shard and names the own shard,
\* both by the tables the process holds.
HandleRequestShardLeaderReady(n, m) ==
  /\ pc[n] # "down"
  /\ m.kind = "reqLeaReady" /\ m.to = n
  /\ IF SentLeaderReadyFlag(n) /\ m.epoch = epoch[n]
       THEN /\ Table(n) # 0
            /\ Exchange(n, {m}, {ReadyInfo("leaderReady", Lead[Table(n)][m.ID],
                                            Home[Table(n)][n], epoch[n])})
       ELSE Exchange(n, {m}, {})
  /\ UNCHANGED <<epoch, pc, leaderVars>>

\* Before the first ShardProcess, and while one makes the table, without the
\* lock, an index into it is out of range: the process ends.
PanicOnRequest(n, m) ==
  /\ pc[n] = "begin"
  /\ m.kind = "reqLeaReady" /\ m.to = n /\ m.epoch = epoch[n]
  /\ Exchange(n, {m}, {})
  /\ Goto(n, "down")
  /\ UNCHANGED <<epoch, leaderVars>>

\* Mistake: an announcement of any epoch will do.
AcceptsAny(n, m) == m.ID = Lead[epoch[n]][MyShard(n)]

Accepts(n, m) == m.epoch = epoch[n] /\ m.ID = Lead[epoch[n]][MyShard(n)]

\* Other messages are read and dropped.
MinerReadyProcess(n, m) ==
  /\ pc[n] = "wait"
  /\ m \in MemberMsg /\ m.to = n
  /\ IF Accepts(n, m)
       THEN /\ Exchange(n, {m}, {ReadyInfo("shardReady", Lead[epoch[n]][MyShard(n)], n, epoch[n])})
            /\ Goto(n, "ready")
       ELSE /\ Exchange(n, {m}, {})
            /\ UNCHANGED pc
  /\ UNCHANGED <<epoch, leaderVars>>

-----------------------------------------------------------------------------
Process(n) ==
  \/ NextEpoch(n)
  \/ ShardProcess(n)
  \/ LeaderReadyProcess(n)
  \/ MembersTimeout(n)
  \/ MembersReady(n)
  \/ LeadersTimeout(n)
  \/ LeadersReady(n)

Receive(n, m) ==
  \/ CountMember(n, m)
  \/ CountLeader(n, m)
  \/ MinerReadyProcess(n, m)
  \/ HandleRequestShardLeaderReady(n, m)
  \/ PanicOnRequest(n, m)

Next == \E n \in Nodes : Process(n) \/ \E m \in net : Receive(n, m)

Spec == Init /\ [][Next]_vars

Turn(n) == \/ ShardProcess(n) \/ LeaderReadyProcess(n)
           \/ MembersTimeout(n) \/ MembersReady(n)

\* The processes are scheduled, their time-outs come, and what is in a channel
\* is read; nothing is assumed of the links of the members in Lossy.
FairSpec ==
  /\ Spec
  /\ \A n \in Nodes :
       /\ WF_vars(Turn(n))
       /\ WF_vars(\E m \in net : CountMember(n, m) \/ MinerReadyProcess(n, m))

-----------------------------------------------------------------------------
(* Properties.                                                             *)

\* ShardProcess of epoch e is over for n.
Answered(n, e) == epoch[n] > e \/ (epoch[n] = e /\ pc[n] = "ready")

\* The leader n has announced epoch e.
Announced(n, e) == epoch[n] > e \/ (epoch[n] = e /\ pc[n] \in {"members", "leaders", "ready"})

\* Types of the state: counts within the shard, masks of members and of
\* shards, only messages of the protocol under way (ShardProtocol.go:91-110).
TypeOK ==
  /\ epoch \in [Nodes -> 1..Epochs]
  /\ pc \in [Nodes -> Phases]
  /\ membermask \in [Nodes -> SUBSET Nodes]
  /\ readyMember \in [Nodes -> 1..ShardSize]
  /\ cnt \in [Nodes -> 0..(Resends + 1)]
  /\ timeoutflag \in [Nodes -> BOOLEAN]
  /\ leadermask \in [Nodes -> SUBSET Shards]
  /\ net \subseteq Msg

\* A leader that goes on had answers of this epoch from all of its miners, or
\* with its own from two thirds of the shard when it gave up waiting: no
\* answer is counted twice, though the count does not look at the mask, and
\* none of the last epoch or of another shard (ShardProtocol.go:111-135).
QuorumReady ==
  \A n \in Nodes :
    IsLeader(n) /\ pc[n] \in {"leaders", "ready"} =>
      LET answered == {m \in Miners(epoch[n], MyShard(n)) : Answered(m, epoch[n])}
      IN  1 + Cardinality(answered) >= IF timeoutflag[n] THEN ShardSize
                                       ELSE (ShardSize * 2) \div 3

\* No process goes on in an epoch that its leader has not announced, though
\* announcements that were sent again and not read wait in its channel from
\* the epoch before, and its leader may have been another
\* (ShardProtocol.go:193-202).
MinerFollowsLeader ==
  \A n \in Nodes, e \in 1..Epochs :
    Answered(n, e) => Announced(Lead[e][Home[e][n]], e)

\* The leader does not wait for its miners for ever, while no more than a
\* third of the shard is out of reach (ShardProtocol.go:119-134).
MembersPhaseEnds == \A n \in Nodes : pc[n] = "members" ~> pc[n] # "members"
=============================================================================
