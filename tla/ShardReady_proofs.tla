-------------------------- MODULE ShardReady_proofs --------------------------
(***************************************************************************)
(* Proofs about the start of an epoch, for every number of shards and      *)
(* members, every assignment of members and leaders to shards in every     *)
(* epoch, and every set of members whose messages may be lost.             *)
(*                                                                         *)
(* After the types comes one inductive invariant, Inductive: a message     *)
(* tells how far its sender is in the message's epoch, and the leader's    *)
(* count is the number of miners whose answers of its epoch it has.        *)
(***************************************************************************)
EXTENDS ShardReady, FiniteSetTheorems, TLAPS

(***************************************************************************)
(* The constants, and what a step does to the messages under way.          *)
(***************************************************************************)

LEMMA HomeType ==
  ASSUME NEW e \in 1..Epochs, NEW n \in Nodes
  PROVE  Home[e][n] \in Shards
BY ShardingAssumption

LEMMA LeadHome ==
  ASSUME NEW e \in 1..Epochs, NEW s \in Shards
  PROVE  Lead[e][s] \in Nodes /\ Home[e][Lead[e][s]] = s
BY ShardingAssumption

LEMMA ExchangeNet ==
  ASSUME NEW n, NEW D, NEW S, Exchange(n, D, S)
  PROVE  D \subseteq net /\ net' \subseteq (net \ D) \union S
BY DEF Exchange, Arriving

LEMMA AnnounceType ==
  ASSUME epoch \in [Nodes -> 1..Epochs], NEW n \in Nodes, NEW S \in SUBSET Nodes
  PROVE  /\ Announce(n, S) \subseteq MemberMsg
         /\ \A m \in Announce(n, S) :
              m.kind = "readyAnnoun" /\ m.to \in S /\ m.ID = n /\ m.epoch = epoch[n]
BY DEF Announce, ReadyInfo, MemberMsg

LEMMA LeaderInfoType ==
  ASSUME NEW k \in {"leaderReady", "reqLeaReady"}, NEW to \in Nodes,
         NEW s \in Shards, NEW e \in 1..Epochs
  PROVE  ReadyInfo(k, to, s, e) \in LeaderMsg
BY DEF ReadyInfo, LeaderMsg

LEMMA MembersType ==
  ASSUME NEW e \in 1..Epochs, NEW s \in Shards
  PROVE  /\ Miners(e, s) \in SUBSET Nodes /\ IsFiniteSet(Miners(e, s))
         /\ ShardSize >= 1 /\ ShardSize \in Nat
BY SizeAssumption, FS_Subset DEF Miners, Members

(***************************************************************************)
(* Types.                                                                  *)
(***************************************************************************)

LEMMA TypeInit == Init => TypeOK
<1> SUFFICES ASSUME Init PROVE TypeOK
  OBVIOUS
<1>1. 1 \in 1..Epochs /\ 1 \in 1..ShardSize /\ 0 \in 0..(Resends + 1)
  BY SizeAssumption
<1> QED  BY <1>1 DEF Init, TypeOK, Phases

(* The messages of a step are of the protocol. *)
LEMMA NetType ==
  ASSUME TypeOK, NEW n, NEW D, NEW S, Exchange(n, D, S), S \subseteq Msg
  PROVE  net' \subseteq Msg
BY ExchangeNet DEF TypeOK

LEMMA TypeNext == TypeOK /\ [Next]_vars => TypeOK'
<1> SUFFICES ASSUME TypeOK, [Next]_vars PROVE TypeOK'
  OBVIOUS
<1>0. ShardSize \in Nat \ {0} /\ Resends \in Nat /\ Epochs \in Nat \ {0}
  BY SizeAssumption
<1>1. ASSUME NEW n \in Nodes PROVE MyShard(n) \in Shards /\ epoch[n] \in 1..Epochs
  BY HomeType DEF TypeOK, MyShard
<1>2. ASSUME NEW n \in Nodes, NextEpoch(n) PROVE TypeOK'
  <2>1. epoch[n] + 1 \in 1..Epochs
    BY <1>0, <1>1, <1>2 DEF NextEpoch
  <2> QED  BY <1>2, <2>1 DEF NextEpoch, TypeOK, Goto, Phases, leaderVars
<1>3. ASSUME NEW n \in Nodes, ShardProcess(n) PROVE TypeOK'
  BY <1>3 DEF ShardProcess, TypeOK, Goto, Phases, leaderVars
<1>4. ASSUME NEW n \in Nodes, LeaderReadyProcess(n) PROVE TypeOK'
  <2>1. Miners(epoch[n], MyShard(n)) \in SUBSET Nodes
    BY <1>1, MembersType
  <2>2. Announce(n, Miners(epoch[n], MyShard(n))) \subseteq Msg
    BY <2>1, AnnounceType DEF TypeOK, Msg
  <2>3. net' \subseteq Msg
    BY <1>4, <2>2, NetType DEF LeaderReadyProcess
  <2>4. 1 \in 1..ShardSize /\ 0 \in 0..(Resends + 1)
    BY <1>0
  <2> QED  BY <1>4, <2>3, <2>4 DEF LeaderReadyProcess, TypeOK, Goto, Phases
<1>5. ASSUME NEW n \in Nodes, MembersTimeout(n) PROVE TypeOK'
  <2>1. Miners(epoch[n], MyShard(n)) \ membermask[n] \in SUBSET Nodes
    BY <1>1, MembersType
  <2>2. Announce(n, Miners(epoch[n], MyShard(n)) \ membermask[n]) \subseteq Msg
    BY <2>1, AnnounceType DEF TypeOK, Msg
  <2>3. net' \subseteq Msg
    BY <1>5, <2>2, NetType DEF MembersTimeout
  <2>4. cnt' \in [Nodes -> 0..(Resends + 1)]
    BY <1>0, <1>5 DEF MembersTimeout, TypeOK
  <2>5. timeoutflag' \in [Nodes -> BOOLEAN]
    BY <1>5 DEF MembersTimeout, TypeOK
  <2> QED  BY <1>5, <2>3, <2>4, <2>5 DEF MembersTimeout, TypeOK
<1>6. ASSUME NEW n \in Nodes, MembersReady(n) PROVE TypeOK'
  <2>1. TellLeaders(n) \subseteq Msg
    BY <1>1, LeadHome, LeaderInfoType DEF TellLeaders, Msg
  <2>2. net' \subseteq Msg
    BY <1>6, <2>1, NetType DEF MembersReady
  <2> QED  BY <1>6, <2>2 DEF MembersReady, TypeOK, Goto, Phases, leaderVars
<1>7. ASSUME NEW n \in Nodes, LeadersTimeout(n) PROVE TypeOK'
  <2>1. {ReadyInfo("reqLeaReady", Lead[epoch[n]][s], MyShard(n), epoch[n]) :
            s \in Shards \ (leadermask[n] \union {MyShard(n)})} \subseteq Msg
    BY <1>1, LeadHome, LeaderInfoType DEF Msg
  <2>2. net' \subseteq Msg
    BY <1>7, <2>1, NetType DEF LeadersTimeout
  <2> QED  BY <1>7, <2>2 DEF LeadersTimeout, TypeOK, leaderVars
<1>8. ASSUME NEW n \in Nodes, LeadersReady(n) PROVE TypeOK'
  BY <1>8 DEF LeadersReady, TypeOK, Goto, Phases, leaderVars
<1>9. ASSUME NEW n \in Nodes, NEW m \in net, CountMember(n, m) PROVE TypeOK'
  <2>1. net' \subseteq Msg
    BY <1>9, NetType DEF CountMember
  <2>2. readyMember' \in [Nodes -> 1..ShardSize]
    BY <1>0, <1>9 DEF CountMember, WaitsForMembers, TypeOK
  <2>3. membermask' \in [Nodes -> SUBSET Nodes]
    BY <1>9 DEF CountMember, TypeOK, MemberMsg
  <2> QED  BY <1>9, <2>1, <2>2, <2>3 DEF CountMember, TypeOK
<1>10. ASSUME NEW n \in Nodes, NEW m \in net, CountLeader(n, m) PROVE TypeOK'
  <2>1. net' \subseteq Msg
    BY <1>10, NetType DEF CountLeader
  <2>2. m.ID \in Shards
    BY <1>10 DEF CountLeader, TypeOK, Msg, MemberMsg, LeaderMsg
  <2> QED  BY <1>10, <2>1, <2>2 DEF CountLeader, TypeOK
<1>11. ASSUME NEW n \in Nodes, NEW m \in net, MinerReadyProcess(n, m) PROVE TypeOK'
  <2>1. {ReadyInfo("shardReady", Lead[epoch[n]][MyShard(n)], n, epoch[n])} \subseteq Msg
    BY <1>1, LeadHome DEF ReadyInfo, Msg, MemberMsg
  <2>2. net' \subseteq Msg
    BY <1>11, <2>1, NetType DEF MinerReadyProcess
  <2> QED  BY <1>11, <2>2 DEF MinerReadyProcess, TypeOK, Goto, Phases, leaderVars
<1>12. ASSUME NEW n \in Nodes, NEW m \in net, HandleRequestShardLeaderReady(n, m)
       PROVE  TypeOK'
  <2>1. CASE SentLeaderReadyFlag(n) /\ m.epoch = epoch[n]
    <3>1. m.ID \in Shards
      BY <1>12 DEF HandleRequestShardLeaderReady, TypeOK, Msg, MemberMsg, LeaderMsg
    <3>2. Table(n) \in 1..Epochs
      BY <1>0, <1>1, <1>12, <2>1 DEF HandleRequestShardLeaderReady, Table
    <3>3. {ReadyInfo("leaderReady", Lead[Table(n)][m.ID], Home[Table(n)][n], epoch[n])}
            \subseteq Msg
      BY <1>1, <3>1, <3>2, HomeType, LeadHome, LeaderInfoType DEF Msg
    <3>4. net' \subseteq Msg
      BY <1>12, <2>1, <3>3, NetType DEF HandleRequestShardLeaderReady
    <3> QED  BY <1>12, <3>4 DEF HandleRequestShardLeaderReady, TypeOK, leaderVars
  <2>2. CASE ~(SentLeaderReadyFlag(n) /\ m.epoch = epoch[n])
    <3>1. net' \subseteq Msg
      BY <1>12, <2>2, NetType DEF HandleRequestShardLeaderReady
    <3> QED  BY <1>12, <3>1 DEF HandleRequestShardLeaderReady, TypeOK, leaderVars
  <2> QED  BY <2>1, <2>2
<1>13. ASSUME NEW n \in Nodes, NEW m \in net, PanicOnRequest(n, m) PROVE TypeOK'
  <2>1. net' \subseteq Msg
    BY <1>13, NetType DEF PanicOnRequest
  <2> QED  BY <1>13, <2>1 DEF PanicOnRequest, TypeOK, Goto, Phases, leaderVars
<1>14. CASE UNCHANGED vars
  BY <1>14 DEF vars, leaderVars, TypeOK
<1> QED
  BY <1>2, <1>3, <1>4, <1>5, <1>6, <1>7, <1>8, <1>9, <1>10, <1>11, <1>12, <1>13, <1>14
  DEF Next, Process, Receive

\* The tables of every process keep their types: a leader never counts more
\* answers than the shard has members (ShardProtocol.go:111-118).
THEOREM TypeCorrect == Spec => []TypeOK
<1> QED  BY TypeInit, TypeNext, PTL DEF Spec

(***************************************************************************)
(* The inductive invariant.                                                *)
(***************************************************************************)

(* Only a leader is in the loops of a leader, only a miner in a miner's. *)
Roles ==
  \A n \in Nodes :
    /\ pc[n] \in {"sharded", "members", "leaders"} => IsLeader(n)
    /\ pc[n] = "wait" => ~IsLeader(n)

(* An announcement comes from the leader, which has begun that epoch. *)
Announcements ==
  \A m \in net : m.kind = "readyAnnoun" =>
    /\ m.ID = Lead[m.epoch][Home[m.epoch][m.to]] /\ m.to # m.ID
    /\ Announced(m.ID, m.epoch)

(* An answer comes from a miner that is through, and has not been counted. *)
Answers ==
  \A m \in net : m.kind = "shardReady" =>
    /\ m.to = Lead[m.epoch][Home[m.epoch][m.ID]] /\ m.to # m.ID
    /\ Answered(m.ID, m.epoch)
    /\ epoch[m.to] = m.epoch /\ pc[m.to] \in {"members", "leaders", "ready"} =>
         m.ID \notin membermask[m.to]

(* A leader in its loops or past them. *)
Leading(n) == IsLeader(n) /\ pc[n] \in {"members", "leaders", "ready"}

(* It has one answer of each miner of its mask. *)
CountedBy(n) ==
  /\ readyMember[n] = 1 + Cardinality(membermask[n])
  /\ \A x \in membermask[n] :
       x \in Miners(epoch[n], MyShard(n)) /\ Answered(x, epoch[n])

Counted == \A n \in Nodes : Leading(n) => CountedBy(n)

(* It gives up waiting, or goes on, only with enough of them. *)
PatientOne(n) ==
  /\ ~timeoutflag[n] => Enough(n)
  /\ pc[n] # "members" /\ timeoutflag[n] => readyMember[n] >= ShardSize

Patient == \A n \in Nodes : Leading(n) => PatientOne(n)

Inductive ==
  /\ TypeOK
  /\ Roles
  /\ Announcements
  /\ Answers
  /\ Counted
  /\ Patient
  /\ MinerFollowsLeader

LEMMA InductiveInit == Init => Inductive
<1> SUFFICES ASSUME Init PROVE Inductive
  OBVIOUS
<1>1. TypeOK
  BY TypeInit
<1>2. Roles /\ Announcements /\ Answers /\ Counted /\ Patient
  BY DEF Init, Roles, Announcements, Answers, Counted, Patient, Leading
<1>3. MinerFollowsLeader
  BY SizeAssumption DEF Init, MinerFollowsLeader, Answered
<1> QED  BY <1>1, <1>2, <1>3 DEF Inductive

(* How a step may move a process. *)
Stays(n) == epoch'[n] = epoch[n] /\ pc'[n] = pc[n]
GoesOn(n) ==
  \/ pc[n] = "ready" /\ epoch'[n] = epoch[n] + 1 /\ pc'[n] = "begin"
  \/ /\ epoch'[n] = epoch[n]
     /\ \/ pc[n] \in {"begin", "sharded", "wait"}
        \/ pc[n] \in {"members", "leaders"} /\ pc'[n] \in {"leaders", "ready"}

LEMMA Moves ==
  ASSUME TypeOK, [Next]_vars, NEW n \in Nodes
  PROVE  Stays(n) \/ GoesOn(n)
<1> USE DEF Stays, GoesOn, Goto, TypeOK
<1>1. ASSUME NEW p \in Nodes, Process(p) PROVE Stays(n) \/ GoesOn(n)
  <2>1. CASE NextEpoch(p)
    BY <2>1 DEF NextEpoch
  <2>2. CASE ShardProcess(p)
    BY <2>2 DEF ShardProcess
  <2>3. CASE LeaderReadyProcess(p)
    BY <2>3 DEF LeaderReadyProcess
  <2>4. CASE MembersTimeout(p) \/ LeadersTimeout(p)
    BY <2>4 DEF MembersTimeout, LeadersTimeout
  <2>5. CASE MembersReady(p) \/ LeadersReady(p)
    BY <2>5 DEF MembersReady, LeadersReady
  <2> QED  BY <1>1, <2>1, <2>2, <2>3, <2>4, <2>5 DEF Process
<1>2. ASSUME NEW p \in Nodes, NEW m \in net, Receive(p, m)
      PROVE  Stays(n) \/ GoesOn(n)
  <2>1. CASE CountMember(p, m) \/ CountLeader(p, m)
    BY <2>1 DEF CountMember, CountLeader
  <2>2. CASE MinerReadyProcess(p, m)
    BY <2>2 DEF MinerReadyProcess
  <2>3. CASE HandleRequestShardLeaderReady(p, m)
    BY <2>3 DEF HandleRequestShardLeaderReady
  <2>4. CASE PanicOnRequest(p, m)
    BY <2>4 DEF PanicOnRequest
  <2> QED  BY <1>2, <2>1, <2>2, <2>3, <2>4 DEF Receive
<1>3. CASE UNCHANGED vars
  BY <1>3 DEF vars
<1> QED  BY <1>1, <1>2, <1>3 DEF Next

(* No process goes back. *)
LEMMA Onward ==
  ASSUME TypeOK, [Next]_vars, NEW n \in Nodes, NEW e \in 1..Epochs
  PROVE  /\ Answered(n, e) => Answered(n, e)'
         /\ Announced(n, e) => Announced(n, e)'
<1>1. epoch[n] \in Int /\ e \in Int
  BY SizeAssumption DEF TypeOK
<1> QED  BY <1>1, Moves DEF Stays, GoesOn, Answered, Announced

(***************************************************************************)
(* What a step keeps of each part of the invariant.                        *)
(***************************************************************************)

(* The messages of the loops for the members. *)
LEMMA MemberMessage ==
  ASSUME TypeOK, NEW m \in net, m.kind \in {"readyAnnoun", "shardReady"}
  PROVE  m \in MemberMsg /\ m.to \in Nodes /\ m.ID \in Nodes /\ m.epoch \in 1..Epochs
BY DEF TypeOK, Msg, MemberMsg, LeaderMsg

(* Announcements once made stay true; S are those of the step. *)
LEMMA AnnouncementsKept ==
  ASSUME TypeOK, Announcements, [Next]_vars,
         NEW S, net' \subseteq net \union S,
         \A m \in S : m.kind = "readyAnnoun" =>
           /\ m.ID = Lead[m.epoch][Home[m.epoch][m.to]] /\ m.to # m.ID
           /\ Announced(m.ID, m.epoch)'
  PROVE  Announcements'
<1>1. ASSUME NEW m \in net, m.kind = "readyAnnoun"
      PROVE  /\ m.ID = Lead[m.epoch][Home[m.epoch][m.to]] /\ m.to # m.ID
             /\ Announced(m.ID, m.epoch)'
  BY <1>1, MemberMessage, Onward DEF Announcements
<1> QED  BY <1>1 DEF Announcements

LEMMA AnnouncementsStay ==
  ASSUME TypeOK, Announcements, [Next]_vars, net' \subseteq net
  PROVE  Announcements'
<1> DEFINE S == {}
<1>1. net' \subseteq net \union S /\ \A m \in S : FALSE
  OBVIOUS
<1> HIDE DEF S
<1> QED  BY <1>1, AnnouncementsKept

(* What Answers says of one message. *)
AnswerOK(m) ==
  /\ m.to = Lead[m.epoch][Home[m.epoch][m.ID]] /\ m.to # m.ID
  /\ Answered(m.ID, m.epoch)
  /\ epoch[m.to] = m.epoch /\ pc[m.to] \in {"members", "leaders", "ready"} =>
       m.ID \notin membermask[m.to]

(* An answer under way stays as it is unless its leader's mask changes. *)
LEMMA AnswerKept ==
  ASSUME TypeOK, Answers, [Next]_vars, NEW m \in net, m.kind = "shardReady",
         \/ membermask'[m.to] = {}
         \/ /\ membermask'[m.to] = membermask[m.to]
            /\ Stays(m.to) \/ pc[m.to] \in {"members", "leaders"}
                           \/ pc'[m.to] \notin {"members", "leaders", "ready"}
                           \/ ~IsLeader(m.to)
  PROVE  AnswerOK(m)'
<1>1. /\ m.to \in Nodes /\ m.ID \in Nodes /\ m.epoch \in 1..Epochs
      /\ m.to = Lead[m.epoch][Home[m.epoch][m.ID]] /\ m.to # m.ID
      /\ Answered(m.ID, m.epoch)'
  BY MemberMessage, Onward DEF Answers
<1>2. m.to = Lead[m.epoch][Home[m.epoch][m.to]]
  BY <1>1, HomeType, LeadHome
<1>3. epoch'[m.to] = m.epoch /\ pc'[m.to] \in {"members", "leaders", "ready"} =>
        m.ID \notin membermask'[m.to]
  BY <1>1, <1>2, Moves DEF Answers, Stays, GoesOn, IsLeader, MyShard
<1> QED  BY <1>1, <1>3 DEF AnswerOK

(* The count of a leader that keeps its mask and its count stays right. *)
LEMMA CountKept ==
  ASSUME TypeOK, [Next]_vars, NEW n \in Nodes, CountedBy(n),
         epoch'[n] = epoch[n], membermask'[n] = membermask[n],
         readyMember'[n] = readyMember[n]
  PROVE  CountedBy(n)'
<1>1. epoch[n] \in 1..Epochs /\ MyShard(n) \in Shards /\ MyShard(n)' = MyShard(n)
  BY HomeType DEF TypeOK, MyShard
<1>2. ASSUME NEW x \in membermask[n]
      PROVE  x \in Miners(epoch[n], MyShard(n)) /\ Answered(x, epoch[n])'
  BY <1>1, <1>2, MembersType, Onward DEF CountedBy
<1> QED  BY <1>1, <1>2 DEF CountedBy

(* A process that has answered for an epoch of which its leader's           *)
(* announcement is out, and one that had answered before the step.          *)
LEMMA FollowsKept ==
  ASSUME TypeOK, MinerFollowsLeader, [Next]_vars,
         \A n \in Nodes : pc'[n] = "ready" =>
           \/ Stays(n)
           \/ Announced(Lead[epoch[n]][MyShard(n)], epoch[n]) /\ epoch'[n] = epoch[n]
  PROVE  MinerFollowsLeader'
<1> SUFFICES ASSUME NEW n \in Nodes, NEW e \in 1..Epochs, Answered(n, e)'
             PROVE  Announced(Lead[e][Home[e][n]], e)'
  BY DEF MinerFollowsLeader
<1>1. Lead[e][Home[e][n]] \in Nodes /\ e \in Int /\ epoch[n] \in Int
  BY HomeType, LeadHome, SizeAssumption DEF TypeOK
<1>2. Answered(n, e) \/ Announced(Lead[e][Home[e][n]], e)
  <2>1. CASE Stays(n)
    BY <2>1 DEF Stays, Answered
  <2>2. CASE GoesOn(n)
    BY <1>1, <2>2 DEF Stays, GoesOn, Answered, MyShard
  <2> QED  BY <2>1, <2>2, Moves
<1>3. Announced(Lead[e][Home[e][n]], e)
  BY <1>2 DEF MinerFollowsLeader
<1> QED  BY <1>1, <1>3, Onward

(* A step that leaves the processes where they are and sends no announcement  *)
(* and no answer.                                                             *)
LEMMA Quiet ==
  ASSUME Inductive, [Next]_vars, net' \subseteq net \union LeaderMsg,
         UNCHANGED <<epoch, pc, membermask, readyMember, timeoutflag>>
  PROVE  Inductive'
<1> USE DEF Inductive
<1>1. TypeOK'
  BY TypeNext
<1>2. Roles'
  BY DEF Roles, IsLeader, MyShard
<1>3. Announcements'
  <2>1. \A m \in LeaderMsg : m.kind # "readyAnnoun"
    BY DEF LeaderMsg
  <2> QED  BY <2>1, AnnouncementsKept
<1>4. Answers'
  <2>1. ASSUME NEW m \in net, m.kind = "shardReady" PROVE AnswerOK(m)'
    BY <2>1, AnswerKept DEF Stays
  <2> QED  BY <2>1 DEF Answers, AnswerOK, LeaderMsg
<1>5. Counted'
  BY CountKept DEF Counted, Leading, IsLeader, MyShard
<1>6. Patient'
  BY DEF Patient, PatientOne, Leading, IsLeader, MyShard, Enough
<1>7. MinerFollowsLeader'
  BY FollowsKept DEF Stays
<1> QED  BY <1>1, <1>2, <1>3, <1>4, <1>5, <1>6, <1>7

(***************************************************************************)
(* The steps.                                                              *)
(***************************************************************************)

LEMMA NextEpochKeeps ==
  ASSUME Inductive, [Next]_vars, NEW n \in Nodes, NextEpoch(n)
  PROVE  Inductive'
<1> USE DEF Inductive
<1>0. /\ pc' = [pc EXCEPT ![n] = "begin"] /\ epoch' = [epoch EXCEPT ![n] = @ + 1]
      /\ net' = net /\ pc[n] = "ready"
      /\ UNCHANGED <<membermask, readyMember, timeoutflag>>
  BY DEF NextEpoch, Goto, leaderVars
<1>1. TypeOK'
  BY TypeNext
<1>2. Roles'
  BY <1>0 DEF Roles, IsLeader, MyShard, TypeOK
<1>3. Announcements'
  BY <1>0, AnnouncementsStay
<1>4. Answers'
  <2>1. ASSUME NEW m \in net, m.kind = "shardReady" PROVE AnswerOK(m)'
    BY <1>0, <2>1, AnswerKept, MemberMessage DEF Stays, TypeOK
  <2> QED  BY <1>0, <2>1 DEF Answers, AnswerOK
<1>5. Counted'
  BY <1>0, CountKept DEF Counted, Leading, IsLeader, MyShard, TypeOK
<1>6. Patient'
  BY <1>0 DEF Patient, PatientOne, Leading, IsLeader, MyShard, Enough, TypeOK
<1>7. MinerFollowsLeader'
  BY <1>0, FollowsKept DEF Stays, TypeOK
<1> QED  BY <1>1, <1>2, <1>3, <1>4, <1>5, <1>6, <1>7

LEMMA ShardProcessKeeps ==
  ASSUME Inductive, [Next]_vars, NEW n \in Nodes, ShardProcess(n)
  PROVE  Inductive'
<1> USE DEF Inductive
<1>0. /\ pc' = [pc EXCEPT ![n] = IF IsLeader(n) THEN "sharded" ELSE "wait"]
      /\ net' = net /\ UNCHANGED <<epoch, membermask, readyMember, timeoutflag>>
  BY DEF ShardProcess, Goto, leaderVars
<1>1. TypeOK'
  BY TypeNext
<1>2. Roles'
  BY <1>0 DEF Roles, IsLeader, MyShard, TypeOK
<1>3. Announcements'
  BY <1>0, AnnouncementsStay
<1>4. Answers'
  <2>1. ASSUME NEW m \in net, m.kind = "shardReady" PROVE AnswerOK(m)'
    BY <1>0, <2>1, AnswerKept, MemberMessage DEF Stays, TypeOK
  <2> QED  BY <1>0, <2>1 DEF Answers, AnswerOK
<1>5. Counted'
  BY <1>0, CountKept DEF Counted, Leading, IsLeader, MyShard, TypeOK
<1>6. Patient'
  BY <1>0 DEF Patient, PatientOne, Leading, IsLeader, MyShard, Enough, TypeOK
<1>7. MinerFollowsLeader'
  BY <1>0, FollowsKept DEF Stays, TypeOK
<1> QED  BY <1>1, <1>2, <1>3, <1>4, <1>5, <1>6, <1>7

(* The announcements of a leader in its loop for the members. *)
LEMMA AnnounceOK ==
  ASSUME TypeOK, TypeOK', NEW n \in Nodes, IsLeader(n), epoch' = epoch,
         pc'[n] = "members", NEW S \in SUBSET Miners(epoch[n], MyShard(n))
  PROVE  /\ \A m \in Announce(n, S) : m.kind = "readyAnnoun" =>
              /\ m.ID = Lead[m.epoch][Home[m.epoch][m.to]] /\ m.to # m.ID
              /\ Announced(m.ID, m.epoch)'
         /\ \A m \in Announce(n, S) : m.kind # "shardReady"
<1>1. epoch[n] \in 1..Epochs /\ MyShard(n) \in Shards
  BY HomeType DEF TypeOK, MyShard
<1>2. S \in SUBSET Nodes
  BY <1>1, MembersType
<1>3. ASSUME NEW m \in Announce(n, S)
      PROVE  /\ m.kind = "readyAnnoun" /\ m.to \in S
             /\ m.ID = n /\ m.epoch = epoch[n]
  BY <1>2, <1>3, AnnounceType DEF TypeOK
<1>4. ASSUME NEW x \in S
      PROVE  n = Lead[epoch[n]][Home[epoch[n]][x]] /\ x # n
  BY <1>4 DEF Miners, Members, IsLeader
<1>5. Announced(n, epoch[n])'
  BY DEF Announced
<1>6. ASSUME NEW m \in Announce(n, S)
      PROVE  /\ m.ID = Lead[m.epoch][Home[m.epoch][m.to]] /\ m.to # m.ID
             /\ Announced(m.ID, m.epoch)'
  BY <1>3, <1>4, <1>5
<1> QED  BY <1>3, <1>6

LEMMA LeaderReadyProcessKeeps ==
  ASSUME Inductive, [Next]_vars, NEW n \in Nodes, LeaderReadyProcess(n)
  PROVE  Inductive'
<1> USE DEF Inductive
<1> DEFINE S == Announce(n, Miners(epoch[n], MyShard(n)))
<1>0. /\ pc' = [pc EXCEPT ![n] = "members"] /\ pc[n] = "sharded"
      /\ membermask' = [membermask EXCEPT ![n] = {}]
      /\ readyMember' = [readyMember EXCEPT ![n] = 1]
      /\ timeoutflag' = [timeoutflag EXCEPT ![n] = TRUE]
      /\ epoch' = epoch
  BY DEF LeaderReadyProcess, Goto
<1>00. net' \subseteq net \union S
  BY ExchangeNet DEF LeaderReadyProcess
<1>1. TypeOK'
  BY TypeNext
<1>2. IsLeader(n) /\ pc'[n] = "members"
  BY <1>0 DEF Roles, TypeOK
<1>3. Roles'
  BY <1>0, <1>2 DEF Roles, IsLeader, MyShard, TypeOK
<1>4. /\ \A m \in S : m.kind = "readyAnnoun" =>
           /\ m.ID = Lead[m.epoch][Home[m.epoch][m.to]] /\ m.to # m.ID
           /\ Announced(m.ID, m.epoch)'
      /\ \A m \in S : m.kind # "shardReady"
  BY <1>0, <1>1, <1>2, AnnounceOK
<1> HIDE DEF S
<1>5. Announcements'
  BY <1>00, <1>4, AnnouncementsKept
<1>6. Answers'
  <2>1. ASSUME NEW m \in net, m.kind = "shardReady" PROVE AnswerOK(m)'
    BY <1>0, <2>1, AnswerKept, MemberMessage DEF Stays, TypeOK
  <2> QED  BY <1>00, <1>4, <2>1 DEF Answers, AnswerOK
<1>7. Counted'
  <2>1. CountedBy(n)'
    <3>1. readyMember'[n] = 1 /\ membermask'[n] = {}
      BY <1>0 DEF TypeOK
    <3> QED  BY <3>1, FS_EmptySet DEF CountedBy
  <2> QED  BY <1>0, <2>1, CountKept DEF Counted, Leading, IsLeader, MyShard, TypeOK
<1>8. Patient'
  BY <1>0 DEF Patient, PatientOne, Leading, IsLeader, MyShard, Enough, TypeOK
<1>9. MinerFollowsLeader'
  BY <1>0, FollowsKept DEF Stays, TypeOK
<1> QED  BY <1>1, <1>3, <1>5, <1>6, <1>7, <1>8, <1>9

LEMMA MembersTimeoutKeeps ==
  ASSUME Inductive, [Next]_vars, NEW n \in Nodes, MembersTimeout(n)
  PROVE  Inductive'
<1> USE DEF Inductive
<1> DEFINE S == Announce(n, Miners(epoch[n], MyShard(n)) \ membermask[n])
<1>0. /\ UNCHANGED <<epoch, pc, membermask, readyMember>> /\ pc[n] = "members"
      /\ \A p \in Nodes \ {n} : timeoutflag'[p] = timeoutflag[p]
      /\ ~timeoutflag'[n] => Enough(n)
  BY DEF MembersTimeout, WaitsForMembers, TypeOK
<1>00. net' \subseteq net \union S
  BY ExchangeNet DEF MembersTimeout
<1>1. TypeOK'
  BY TypeNext
<1>2. IsLeader(n) /\ pc'[n] = "members"
  BY <1>0 DEF Roles, TypeOK
<1>3. Roles'
  BY <1>0 DEF Roles, IsLeader, MyShard
<1>4. /\ \A m \in S : m.kind = "readyAnnoun" =>
           /\ m.ID = Lead[m.epoch][Home[m.epoch][m.to]] /\ m.to # m.ID
           /\ Announced(m.ID, m.epoch)'
      /\ \A m \in S : m.kind # "shardReady"
  BY <1>0, <1>1, <1>2, AnnounceOK
<1> HIDE DEF S
<1>5. Announcements'
  BY <1>00, <1>4, AnnouncementsKept
<1>6. Answers'
  <2>1. ASSUME NEW m \in net, m.kind = "shardReady" PROVE AnswerOK(m)'
    BY <1>0, <2>1, AnswerKept DEF Stays
  <2> QED  BY <1>00, <1>4, <2>1 DEF Answers, AnswerOK
<1>7. Counted'
  BY <1>0, CountKept DEF Counted, Leading, IsLeader, MyShard
<1>8. Patient'
  BY <1>0 DEF Patient, PatientOne, Leading, IsLeader, MyShard, Enough
<1>9. MinerFollowsLeader'
  BY <1>0, FollowsKept DEF Stays
<1> QED  BY <1>1, <1>3, <1>5, <1>6, <1>7, <1>8, <1>9

LEMMA MembersReadyKeeps ==
  ASSUME Inductive, [Next]_vars, NEW n \in Nodes, MembersReady(n)
  PROVE  Inductive'
<1> USE DEF Inductive
<1>0. /\ UNCHANGED <<epoch, membermask, readyMember, timeoutflag>>
      /\ pc' = [pc EXCEPT ![n] = "leaders"] /\ pc[n] = "members"
      /\ timeoutflag[n] => readyMember[n] >= ShardSize
  BY SizeAssumption DEF MembersReady, WaitsForMembers, Goto, leaderVars, TypeOK
<1>00. net' \subseteq net \union TellLeaders(n)
  BY ExchangeNet DEF MembersReady
<1>1. TypeOK'
  BY TypeNext
<1>2. Roles'
  BY <1>0 DEF Roles, IsLeader, MyShard, TypeOK
<1>3. \A m \in TellLeaders(n) : m.kind = "leaderReady"
  BY DEF TellLeaders, ReadyInfo
<1>4. Announcements'
  BY <1>00, <1>3, AnnouncementsKept
<1>5. Answers'
  <2>1. ASSUME NEW m \in net, m.kind = "shardReady" PROVE AnswerOK(m)'
    BY <1>0, <2>1, AnswerKept, MemberMessage DEF Stays, TypeOK
  <2> QED  BY <1>00, <1>3, <2>1 DEF Answers, AnswerOK
<1>6. Counted'
  BY <1>0, CountKept DEF Counted, Leading, IsLeader, MyShard, TypeOK
<1>7. Patient'
  BY <1>0 DEF Patient, PatientOne, Leading, IsLeader, MyShard, Enough, TypeOK
<1>8. MinerFollowsLeader'
  BY <1>0, FollowsKept DEF Stays, TypeOK
<1> QED  BY <1>1, <1>2, <1>4, <1>5, <1>6, <1>7, <1>8

LEMMA LeadersReadyKeeps ==
  ASSUME Inductive, [Next]_vars, NEW n \in Nodes, LeadersReady(n)
  PROVE  Inductive'
<1> USE DEF Inductive
<1>0. /\ UNCHANGED <<epoch, membermask, readyMember, timeoutflag, net>>
      /\ pc' = [pc EXCEPT ![n] = "ready"] /\ pc[n] = "leaders"
  BY DEF LeadersReady, Goto, leaderVars
<1>1. TypeOK'
  BY TypeNext
<1>2. Roles'
  BY <1>0 DEF Roles, IsLeader, MyShard, TypeOK
<1>3. Announcements'
  BY <1>0, AnnouncementsStay
<1>4. Answers'
  <2>1. ASSUME NEW m \in net, m.kind = "shardReady" PROVE AnswerOK(m)'
    BY <1>0, <2>1, AnswerKept, MemberMessage DEF Stays, TypeOK
  <2> QED  BY <1>0, <2>1 DEF Answers, AnswerOK
<1>5. Counted'
  BY <1>0, CountKept DEF Counted, Leading, IsLeader, MyShard, TypeOK
<1>6. Patient'
  BY <1>0 DEF Patient, PatientOne, Leading, IsLeader, MyShard, Enough, TypeOK
<1>7. MinerFollowsLeader'
  <2>1. Announced(Lead[epoch[n]][MyShard(n)], epoch[n])
    BY <1>0 DEF Roles, IsLeader, Announced
  <2> QED  BY <1>0, <2>1, FollowsKept DEF Stays, TypeOK
<1> QED  BY <1>1, <1>2, <1>3, <1>4, <1>5, <1>6, <1>7

(* What a leader counts is an answer of one of its miners. *)
LEMMA OwnAnswer ==
  ASSUME Inductive, NEW n \in Nodes, Leading(n), NEW m \in net, m \in MemberMsg,
         m.to = n, m.epoch = epoch[n]
  PROVE  /\ m.kind = "shardReady" /\ m.ID \notin membermask[n]
         /\ m.ID \in Miners(epoch[n], MyShard(n)) /\ Answered(m.ID, epoch[n])
<1> USE DEF Inductive
<1>1. m.ID \in Nodes /\ m.epoch \in 1..Epochs /\ m.kind \in {"readyAnnoun", "shardReady"}
  BY DEF MemberMsg
<1>2. n = Lead[epoch[n]][Home[epoch[n]][n]] /\ MyShard(n) = Home[epoch[n]][n]
  BY DEF Leading, IsLeader, MyShard
<1>3. m.kind = "shardReady"
  BY <1>1, <1>2 DEF Announcements
<1>4. /\ n = Lead[epoch[n]][Home[epoch[n]][m.ID]] /\ n # m.ID
      /\ Answered(m.ID, epoch[n]) /\ m.ID \notin membermask[n]
  BY <1>3 DEF Answers, Leading
<1>5. Home[epoch[n]][m.ID] = MyShard(n)
  BY <1>1, <1>2, <1>4, HomeType, LeadHome
<1> QED  BY <1>1, <1>2, <1>3, <1>4, <1>5 DEF Miners, Members

LEMMA CountMemberKeeps ==
  ASSUME Inductive, [Next]_vars, NEW n \in Nodes, NEW m \in net, CountMember(n, m)
  PROVE  Inductive'
<1> USE DEF Inductive
<1>0. /\ UNCHANGED <<epoch, pc, timeoutflag>> /\ pc[n] = "members" /\ timeoutflag[n]
      /\ m \in MemberMsg /\ m.to = n
  BY DEF CountMember, WaitsForMembers
<1>1. net' \subseteq net \ {m}
  BY ExchangeNet DEF CountMember
<1>2. CASE m.epoch # epoch[n]
  <2>1. UNCHANGED <<membermask, readyMember>>
    BY <1>2 DEF CountMember, Current
  <2> QED  BY <1>0, <1>1, <2>1, Quiet
<1>3. CASE m.epoch = epoch[n]
  <2>1. /\ membermask' = [membermask EXCEPT ![n] = @ \union {m.ID}]
        /\ readyMember' = [readyMember EXCEPT ![n] = @ + 1]
    BY <1>3 DEF CountMember, Current
  <2>2. IsLeader(n) /\ Leading(n)
    BY <1>0 DEF Roles, Leading
  <2>3. /\ m.kind = "shardReady" /\ m.ID \notin membermask[n]
        /\ m.ID \in Miners(epoch[n], MyShard(n)) /\ Answered(m.ID, epoch[n])
    BY <1>0, <1>3, <2>2, OwnAnswer
  <2>4. TypeOK'
    BY TypeNext
  <2>5. Roles'
    BY <1>0 DEF Roles, IsLeader, MyShard
  <2>6. Announcements'
    BY <1>1, AnnouncementsStay
  <2>7. Answers'
    <3>1. ASSUME NEW a \in net, a # m, a.kind = "shardReady" PROVE AnswerOK(a)'
      <4>1. CASE a.to # n
        BY <1>0, <2>1, <3>1, <4>1, AnswerKept, MemberMessage DEF Stays, TypeOK
      <4>2. CASE a.to = n
        <5>1. a \in MemberMsg /\ a.ID \in Nodes /\ a.epoch \in 1..Epochs
          BY <3>1, MemberMessage
        <5>2. /\ a.to = Lead[a.epoch][Home[a.epoch][a.ID]] /\ a.to # a.ID
              /\ Answered(a.ID, a.epoch)'
          BY <3>1, <5>1, Onward DEF Answers
        <5>3. a.epoch = epoch[n] => a.ID # m.ID
          BY <1>0, <1>3, <2>3, <3>1, <4>2, <5>1 DEF MemberMsg
        <5>4. a.epoch = epoch[n] => a.ID \notin membermask[n]
          BY <1>0, <3>1, <4>2 DEF Answers
        <5>5. membermask'[n] = membermask[n] \union {m.ID}
          BY <2>1 DEF TypeOK
        <5> QED  BY <1>0, <4>2, <5>2, <5>3, <5>4, <5>5 DEF AnswerOK
      <4> QED  BY <4>1, <4>2
    <3> QED  BY <1>1, <3>1 DEF Answers, AnswerOK
  <2>8. Counted'
    <3>1. epoch[n] \in 1..Epochs /\ MyShard(n) \in Shards /\ MyShard(n)' = MyShard(n)
      BY <1>0, HomeType DEF TypeOK, MyShard
    <3>2. membermask[n] \subseteq Miners(epoch[n], MyShard(n)) /\ CountedBy(n)
      BY <2>2 DEF Counted, CountedBy
    <3>3. IsFiniteSet(membermask[n])
      BY <3>1, <3>2, MembersType, FS_Subset
    <3>4. Cardinality(membermask[n] \union {m.ID}) = Cardinality(membermask[n]) + 1
      BY <2>3, <3>3, FS_AddElement
    <3>5. membermask'[n] = membermask[n] \union {m.ID} /\ readyMember'[n] = readyMember[n] + 1
      BY <2>1 DEF TypeOK
    <3>6. readyMember[n] \in Int /\ Cardinality(membermask[n]) \in Nat
      BY <3>3, FS_CardinalityType, SizeAssumption DEF TypeOK
    <3>7. readyMember'[n] = 1 + Cardinality(membermask'[n])
      BY <3>2, <3>4, <3>5, <3>6 DEF CountedBy
    <3>8. ASSUME NEW x \in membermask'[n]
          PROVE  x \in Miners(epoch[n], MyShard(n)) /\ Answered(x, epoch[n])'
      <4>1. x \in Miners(epoch[n], MyShard(n)) /\ Answered(x, epoch[n])
        BY <2>3, <3>2, <3>5, <3>8 DEF CountedBy
      <4>2. x \in Nodes
        BY <3>1, <4>1, MembersType
      <4> QED  BY <1>0, <3>1, <4>1, <4>2, Onward
    <3>9. CountedBy(n)'
      BY <1>0, <3>1, <3>7, <3>8 DEF CountedBy
    <3> QED  BY <1>0, <2>1, <3>9, CountKept DEF Counted, Leading, IsLeader, MyShard, TypeOK
  <2>9. Patient'
    BY <1>0, <2>1 DEF Patient, PatientOne, Leading, IsLeader, MyShard, Enough, TypeOK
  <2>10. MinerFollowsLeader'
    BY <1>0, FollowsKept DEF Stays
  <2> QED  BY <2>4, <2>5, <2>6, <2>7, <2>8, <2>9, <2>10
<1> QED  BY <1>2, <1>3

LEMMA MinerReadyProcessKeeps ==
  ASSUME Inductive, [Next]_vars, NEW n \in Nodes, NEW m \in net, MinerReadyProcess(n, m)
  PROVE  Inductive'
<1> USE DEF Inductive
<1>0. /\ UNCHANGED <<epoch, membermask, readyMember, timeoutflag>> /\ pc[n] = "wait"
      /\ m \in MemberMsg /\ m.to = n
  BY DEF MinerReadyProcess, leaderVars
<1>1. CASE ~Accepts(n, m)
  <2>1. UNCHANGED pc
    BY <1>1 DEF MinerReadyProcess
  <2>2. net' \subseteq net
    BY <1>1, ExchangeNet DEF MinerReadyProcess
  <2> QED  BY <1>0, <2>1, <2>2, Quiet
<1>2. CASE Accepts(n, m)
  <2>0. PICK a : a = ReadyInfo("shardReady", Lead[epoch[n]][MyShard(n)], n, epoch[n])
    OBVIOUS
  <2>1. pc' = [pc EXCEPT ![n] = "ready"]
    BY <1>2 DEF MinerReadyProcess, Goto
  <2>2. net' \subseteq net \union {a}
    BY <1>2, <2>0, ExchangeNet DEF MinerReadyProcess
  <2>3. /\ a.kind = "shardReady" /\ a.to = Lead[epoch[n]][MyShard(n)] /\ a.ID = n
        /\ a.epoch = epoch[n]
    BY <2>0 DEF ReadyInfo
  <2>4. epoch[n] \in 1..Epochs /\ MyShard(n) \in Shards /\ MyShard(n) = Home[epoch[n]][n]
    BY HomeType DEF TypeOK, MyShard
  <2>5. ~IsLeader(n) /\ Lead[epoch[n]][MyShard(n)] # n
    BY <1>0 DEF Roles, IsLeader
  <2>6. TypeOK'
    BY TypeNext
  <2>7. Roles'
    BY <1>0, <2>1 DEF Roles, IsLeader, MyShard, TypeOK
  <2>8. Announcements'
    <3> DEFINE S == {a}
    <3>1. net' \subseteq net \union S /\ \A x \in S : x.kind # "readyAnnoun"
      BY <2>2, <2>3
    <3> HIDE DEF S
    <3> QED  BY <3>1, AnnouncementsKept
  <2>9. Answers'
    <3>1. ASSUME NEW x \in net, x.kind = "shardReady" PROVE AnswerOK(x)'
      BY <1>0, <2>1, <2>5, <3>1, AnswerKept, MemberMessage DEF Stays, TypeOK
    <3>2. AnswerOK(a)'
      <4>1. a.to \in Nodes /\ a.to # n /\ Home[epoch[n]][a.to] = MyShard(n)
        BY <2>3, <2>4, <2>5, LeadHome
      <4>2. Answered(n, epoch[n])'
        BY <1>0, <2>1 DEF Answered, TypeOK
      <4>3. ~Answered(n, epoch[n])
        BY <1>0, <2>4 DEF Answered
      <4>4. epoch[a.to] = epoch[n] /\ pc[a.to] \in {"members", "leaders", "ready"} =>
              n \notin membermask[a.to]
        BY <2>3, <4>1, <4>3 DEF Counted, CountedBy, Leading, IsLeader, MyShard
      <4>5. pc'[a.to] = pc[a.to]
        BY <2>1, <4>1 DEF TypeOK
      <4> QED  BY <1>0, <2>3, <2>4, <4>1, <4>2, <4>4, <4>5 DEF AnswerOK
    <3> QED  BY <2>2, <3>1, <3>2 DEF Answers, AnswerOK
  <2>10. Counted'
    BY <1>0, <2>1, <2>5, CountKept DEF Counted, Leading, IsLeader, MyShard, TypeOK
  <2>11. Patient'
    BY <1>0, <2>1, <2>5 DEF Patient, PatientOne, Leading, IsLeader, MyShard, Enough, TypeOK
  <2>12. MinerFollowsLeader'
    <3>1. m.ID = Lead[epoch[n]][MyShard(n)] /\ m.epoch = epoch[n]
      BY <1>2 DEF Accepts
    <3>2. m.kind = "readyAnnoun"
      <4>1. SUFFICES ASSUME m.kind = "shardReady" PROVE FALSE
        BY <1>0 DEF MemberMsg
      <4>2. n = Lead[epoch[n]][Home[epoch[n]][m.ID]]
        BY <1>0, <3>1, <4>1 DEF Answers
      <4>3. Home[epoch[n]][m.ID] = MyShard(n)
        BY <2>4, <3>1, LeadHome
      <4> QED  BY <2>5, <4>2, <4>3
    <3>3. Announced(Lead[epoch[n]][MyShard(n)], epoch[n])
      BY <3>1, <3>2 DEF Announcements
    <3> QED  BY <1>0, <2>1, <3>3, FollowsKept DEF Stays, TypeOK
  <2> QED  BY <2>6, <2>7, <2>8, <2>9, <2>10, <2>11, <2>12
<1> QED  BY <1>1, <1>2

LEMMA PanicKeeps ==
  ASSUME Inductive, [Next]_vars, NEW n \in Nodes, NEW m \in net, PanicOnRequest(n, m)
  PROVE  Inductive'
<1> USE DEF Inductive
<1>0. /\ UNCHANGED <<epoch, membermask, readyMember, timeoutflag>>
      /\ pc' = [pc EXCEPT ![n] = "down"] /\ pc[n] = "begin"
  BY DEF PanicOnRequest, Goto, leaderVars
<1>00. net' \subseteq net
  BY ExchangeNet DEF PanicOnRequest
<1>1. TypeOK'
  BY TypeNext
<1>2. Roles'
  BY <1>0 DEF Roles, IsLeader, MyShard, TypeOK
<1>3. Announcements'
  BY <1>00, AnnouncementsStay
<1>4. Answers'
  <2>1. ASSUME NEW x \in net, x.kind = "shardReady" PROVE AnswerOK(x)'
    BY <1>0, <2>1, AnswerKept, MemberMessage DEF Stays, TypeOK
  <2> QED  BY <1>00, <2>1 DEF Answers, AnswerOK
<1>5. Counted'
  BY <1>0, CountKept DEF Counted, Leading, IsLeader, MyShard, TypeOK
<1>6. Patient'
  BY <1>0 DEF Patient, PatientOne, Leading, IsLeader, MyShard, Enough, TypeOK
<1>7. MinerFollowsLeader'
  BY <1>0, FollowsKept DEF Stays, TypeOK
<1> QED  BY <1>1, <1>2, <1>3, <1>4, <1>5, <1>6, <1>7

(* The steps between the leaders. *)
LEMMA LeadersKeep ==
  ASSUME Inductive, [Next]_vars, NEW n \in Nodes,
         \/ LeadersTimeout(n)
         \/ \E m \in net : CountLeader(n, m) \/ HandleRequestShardLeaderReady(n, m)
  PROVE  Inductive'
<1> USE DEF Inductive
<1>0. UNCHANGED <<epoch, pc, membermask, readyMember, timeoutflag>>
  BY DEF LeadersTimeout, CountLeader, HandleRequestShardLeaderReady, leaderVars
<1>1. net' \subseteq Msg
  BY TypeNext DEF TypeOK
<1>2. ASSUME NEW m \in net', m \notin net PROVE m \in LeaderMsg
  <2>1. m.kind \in {"leaderReady", "reqLeaReady"}
    <3>1. CASE LeadersTimeout(n)
      BY <1>2, <3>1, ExchangeNet DEF LeadersTimeout, ReadyInfo
    <3>2. ASSUME NEW x \in net, CountLeader(n, x) PROVE FALSE
      BY <1>2, <3>2, ExchangeNet DEF CountLeader
    <3>3. ASSUME NEW x \in net, HandleRequestShardLeaderReady(n, x)
          PROVE  m.kind = "leaderReady"
      BY <1>2, <3>3, ExchangeNet DEF HandleRequestShardLeaderReady, ReadyInfo
    <3> QED  BY <3>1, <3>2, <3>3
  <2> QED  BY <1>1, <2>1 DEF Msg, MemberMsg, LeaderMsg
<1> QED  BY <1>0, <1>2, Quiet

LEMMA InductiveNext == Inductive /\ [Next]_vars => Inductive'
<1> SUFFICES ASSUME Inductive, [Next]_vars PROVE Inductive'
  OBVIOUS
<1>1. ASSUME NEW n \in Nodes, Process(n) PROVE Inductive'
  BY <1>1, NextEpochKeeps, ShardProcessKeeps, LeaderReadyProcessKeeps, MembersTimeoutKeeps,
     MembersReadyKeeps, LeadersReadyKeeps, LeadersKeep DEF Process
<1>2. ASSUME NEW n \in Nodes, NEW m \in net, Receive(n, m) PROVE Inductive'
  BY <1>2, CountMemberKeeps, MinerReadyProcessKeeps, PanicKeeps, LeadersKeep DEF Receive
<1>3. CASE UNCHANGED vars
  BY <1>3, Quiet DEF vars, leaderVars
<1> QED  BY <1>1, <1>2, <1>3 DEF Next

(***************************************************************************)
(* The theorems.                                                           *)
(***************************************************************************)

\* No process goes on in an epoch that its leader has not announced, whatever
\* announcements of earlier epochs its channel holds (ShardProtocol.go:193-202).
THEOREM MinersFollow == Spec => []MinerFollowsLeader
<1>1. Inductive => MinerFollowsLeader
  BY DEF Inductive
<1> QED  BY <1>1, InductiveInit, InductiveNext, PTL DEF Spec

LEMMA Quorum == Inductive => QuorumReady
<1> SUFFICES ASSUME Inductive, NEW n \in Nodes, IsLeader(n), pc[n] \in {"leaders", "ready"}
             PROVE  1 + Cardinality({m \in Miners(epoch[n], MyShard(n)) : Answered(m, epoch[n])})
                      >= IF timeoutflag[n] THEN ShardSize ELSE (ShardSize * 2) \div 3
  BY DEF QuorumReady
<1> DEFINE answered == {m \in Miners(epoch[n], MyShard(n)) : Answered(m, epoch[n])}
<1> USE DEF Inductive
<1>1. CountedBy(n) /\ PatientOne(n)
  BY DEF Counted, Patient, Leading
<1>2. IsFiniteSet(answered)
  <2>1. epoch[n] \in 1..Epochs /\ MyShard(n) \in Shards
    BY HomeType DEF TypeOK, MyShard
  <2> QED  BY <2>1, MembersType, FS_Subset
<1>3. membermask[n] \subseteq answered
  BY <1>1 DEF CountedBy
<1> HIDE DEF answered
<1>4. /\ Cardinality(membermask[n]) <= Cardinality(answered)
      /\ Cardinality(membermask[n]) \in Nat /\ Cardinality(answered) \in Nat
  BY <1>2, <1>3, FS_Subset, FS_CardinalityType
<1>5. 1 + Cardinality(answered) >= readyMember[n]
  BY <1>1, <1>4 DEF CountedBy
<1>6. readyMember[n] \in Int /\ ShardSize \in Int /\ timeoutflag[n] \in BOOLEAN
  BY SizeAssumption DEF TypeOK
<1>7. CASE timeoutflag[n]
  BY <1>1, <1>4, <1>5, <1>6, <1>7 DEF PatientOne, answered
<1>8. CASE ~timeoutflag[n]
  BY <1>1, <1>4, <1>5, <1>6, <1>8 DEF PatientOne, Enough, answered
<1> QED  BY <1>7, <1>8

\* A leader goes on only with answers of this epoch from all of its miners, or
\* from two thirds of the shard when it gave up waiting: none is counted twice
\* and none of another epoch or shard (ShardProtocol.go:111-135).
THEOREM QuorumTheorem == Spec => []QuorumReady
<1> QED  BY Quorum, InductiveInit, InductiveNext, PTL DEF Spec
=============================================================================
