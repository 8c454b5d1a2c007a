----------------------------- MODULE CoSi_proofs -----------------------------
(***************************************************************************)
(* Proofs about the collective signing of reputation blocks, for every     *)
(* shard, every set of miners whose block differs, every link that may     *)
(* lose messages, and every number of rounds and time-outs of CoSi.        *)
(*                                                                         *)
(* First the types.  Then one inductive invariant, Inductive: where each   *)
(* process stands tells which rounds are signed, a message of a round      *)
(* tells how far its sender was in it, and the leader's commitments and    *)
(* parts are of its own round, one for each miner.                         *)
(***************************************************************************)
EXTENDS CoSi, FiniteSetTheorems, TLAPS

(***************************************************************************)
(* What a step does to the messages under way.                             *)
(***************************************************************************)

LEMMA MessageInjective ==
  ASSUME NEW k, NEW m, NEW r, NEW l, NEW n, NEW q, Message(k, m, r) = Message(l, n, q)
  PROVE  k = l /\ m = n /\ r = q
BY DEF Message

LEMMA PostNet ==
  ASSUME NEW l, NEW S, NEW q, Post(ToAll(l, S, q))
  PROVE  \A k, m, r : Message(k, m, r) \in net' =>
           Message(k, m, r) \in net \/ (k = l /\ m \in S /\ r = q)
<1>1. net' \subseteq net \union ToAll(l, S, q)
  BY DEF Post, Arriving
<1> SUFFICES ASSUME NEW k, NEW m, NEW r,
                    Message(k, m, r) \in net', Message(k, m, r) \notin net
             PROVE  k = l /\ m \in S /\ r = q
  OBVIOUS
<1>2. PICK n \in S : Message(k, m, r) = Message(l, n, q)
  BY <1>1 DEF ToAll
<1> QED  BY <1>2, MessageInjective

LEMMA TakeNet ==
  ASSUME NEW l, NEW n, NEW q, Exchange(Message(l, n, q), {})
  PROVE  /\ Message(l, n, q) \in net
         /\ \A k, m, r : Message(k, m, r) \in net' =>
              Message(k, m, r) \in net /\ ~(k = l /\ m = n /\ r = q)
<1>1. Message(l, n, q) \in net /\ net' = net \ {Message(l, n, q)}
  <2>1. Arriving({}) \subseteq {{}}
    BY DEF Arriving
  <2> QED  BY <2>1 DEF Exchange
<1> QED  BY <1>1

LEMMA ReplyNet ==
  ASSUME NEW l, NEW n, NEW q, NEW j, NEW p,
         Exchange(Message(l, n, q), {Message(j, n, p)})
  PROVE  /\ Message(l, n, q) \in net
         /\ \A k, m, r : Message(k, m, r) \in net' =>
              Message(k, m, r) \in net \/ (k = j /\ m = n /\ r = p)
<1>1. Message(l, n, q) \in net /\ net' \subseteq net \union {Message(j, n, p)}
  BY DEF Exchange, Arriving
<1> QED  BY <1>1, MessageInjective

LEMMA PostType ==
  ASSUME NEW S \in SUBSET Msg, net \subseteq Msg, Post(S)
  PROVE  net' \subseteq Msg
BY DEF Post, Arriving

LEMMA ExchangeType ==
  ASSUME NEW S \in SUBSET Msg, NEW msg, net \subseteq Msg, Exchange(msg, S)
  PROVE  net' \subseteq Msg
BY DEF Exchange, Arriving

LEMMA ToAllType ==
  ASSUME NEW k \in Kinds, NEW S \in SUBSET Members, NEW r \in 1..Rounds
  PROVE  ToAll(k, S, r) \in SUBSET Msg
BY DEF ToAll, Message, Msg

LEMMA MessageType ==
  ASSUME NEW k \in Kinds, NEW m \in Members, NEW r \in 1..Rounds
  PROVE  {Message(k, m, r)} \in SUBSET Msg
BY DEF Message, Msg

LEMMA ShardSizeType == ShardSize \in Nat /\ ShardSize >= 1
BY ShardAssumption, FS_CardinalityType DEF ShardSize

LEMMA CosignType ==
  ASSUME NEW n \in Nodes, NEW r \in 1..Rounds
  PROVE  Cosign(n, r) \in Part /\ Cosign(n, r) # None
<1>0. (n \in Divergent) \in BOOLEAN
  OBVIOUS
<1>1. <<r, n \in Divergent>> \in (1..Rounds) \X BOOLEAN
  BY <1>0, Zenon
<1>2. [commit |-> r, hash |-> <<r, n \in Divergent>>] \in Part
  BY <1>1 DEF Part
<1>3. Cosign(n, r) \in Part
  BY <1>2, Zenon DEF Cosign, BlockHash
<1> QED  BY <1>3, NoneAssumption

LEMMA AggregateType ==
  ASSUME NEW commit \in [Nodes -> (1..Rounds) \union {None}],
         NEW parts \in [Nodes -> Part \union {None}],
         NEW mask \in SUBSET Nodes, \A n \in mask : commit[n] # None
  PROVE  AggregateSignature(commit, parts, mask) \in Signature \union {Nil}
<1>1. CASE \E n \in mask : parts[n] = None
  BY <1>1 DEF AggregateSignature
<1>2. CASE \A n \in mask : parts[n] # None
  <2>1. [n \in mask |-> commit[n]] \in [mask -> 1..Rounds]
    OBVIOUS
  <2>2. [n \in mask |-> parts[n]] \in [mask -> Part]
    BY <1>2
  <2>3. AggregateSignature(commit, parts, mask)
          \in [commit : [mask -> 1..Rounds], parts : [mask -> Part]]
    BY <1>2, <2>1, <2>2 DEF AggregateSignature, AggregateCommit
  <2> QED  BY <2>3 DEF Signature
<1> QED  BY <1>1, <1>2

(***************************************************************************)
(* Types.                                                                  *)
(***************************************************************************)

(* Where the leader and the miners can stand. *)
Places ==
  /\ pc[Leader] \in {"idle", "commit", "respond", "panic"}
  /\ \A m \in Members : pc[m] \in {"idle", "announce", "challenge", "sig"}
  /\ pc[Leader] \in {"commit", "respond"} => signCount >= 1
  /\ late # {} => pc[Leader] \in {"idle", "commit", "panic"}
  /\ \A n \in Nodes : pc[n] \notin {"idle", "panic"} => round[n] \in 1..Rounds

Typed == TypeOK /\ Places

(* Both processes start their rounds alike. *)
LEMMA NextRoundType ==
  ASSUME Typed, NEW n \in Nodes, NEW to, NextRound(n, to),
         to \in {"commit", "announce"}
  PROVE  /\ round' \in [Nodes -> 0..Rounds] /\ round'[n] \in 1..Rounds
         /\ pc' \in [Nodes -> {"idle", "commit", "respond", "announce", "challenge", "sig", "panic"}]
         /\ \A o \in Nodes \ {n} : round'[o] = round[o] /\ pc'[o] = pc[o]
         /\ pc'[n] = to
<1>1. round[n] \in 0..Rounds /\ round[n] < Rounds /\ Rounds \in Nat
  BY RoundsAssumption DEF NextRound, Typed, TypeOK
<1> QED  BY <1>1 DEF NextRound, Typed, TypeOK

LEMMA TypedInit == Init => Typed
<1> SUFFICES ASSUME Init PROVE Typed
  OBVIOUS
<1>1. 0 \in 0..Rounds /\ 0 \in 0..ShardSize /\ 0 \in 0..Timeouts
  BY RoundsAssumption, ShardSizeType
<1> QED  BY <1>1, NoneAssumption DEF Init, Typed, TypeOK, Places, Nodes

LEMMA TypedLeader ==
  ASSUME Typed, LeaderNext
  PROVE  Typed'
<1> USE DEF Typed
<1>0. Leader \in Nodes /\ Leader \notin Members /\ Members \subseteq Nodes /\ Rounds \in Nat
      /\ Timeouts \in Nat \ {0}
  BY ShardAssumption, RoundsAssumption DEF Nodes
<1>1. CASE LeaderStart
  <2>1. NextRound(Leader, "commit") /\ Post(ToAll("cosiAnnoun", Members, round'[Leader]))
    BY <1>1 DEF LeaderStart
  <2>2. round' \in [Nodes -> 0..Rounds] /\ round'[Leader] \in 1..Rounds
    BY <1>0, <2>1, NextRoundType
  <2>3. net' \subseteq Msg
    BY <2>1, <2>2, PostType, ToAllType DEF TypeOK, Kinds
  <2>4. TypeOK'
    <3>1. commits' \in [Nodes -> (1..Rounds) \union {None}] /\ sigParts' \in [Nodes -> Part \union {None}]
      BY <1>1, <2>2 DEF LeaderStart
    <3>2. signCount' \in 0..ShardSize /\ responseCount' \in 0..signCount' /\ cnt' \in 0..Timeouts
      BY <1>0, <1>1, ShardSizeType DEF LeaderStart
    <3> QED  BY <1>0, <1>1, <2>1, <2>2, <2>3, <3>1, <3>2, NextRoundType DEF LeaderStart, TypeOK
  <2>5. Places'
    BY <1>0, <1>1, <2>1, <2>2, NextRoundType DEF LeaderStart, Places
  <2> QED  BY <2>4, <2>5
<1>2. ASSUME NEW m \in Members, NEW r \in 1..Rounds, TakeCommit(m, r)
      PROVE  Typed'
  <2>1. net' \subseteq Msg
    BY <1>2, ExchangeType DEF TakeCommit, TypeOK
  <2>2. signCount' \in 0..ShardSize /\ signCount' >= 1 /\ responseCount' \in 0..signCount'
    BY <1>2, ShardSizeType DEF TakeCommit, Collecting, TypeOK
  <2>3. commits' \in [Nodes -> (1..Rounds) \union {None}]
    BY <1>0, <1>2 DEF TakeCommit, TypeOK
  <2>4. TypeOK'
    BY <1>2, <2>1, <2>2, <2>3 DEF TakeCommit, TypeOK
  <2>5. Places'
    BY <1>2, <2>2 DEF TakeCommit, Places
  <2> QED  BY <2>4, <2>5
<1>3. CASE CommitTimeout
  <2>1. round[Leader] \in 1..Rounds
    BY <1>0, <1>3 DEF CommitTimeout, Collecting, Places
  <2>2. net' \subseteq Msg
    BY <1>3, <2>1, PostType, ToAllType DEF CommitTimeout, TypeOK, Kinds
  <2>3. cnt' \in 0..Timeouts
    BY <1>0, <1>3 DEF CommitTimeout, Collecting, TypeOK
  <2> QED  BY <1>3, <2>2, <2>3 DEF CommitTimeout, TypeOK, Places
<1>4. CASE SendChallenge
  <2>1. round[Leader] \in 1..Rounds
    BY <1>0, <1>4 DEF SendChallenge, Places
  <2>2. cosimask \ {Leader} \in SUBSET Members
    BY DEF cosimask, Nodes
  <2>3. net' \subseteq Msg
    BY <1>4, <2>1, <2>2, PostType, ToAllType DEF SendChallenge, TypeOK, Kinds
  <2>4. responseCount' \in 0..signCount'
    BY <1>4 DEF SendChallenge, TypeOK, Places
  <2>5. TypeOK'
    BY <1>0, <1>4, <2>3, <2>4 DEF SendChallenge, TypeOK
  <2>6. Places'
    BY <1>0, <1>4 DEF SendChallenge, Places, TypeOK
  <2> QED  BY <2>5, <2>6
<1>5. ASSUME NEW m \in Members, NEW r \in 1..Rounds, TakeResponse(m, r)
      PROVE  Typed'
  <2>1. net' \subseteq Msg
    BY <1>5, ExchangeType DEF TakeResponse, TypeOK
  <2>2. responseCount' \in 0..signCount'
    BY <1>5, ShardSizeType DEF TakeResponse, Responding, TypeOK
  <2>3. sigParts' \in [Nodes -> Part \union {None}]
    BY <1>0, <1>5, CosignType DEF TakeResponse, TypeOK
  <2>4. TypeOK'
    BY <1>5, <2>1, <2>2, <2>3 DEF TakeResponse, TypeOK
  <2>5. Places'
    BY <1>5 DEF TakeResponse, Places
  <2> QED  BY <2>4, <2>5
<1>6. CASE ResponseTimeout
  <2>1. round[Leader] \in 1..Rounds
    BY <1>0, <1>6 DEF ResponseTimeout, Responding, Places
  <2>2. Members \ responsemask \in SUBSET Members
    BY DEF responsemask, Nodes
  <2>3. net' \subseteq Msg
    BY <1>6, <2>1, <2>2, PostType, ToAllType DEF ResponseTimeout, TypeOK, Kinds
  <2> QED  BY <1>6, <2>3 DEF ResponseTimeout, TypeOK, Places, leaderVars
<1>7. CASE LeaderFinish
  <2>1. round[Leader] \in 1..Rounds
    BY <1>0, <1>7 DEF LeaderFinish, Places
  <2>2. cosimask \ {Leader} \in SUBSET Members
    BY DEF cosimask, Nodes
  <2>3. net' \subseteq Msg
    BY <1>7, <2>1, <2>2, PostType, ToAllType DEF LeaderFinish, TypeOK, Kinds
  <2>4. sigParts' \in [Nodes -> Part \union {None}]
    BY <1>0, <1>7, <2>1, CosignType DEF LeaderFinish, TypeOK
  <2>5. AggregateSignature(commits, sigParts', cosimask) \in Signature \union {Nil}
    <3>1. cosimask \in SUBSET Nodes /\ \A n \in cosimask : commits[n] # None
      BY DEF cosimask
    <3> QED  BY <2>4, <3>1, AggregateType DEF TypeOK
  <2>6. CosiData' \in [1..Rounds -> Signature \union {None, Nil}]
    BY <1>7, <2>1, <2>5 DEF LeaderFinish, TypeOK
  <2>7. TypeOK'
    <3>1. late' \subseteq Channels
      BY <1>7 DEF LeaderFinish, TypeOK
    <3> QED  BY <1>0, <1>7, <2>3, <2>4, <2>6, <3>1 DEF LeaderFinish, TypeOK
  <2>8. Places'
    BY <1>0, <1>7 DEF LeaderFinish, Places, TypeOK
  <2> QED  BY <2>7, <2>8
<1>8. ASSUME NEW m \in Members, NEW r \in 1..Rounds, HandleReqCosiSig(m, r)
      PROVE  Typed'
  <2>1. net' \subseteq Msg
    BY <1>8, ExchangeType, MessageType DEF HandleReqCosiSig, TypeOK, Kinds
  <2> QED  BY <1>8, <2>1 DEF HandleReqCosiSig, TypeOK, Places, leaderVars
<1>9. ASSUME NEW k \in Channels, SendOnClosed(k)
      PROVE  Typed'
  BY <1>0, <1>9 DEF SendOnClosed, TypeOK, Places, leaderVars
<1> QED  BY <1>1, <1>2, <1>3, <1>4, <1>5, <1>6, <1>7, <1>8, <1>9 DEF LeaderNext

LEMMA TypedMember ==
  ASSUME Typed, NEW m \in Members, MemberNext(m)
  PROVE  Typed'
<1> USE DEF Typed
<1>0. m \in Nodes /\ m # Leader /\ Leader \in Nodes /\ Members \subseteq Nodes
  BY ShardAssumption DEF Nodes
<1>1. CASE MemberStart(m)
  <2>1. NextRound(m, "announce")
    BY <1>1 DEF MemberStart
  <2>2. TypeOK'
    BY <1>0, <1>1, <2>1, NextRoundType DEF MemberStart, TypeOK, leaderVars
  <2>3. Places'
    BY <1>0, <1>1, <2>1, NextRoundType DEF MemberStart, Places, leaderVars
  <2> QED  BY <2>2, <2>3
<1>2. CASE TakeAnnounce(m)
  <2>1. round[m] \in 1..Rounds
    BY <1>0, <1>2 DEF TakeAnnounce, Places
  <2>2. net' \subseteq Msg
    BY <1>2, <2>1, ExchangeType, MessageType DEF TakeAnnounce, TypeOK, Kinds
  <2> QED  BY <1>0, <1>2, <2>1, <2>2 DEF TakeAnnounce, TypeOK, Places, leaderVars
<1>3. ASSUME NEW r \in 1..Rounds, SkipAnnounce(m, r)
      PROVE  Typed'
  <2>1. net' \subseteq Msg
    BY <1>3, ExchangeType DEF SkipAnnounce, TypeOK
  <2> QED  BY <1>3, <2>1 DEF SkipAnnounce, TypeOK, Places, leaderVars
<1>4. ASSUME NEW r \in 1..Rounds, ResendCommit(m, r)
      PROVE  Typed'
  <2>1. round[m] \in 1..Rounds
    BY <1>0, <1>4 DEF ResendCommit, Places
  <2>2. net' \subseteq Msg
    BY <1>4, <2>1, ExchangeType, MessageType DEF ResendCommit, TypeOK, Kinds
  <2> QED  BY <1>4, <2>2 DEF ResendCommit, TypeOK, Places, leaderVars
<1>5. CASE TakeChallenge(m)
  <2>1. round[m] \in 1..Rounds
    BY <1>0, <1>5 DEF TakeChallenge, Places
  <2>2. net' \subseteq Msg
    BY <1>5, <2>1, ExchangeType, MessageType DEF TakeChallenge, TypeOK, Kinds
  <2> QED  BY <1>0, <1>5, <2>1, <2>2 DEF TakeChallenge, TypeOK, Places, leaderVars
<1>6. CASE SigTimeout(m)
  <2>1. round[m] \in 1..Rounds
    BY <1>0, <1>6 DEF SigTimeout, Places
  <2>2. net' \subseteq Msg
    BY <1>6, <2>1, PostType, MessageType DEF SigTimeout, TypeOK, Kinds
  <2> QED  BY <1>6, <2>2 DEF SigTimeout, TypeOK, Places, leaderVars
<1>7. ASSUME NEW r \in 1..Rounds, TakeSig(m, r)
      PROVE  Typed'
  <2>1. net' \subseteq Msg
    BY <1>7, ExchangeType DEF TakeSig, TypeOK
  <2>2. repSig' \in [Members -> [1..Rounds -> Signature \union {None, Nil}]]
    <3>1. CosiData[r] \in Signature \union {None, Nil}
      BY <1>7 DEF TypeOK
    <3> QED  BY <1>7, <3>1 DEF TakeSig, TypeOK
  <2> QED  BY <1>0, <1>7, <2>1, <2>2 DEF TakeSig, TypeOK, Places, leaderVars
<1> QED  BY <1>1, <1>2, <1>3, <1>4, <1>5, <1>6, <1>7 DEF MemberNext

LEMMA TypedStep ==
  ASSUME Typed, [Next]_vars
  PROVE  Typed'
<1>1. CASE UNCHANGED vars
  BY <1>1 DEF vars, leaderVars, Typed, TypeOK, Places
<1> QED  BY <1>1, TypedLeader, TypedMember DEF Next

(* The types of the state hold in every reachable state, whatever the shard, *)
(* the rounds, the time-outs and the links (CoSiRepProtocol.go).             *)
THEOREM TypeCorrect == Spec => []TypeOK
<1>1. Typed => TypeOK
  BY DEF Typed
<1> QED  BY <1>1, TypedInit, TypedStep, PTL DEF Spec

(***************************************************************************)
(* The inductive invariant.                                                *)
(***************************************************************************)

(* Only rounds the leader has finished are signed. *)
SignedPast ==
  \A r \in Signed : r < round[Leader] \/ (r = round[Leader] /\ pc[Leader] \in {"idle", "panic"})

(* The rounds a miner has left are signed, and it left them with the signature. *)
Finished ==
  \A m \in Members, r \in 1..Rounds :
    r < round[m] \/ (r = round[m] /\ pc[m] = "idle") => r \in Signed

SignatureSent ==
  \A m \in Members, r \in 1..Rounds : Message("cosiSig", m, r) \in net => r \in Signed

(* A miner is challenged, and answers, once the leader has fixed the mask. *)
MaskFixed(r) == r < round[Leader] \/ (r = round[Leader] /\ pc[Leader] # "commit")

Challenged ==
  \A m \in Members :
    /\ \A r \in 1..Rounds : Message("cosiChallen", m, r) \in net => MaskFixed(r)
    /\ pc[m] = "sig" => MaskFixed(round[m])

CommitSent ==
  \A m \in Members, r \in 1..Rounds : Message("cosiCommit", m, r) \in net =>
    r < round[m] \/ (r = round[m] /\ pc[m] # "announce")

(* A response under way is the miner's only one of its round. *)
ResponseSent ==
  \A m \in Members, r \in 1..Rounds : Message("cosiRespon", m, r) \in net =>
    /\ Answered(m, r)
    /\ pc[Leader] \in {"commit", "respond"} /\ r = round[Leader] => sigParts[m] = None

PartsBacked ==
  /\ \A n \in Nodes : sigParts[n] # None =>
       sigParts[n] = Cosign(n, round[Leader]) /\ Answered(n, round[Leader])
  /\ pc[Leader] = "commit" => \A n \in Nodes : sigParts[n] = None

(* A signature holds, of each node its mask names, the part of that round. *)
SignatureBacked ==
  \A r \in Signed : CosiData[r] # Nil =>
    /\ DOMAIN CosiData[r].commit \subseteq Nodes
    /\ \A n \in DOMAIN CosiData[r].commit :
         /\ CosiData[r].commit[n] = r
         /\ CosiData[r].parts[n] = Cosign(n, r)
         /\ Answered(n, r)

Inductive ==
  /\ Typed
  /\ SignedPast
  /\ Finished
  /\ SignatureSent
  /\ SignaturesAgree
  /\ Challenged
  /\ CommitSent
  /\ CommitsFresh
  /\ ResponseSent
  /\ PartsBacked
  /\ ResponsesDistinct
  /\ SignatureBacked

(* The rounds and places that each conjunct reads are numbers and names. *)
LEMMA Ranges ==
  ASSUME Typed
  PROVE  /\ \A n \in Nodes : round[n] \in Int
         /\ Leader \in Nodes /\ Leader \notin Members /\ Members \subseteq Nodes
         /\ \A n \in Nodes : n = Leader \/ n \in Members
         /\ Rounds \in Nat /\ \A r \in 1..Rounds : r \in Int
BY ShardAssumption, RoundsAssumption DEF Typed, TypeOK, Nodes

LEMMA InductiveInit == Init => Inductive
<1> SUFFICES ASSUME Init PROVE Inductive
  OBVIOUS
<1>1. Typed
  BY TypedInit
<1>2. Signed = {} /\ cosimask = {} /\ net = {}
  BY <1>1 DEF Init, Signed, cosimask, Nodes
<1>3. SignedPast /\ Finished /\ SignatureSent /\ SignaturesAgree /\ SignatureBacked
  BY <1>1, <1>2, Ranges DEF Init, SignedPast, Finished, SignatureSent, SignaturesAgree, SignatureBacked
<1>4. Challenged /\ CommitSent /\ CommitsFresh
  BY <1>1, <1>2, Ranges DEF Init, Challenged, CommitSent, CommitsFresh
<1>5. ResponseSent /\ PartsBacked /\ ResponsesDistinct
  BY <1>1, <1>2, Ranges DEF Init, ResponseSent, PartsBacked, ResponsesDistinct
<1> QED  BY <1>1, <1>3, <1>4, <1>5 DEF Inductive

LEMMA InductiveLeaderStart ==
  ASSUME Inductive, Typed', LeaderStart
  PROVE  Inductive'
<1> USE Ranges DEF Inductive
<1>1. \A k, n, q : Message(k, n, q) \in net' =>
         Message(k, n, q) \in net \/ (k = "cosiAnnoun" /\ n \in Members /\ q = round'[Leader])
  BY PostNet DEF LeaderStart
<1>2. SignedPast'
  BY <1>1 DEF LeaderStart, SignedPast, Signed, NextRound, Typed, TypeOK
<1>3. Finished'
  BY <1>1 DEF LeaderStart, Finished, Signed, NextRound, Typed, TypeOK
<1>4. SignatureSent'
  BY <1>1 DEF LeaderStart, SignatureSent, Signed, NextRound, Typed, TypeOK
<1>5. SignaturesAgree'
  BY <1>1 DEF LeaderStart, SignaturesAgree, Signed, NextRound, Typed, TypeOK
<1>6. Challenged'
  <2>1. round'[Leader] = round[Leader] + 1
    BY DEF LeaderStart, NextRound, Typed, TypeOK
  <2>2. \A m \in Members : round'[m] = round[m] /\ pc'[m] = pc[m]
    BY DEF LeaderStart, NextRound, Typed, TypeOK
  <2> QED  BY <1>1, <2>1, <2>2 DEF Challenged, MaskFixed
<1>7. CommitSent'
  BY <1>1 DEF LeaderStart, CommitSent, NextRound, Typed, TypeOK
<1>8. CommitsFresh'
  BY <1>1 DEF LeaderStart, CommitsFresh, cosimask, NextRound, Typed, TypeOK
<1>9. ResponseSent'
  BY <1>1 DEF LeaderStart, ResponseSent, Answered, NextRound, Typed, TypeOK
<1>10. PartsBacked'
  BY <1>1 DEF LeaderStart, PartsBacked, Answered, NextRound, Typed, TypeOK
<1>11. ResponsesDistinct'
  BY <1>1 DEF LeaderStart, ResponsesDistinct, responsemask, NextRound, Typed, TypeOK
<1>12. SignatureBacked'
  BY <1>1 DEF LeaderStart, SignatureBacked, Signed, Answered, NextRound, Typed, TypeOK
<1> QED  BY <1>2, <1>3, <1>4, <1>5, <1>6, <1>7, <1>8, <1>9, <1>10, <1>11, <1>12

LEMMA InductiveTakeCommit ==
  ASSUME Inductive, Typed', NEW m \in Members, NEW r \in 1..Rounds, TakeCommit(m, r)
  PROVE  Inductive'
<1> USE Ranges DEF Inductive
<1>1. /\ Message("cosiCommit", m, r) \in net
      /\ \A k, n, q : Message(k, n, q) \in net' =>
        Message(k, n, q) \in net /\ ~(k = "cosiCommit" /\ n = m /\ q = r)
  BY TakeNet DEF TakeCommit
<1>2. SignedPast'
  BY <1>1 DEF TakeCommit, SignedPast, Signed, Current, Typed, TypeOK
<1>3. Finished'
  BY <1>1 DEF TakeCommit, Finished, Signed, Current, Typed, TypeOK
<1>4. SignatureSent'
  BY <1>1 DEF TakeCommit, SignatureSent, Signed, Current, Typed, TypeOK
<1>5. SignaturesAgree'
  BY <1>1 DEF TakeCommit, SignaturesAgree, Signed, Current, Typed, TypeOK
<1>6. Challenged'
  BY <1>1 DEF TakeCommit, Challenged, MaskFixed, Current, Typed, TypeOK
<1>7. CommitSent'
  BY <1>1 DEF TakeCommit, CommitSent, Current, Typed, TypeOK
<1>8. CommitsFresh'
  <2>1. r = round[Leader] /\ pc[Leader] = "commit" /\ r \notin Signed
    BY DEF TakeCommit, Current, Collecting, SignedPast
  <2>2. round[m] = r /\ pc[m] = "challenge"
    BY <1>1, <2>1 DEF CommitSent, Finished, Challenged, MaskFixed, Typed, Places
  <2>3. cosimask' = cosimask \union {m}
    BY <2>1, NoneAssumption DEF TakeCommit, cosimask, Typed, TypeOK
  <2> QED  BY <2>1, <2>2, <2>3 DEF TakeCommit, CommitsFresh, cosimask, Typed, TypeOK
<1>9. ResponseSent'
  BY <1>1 DEF TakeCommit, ResponseSent, Answered, Current, Typed, TypeOK
<1>10. PartsBacked'
  BY <1>1 DEF TakeCommit, PartsBacked, Answered, Current, Typed, TypeOK
<1>11. ResponsesDistinct'
  BY <1>1 DEF TakeCommit, ResponsesDistinct, responsemask, Current, Typed, TypeOK
<1>12. SignatureBacked'
  BY <1>1 DEF TakeCommit, SignatureBacked, Signed, Answered, Current, Typed, TypeOK
<1> QED  BY <1>2, <1>3, <1>4, <1>5, <1>6, <1>7, <1>8, <1>9, <1>10, <1>11, <1>12

LEMMA InductiveCommitTimeout ==
  ASSUME Inductive, Typed', CommitTimeout
  PROVE  Inductive'
<1> USE Ranges DEF Inductive
<1>1. \A k, n, q : Message(k, n, q) \in net' =>
         Message(k, n, q) \in net \/ (k = "cosiAnnoun" /\ n \in Members \ cosimask /\ q = round[Leader])
  BY PostNet DEF CommitTimeout
<1>2. SignedPast'
  BY <1>1 DEF CommitTimeout, SignedPast, Signed
<1>3. Finished'
  BY <1>1 DEF CommitTimeout, Finished, Signed
<1>4. SignatureSent'
  BY <1>1 DEF CommitTimeout, SignatureSent, Signed
<1>5. SignaturesAgree'
  BY <1>1 DEF CommitTimeout, SignaturesAgree, Signed
<1>6. Challenged'
  BY <1>1 DEF CommitTimeout, Challenged, MaskFixed
<1>7. CommitSent'
  BY <1>1 DEF CommitTimeout, CommitSent
<1>8. CommitsFresh'
  BY <1>1 DEF CommitTimeout, CommitsFresh, cosimask
<1>9. ResponseSent'
  BY <1>1 DEF CommitTimeout, ResponseSent, Answered
<1>10. PartsBacked'
  BY <1>1 DEF CommitTimeout, PartsBacked, Answered
<1>11. ResponsesDistinct'
  BY <1>1 DEF CommitTimeout, ResponsesDistinct, responsemask
<1>12. SignatureBacked'
  BY <1>1 DEF CommitTimeout, SignatureBacked, Signed, Answered
<1> QED  BY <1>2, <1>3, <1>4, <1>5, <1>6, <1>7, <1>8, <1>9, <1>10, <1>11, <1>12

LEMMA InductiveSendChallenge ==
  ASSUME Inductive, Typed', SendChallenge
  PROVE  Inductive'
<1> USE Ranges DEF Inductive
<1>1. \A k, n, q : Message(k, n, q) \in net' =>
         Message(k, n, q) \in net \/ (k = "cosiChallen" /\ n \in cosimask \ {Leader} /\ q = round[Leader])
  BY PostNet DEF SendChallenge
<1>2. SignedPast'
  BY <1>1 DEF SendChallenge, SignedPast, Signed, Typed, TypeOK
<1>3. Finished'
  BY <1>1 DEF SendChallenge, Finished, Signed, Typed, TypeOK
<1>4. SignatureSent'
  BY <1>1 DEF SendChallenge, SignatureSent, Signed, Typed, TypeOK
<1>5. SignaturesAgree'
  BY <1>1 DEF SendChallenge, SignaturesAgree, Signed, Typed, TypeOK
<1>6. Challenged'
  BY <1>1 DEF SendChallenge, Challenged, MaskFixed, Typed, TypeOK
<1>7. CommitSent'
  BY <1>1 DEF SendChallenge, CommitSent, Typed, TypeOK
<1>8. CommitsFresh'
  BY <1>1 DEF SendChallenge, CommitsFresh, cosimask, Typed, TypeOK
<1>9. ResponseSent'
  BY <1>1 DEF SendChallenge, ResponseSent, Answered, Typed, TypeOK
<1>10. PartsBacked'
  BY <1>1 DEF SendChallenge, PartsBacked, Answered, Typed, TypeOK
<1>11. ResponsesDistinct'
  <2>1. responsemask' = {Leader}
    BY DEF SendChallenge, PartsBacked, responsemask
  <2> QED  BY <2>1, FS_Singleton DEF SendChallenge, ResponsesDistinct
<1>12. SignatureBacked'
  BY <1>1 DEF SendChallenge, SignatureBacked, Signed, Answered, Typed, TypeOK
<1> QED  BY <1>2, <1>3, <1>4, <1>5, <1>6, <1>7, <1>8, <1>9, <1>10, <1>11, <1>12

LEMMA InductiveTakeResponse ==
  ASSUME Inductive, Typed', NEW m \in Members, NEW r \in 1..Rounds, TakeResponse(m, r)
  PROVE  Inductive'
<1> USE Ranges DEF Inductive
<1>1. /\ Message("cosiRespon", m, r) \in net
      /\ \A k, n, q : Message(k, n, q) \in net' =>
        Message(k, n, q) \in net /\ ~(k = "cosiRespon" /\ n = m /\ q = r)
  BY TakeNet DEF TakeResponse
<1>2. SignedPast'
  BY <1>1 DEF TakeResponse, SignedPast, Signed, Current, Typed, TypeOK
<1>3. Finished'
  BY <1>1 DEF TakeResponse, Finished, Signed, Current, Typed, TypeOK
<1>4. SignatureSent'
  BY <1>1 DEF TakeResponse, SignatureSent, Signed, Current, Typed, TypeOK
<1>5. SignaturesAgree'
  BY <1>1 DEF TakeResponse, SignaturesAgree, Signed, Current, Typed, TypeOK
<1>6. Challenged'
  BY <1>1 DEF TakeResponse, Challenged, MaskFixed, Current, Typed, TypeOK
<1>7. CommitSent'
  BY <1>1 DEF TakeResponse, CommitSent, Current, Typed, TypeOK
<1>8. CommitsFresh'
  BY <1>1 DEF TakeResponse, CommitsFresh, cosimask, Current, Typed, TypeOK
<1>9. ResponseSent'
  BY <1>1 DEF TakeResponse, ResponseSent, Answered, Current, Typed, TypeOK
<1>10. PartsBacked'
  <2>1. r = round[Leader] /\ pc[Leader] = "respond" /\ Answered(m, r)
    BY <1>1 DEF TakeResponse, Current, Responding, ResponseSent
  <2>2. \A n \in Nodes : sigParts'[n] = IF n = m THEN Cosign(m, r) ELSE sigParts[n]
    BY DEF TakeResponse, Typed, TypeOK
  <2>3. round' = round /\ pc' = pc
    BY DEF TakeResponse
  <2> QED  BY <2>1, <2>2, <2>3 DEF PartsBacked, Answered
<1>11. ResponsesDistinct'
  <2>1. r = round[Leader] /\ pc[Leader] = "respond" /\ sigParts[m] = None
    BY <1>1 DEF TakeResponse, Current, Responding, ResponseSent
  <2>2. responsemask' = responsemask \union {m}
    BY CosignType DEF TakeResponse, responsemask, Typed, TypeOK
  <2>3. m \notin responsemask
    BY <2>1 DEF responsemask
  <2>4. IsFiniteSet(responsemask)
    <3>1. responsemask \subseteq Members \union {Leader}
      BY DEF responsemask
    <3> QED  BY <3>1, ShardAssumption, FS_AddElement, FS_Subset
  <2>5. Cardinality(responsemask') = Cardinality(responsemask) + 1
    BY <2>2, <2>3, <2>4, FS_AddElement
  <2> QED  BY <2>1, <2>5 DEF TakeResponse, ResponsesDistinct
<1>12. SignatureBacked'
  BY <1>1 DEF TakeResponse, SignatureBacked, Signed, Answered, Current, Typed, TypeOK
<1> QED  BY <1>2, <1>3, <1>4, <1>5, <1>6, <1>7, <1>8, <1>9, <1>10, <1>11, <1>12

LEMMA InductiveResponseTimeout ==
  ASSUME Inductive, Typed', ResponseTimeout
  PROVE  Inductive'
<1> USE Ranges DEF Inductive
<1>1. \A k, n, q : Message(k, n, q) \in net' =>
         Message(k, n, q) \in net \/ (k = "cosiChallen" /\ n \in Members \ responsemask /\ q = round[Leader])
  BY PostNet DEF ResponseTimeout
<1>2. SignedPast'
  BY <1>1 DEF ResponseTimeout, SignedPast, Signed, leaderVars
<1>3. Finished'
  BY <1>1 DEF ResponseTimeout, Finished, Signed, leaderVars
<1>4. SignatureSent'
  BY <1>1 DEF ResponseTimeout, SignatureSent, Signed, leaderVars
<1>5. SignaturesAgree'
  BY <1>1 DEF ResponseTimeout, SignaturesAgree, Signed, leaderVars
<1>6. Challenged'
  BY <1>1 DEF ResponseTimeout, Responding, Challenged, MaskFixed, leaderVars
<1>7. CommitSent'
  BY <1>1 DEF ResponseTimeout, CommitSent, leaderVars
<1>8. CommitsFresh'
  BY <1>1 DEF ResponseTimeout, CommitsFresh, cosimask, leaderVars
<1>9. ResponseSent'
  BY <1>1 DEF ResponseTimeout, ResponseSent, Answered, leaderVars
<1>10. PartsBacked'
  BY <1>1 DEF ResponseTimeout, PartsBacked, Answered, leaderVars
<1>11. ResponsesDistinct'
  BY <1>1 DEF ResponseTimeout, ResponsesDistinct, responsemask, leaderVars
<1>12. SignatureBacked'
  BY <1>1 DEF ResponseTimeout, SignatureBacked, Signed, Answered, leaderVars
<1> QED  BY <1>2, <1>3, <1>4, <1>5, <1>6, <1>7, <1>8, <1>9, <1>10, <1>11, <1>12

LEMMA InductiveLeaderFinish ==
  ASSUME Inductive, Typed', LeaderFinish
  PROVE  Inductive'
<1> USE Ranges DEF Inductive
<1>1. \A k, n, q : Message(k, n, q) \in net' =>
         Message(k, n, q) \in net \/ (k = "cosiSig" /\ n \in cosimask \ {Leader} /\ q = round[Leader])
  BY PostNet DEF LeaderFinish
<1>a. /\ pc[Leader] = "respond" /\ pc' = [pc EXCEPT ![Leader] = "idle"]
      /\ round' = round /\ repSig' = repSig /\ round[Leader] \in 1..Rounds
      /\ pc'[Leader] = "idle" /\ \A n \in Members : pc'[n] = pc[n]
  BY DEF LeaderFinish, Typed, TypeOK, Places
<1>b. /\ CosiData'[round[Leader]] = AggregateSignature(commits, sigParts', cosimask)
      /\ \A r \in 1..Rounds : r # round[Leader] => CosiData'[r] = CosiData[r]
  BY <1>a DEF LeaderFinish, Typed, TypeOK
<1>c. AggregateSignature(commits, sigParts', cosimask) # None
  <2>1. cosimask \in SUBSET Nodes /\ \A n \in cosimask : commits[n] # None
    BY DEF cosimask
  <2> QED  BY <2>1, AggregateType, NoneAssumption DEF Typed, TypeOK
<1>d. Signed' = Signed \union {round[Leader]} /\ round[Leader] \notin Signed
  BY <1>a, <1>b, <1>c DEF Signed, SignedPast
<1>2. SignedPast'
  BY <1>a, <1>d DEF SignedPast
<1>3. Finished'
  BY <1>a, <1>d DEF Finished
<1>4. SignatureSent'
  BY <1>1, <1>d DEF SignatureSent
<1>5. SignaturesAgree'
  BY <1>a, <1>b, <1>d DEF SignaturesAgree
<1>6. Challenged'
  BY <1>1 DEF LeaderFinish, Challenged, MaskFixed, Typed, TypeOK
<1>7. CommitSent'
  BY <1>1 DEF LeaderFinish, CommitSent, Typed, TypeOK
<1>8. CommitsFresh'
  BY <1>1 DEF LeaderFinish, CommitsFresh, cosimask, Typed, TypeOK
<1>9. ResponseSent'
  BY <1>1 DEF LeaderFinish, ResponseSent, Answered, Typed, TypeOK
<1>10. PartsBacked'
  BY <1>1 DEF LeaderFinish, PartsBacked, Answered, Typed, TypeOK
<1>11. ResponsesDistinct'
  BY <1>1 DEF LeaderFinish, ResponsesDistinct, responsemask, Typed, TypeOK
<1>12. SignatureBacked'
  <2> SUFFICES ASSUME NEW r \in Signed', CosiData'[r] # Nil
               PROVE  /\ DOMAIN CosiData'[r].commit \subseteq Nodes
                      /\ \A n \in DOMAIN CosiData'[r].commit :
                           /\ CosiData'[r].commit[n] = r
                           /\ CosiData'[r].parts[n] = Cosign(n, r)
                           /\ Answered(n, r)'
    BY DEF SignatureBacked
  <2>1. CASE r # round[Leader]
    BY <1>a, <1>b, <1>d, <2>1 DEF SignatureBacked, Answered, Signed
  <2>2. CASE r = round[Leader]
    <3>1. \A n \in cosimask : sigParts'[n] # None
      BY <1>b, <2>2 DEF AggregateSignature
    <3>2. CosiData'[r] = [commit |-> [n \in cosimask |-> commits[n]],
                          parts |-> [n \in cosimask |-> sigParts'[n]]]
      BY <1>b, <2>2, <3>1 DEF AggregateSignature, AggregateCommit
    <3>3. cosimask \subseteq Nodes /\ \A n \in cosimask : commits[n] = r
      BY <2>2 DEF cosimask, CommitsFresh
    <3>4. \A n \in Nodes : sigParts'[n] = IF n = Leader THEN Cosign(Leader, r) ELSE sigParts[n]
      BY <2>2 DEF LeaderFinish, Typed, TypeOK
    <3>5. \A n \in cosimask : sigParts'[n] = Cosign(n, r) /\ Answered(n, r)'
      BY <1>a, <2>2, <3>1, <3>3, <3>4 DEF PartsBacked, Answered
    <3> QED  BY <3>2, <3>3, <3>5
  <2> QED  BY <2>1, <2>2
<1> QED  BY <1>2, <1>3, <1>4, <1>5, <1>6, <1>7, <1>8, <1>9, <1>10, <1>11, <1>12

LEMMA InductiveSendOnClosed ==
  ASSUME Inductive, Typed', NEW k \in Channels, SendOnClosed(k)
  PROVE  Inductive'
<1> USE Ranges DEF Inductive
<1>1. /\ pc[Leader] \in {"idle", "commit", "panic"} /\ pc'[Leader] = "panic"
      /\ \A n \in Members : pc'[n] = pc[n]
      /\ UNCHANGED <<round, commits, signCount, sigParts, responseCount, CosiData, repSig, net>>
  BY DEF SendOnClosed, leaderVars, Typed, TypeOK, Places
<1>2. \A n \in Nodes, r \in 1..Rounds : Answered(n, r) => Answered(n, r)'
  BY <1>1 DEF Answered
<1>3. SignedPast' /\ Finished' /\ SignatureSent' /\ SignaturesAgree'
  BY <1>1 DEF SignedPast, Finished, SignatureSent, SignaturesAgree, Signed
<1>4. Challenged'
  BY <1>1 DEF Challenged, MaskFixed
<1>5. CommitSent'
  BY <1>1 DEF CommitSent
<1>6. CommitsFresh'
  BY <1>1 DEF CommitsFresh, cosimask
<1>7. ResponseSent'
  BY <1>1, <1>2 DEF ResponseSent
<1>8. PartsBacked'
  BY <1>1 DEF PartsBacked, Answered
<1>9. ResponsesDistinct'
  BY <1>1 DEF ResponsesDistinct
<1>10. SignatureBacked'
  BY <1>1, <1>2 DEF SignatureBacked, Signed
<1> QED  BY <1>3, <1>4, <1>5, <1>6, <1>7, <1>8, <1>9, <1>10

LEMMA InductiveHandleReqCosiSig ==
  ASSUME Inductive, Typed', NEW m \in Members, NEW r \in 1..Rounds, HandleReqCosiSig(m, r)
  PROVE  Inductive'
<1> USE Ranges DEF Inductive
<1>1. \A k, n, q : Message(k, n, q) \in net' =>
         Message(k, n, q) \in net \/ (k = "cosiSig" /\ n = m /\ q = r /\ r \in Signed)
  BY TakeNet, ReplyNet DEF HandleReqCosiSig
<1>2. SignedPast'
  BY <1>1 DEF HandleReqCosiSig, SignedPast, Signed, leaderVars
<1>3. Finished'
  BY <1>1 DEF HandleReqCosiSig, Finished, Signed, leaderVars
<1>4. SignatureSent'
  BY <1>1 DEF HandleReqCosiSig, SignatureSent, Signed, leaderVars
<1>5. SignaturesAgree'
  BY <1>1 DEF HandleReqCosiSig, SignaturesAgree, Signed, leaderVars
<1>6. Challenged'
  BY <1>1 DEF HandleReqCosiSig, Challenged, MaskFixed, leaderVars
<1>7. CommitSent'
  BY <1>1 DEF HandleReqCosiSig, CommitSent, leaderVars
<1>8. CommitsFresh'
  BY <1>1 DEF HandleReqCosiSig, CommitsFresh, cosimask, leaderVars
<1>9. ResponseSent'
  BY <1>1 DEF HandleReqCosiSig, ResponseSent, Answered, leaderVars
<1>10. PartsBacked'
  BY <1>1 DEF HandleReqCosiSig, PartsBacked, Answered, leaderVars
<1>11. ResponsesDistinct'
  BY <1>1 DEF HandleReqCosiSig, ResponsesDistinct, responsemask, leaderVars
<1>12. SignatureBacked'
  BY <1>1 DEF HandleReqCosiSig, SignatureBacked, Signed, Answered, leaderVars
<1> QED  BY <1>2, <1>3, <1>4, <1>5, <1>6, <1>7, <1>8, <1>9, <1>10, <1>11, <1>12

LEMMA InductiveMemberStart ==
  ASSUME Inductive, Typed', NEW m \in Members, MemberStart(m)
  PROVE  Inductive'
<1> USE Ranges DEF Inductive
<1>1. net' = net
  BY DEF MemberStart
<1>2. SignedPast'
  BY <1>1 DEF MemberStart, SignedPast, Signed, leaderVars, NextRound, Typed, TypeOK
<1>3. Finished'
  BY <1>1 DEF MemberStart, Finished, Signed, leaderVars, NextRound, Typed, TypeOK
<1>4. SignatureSent'
  BY <1>1 DEF MemberStart, SignatureSent, Signed, leaderVars, NextRound, Typed, TypeOK
<1>5. SignaturesAgree'
  BY <1>1 DEF MemberStart, SignaturesAgree, Signed, leaderVars, NextRound, Typed, TypeOK
<1>6. Challenged'
  BY <1>1 DEF MemberStart, Challenged, MaskFixed, leaderVars, NextRound, Typed, TypeOK
<1>7. CommitSent'
  BY <1>1 DEF MemberStart, CommitSent, leaderVars, NextRound, Typed, TypeOK
<1>8. CommitsFresh'
  BY <1>1 DEF MemberStart, CommitsFresh, cosimask, leaderVars, NextRound, Typed, TypeOK
<1>9. ResponseSent'
  BY <1>1 DEF MemberStart, ResponseSent, Answered, leaderVars, NextRound, Typed, TypeOK
<1>10. PartsBacked'
  BY <1>1 DEF MemberStart, PartsBacked, Answered, leaderVars, NextRound, Typed, TypeOK
<1>11. ResponsesDistinct'
  BY <1>1 DEF MemberStart, ResponsesDistinct, responsemask, leaderVars, NextRound, Typed, TypeOK
<1>12. SignatureBacked'
  BY <1>1 DEF MemberStart, SignatureBacked, Signed, Answered, leaderVars, NextRound, Typed, TypeOK
<1> QED  BY <1>2, <1>3, <1>4, <1>5, <1>6, <1>7, <1>8, <1>9, <1>10, <1>11, <1>12

LEMMA InductiveTakeAnnounce ==
  ASSUME Inductive, Typed', NEW m \in Members, TakeAnnounce(m)
  PROVE  Inductive'
<1> USE Ranges DEF Inductive
<1>1. \A k, n, q : Message(k, n, q) \in net' =>
         Message(k, n, q) \in net \/ (k = "cosiCommit" /\ n = m /\ q = round[m])
  BY ReplyNet DEF TakeAnnounce
<1>2. SignedPast'
  BY <1>1 DEF TakeAnnounce, SignedPast, Signed, leaderVars, Typed, TypeOK
<1>3. Finished'
  BY <1>1 DEF TakeAnnounce, Finished, Signed, leaderVars, Typed, TypeOK
<1>4. SignatureSent'
  BY <1>1 DEF TakeAnnounce, SignatureSent, Signed, leaderVars, Typed, TypeOK
<1>5. SignaturesAgree'
  BY <1>1 DEF TakeAnnounce, SignaturesAgree, Signed, leaderVars, Typed, TypeOK
<1>6. Challenged'
  BY <1>1 DEF TakeAnnounce, Challenged, MaskFixed, leaderVars, Typed, TypeOK
<1>7. CommitSent'
  BY <1>1 DEF TakeAnnounce, CommitSent, leaderVars, Typed, TypeOK
<1>8. CommitsFresh'
  BY <1>1 DEF TakeAnnounce, CommitsFresh, cosimask, leaderVars, Typed, TypeOK
<1>9. ResponseSent'
  BY <1>1 DEF TakeAnnounce, ResponseSent, Answered, leaderVars, Typed, TypeOK
<1>10. PartsBacked'
  BY <1>1 DEF TakeAnnounce, PartsBacked, Answered, leaderVars, Typed, TypeOK
<1>11. ResponsesDistinct'
  BY <1>1 DEF TakeAnnounce, ResponsesDistinct, responsemask, leaderVars, Typed, TypeOK
<1>12. SignatureBacked'
  BY <1>1 DEF TakeAnnounce, SignatureBacked, Signed, Answered, leaderVars, Typed, TypeOK
<1> QED  BY <1>2, <1>3, <1>4, <1>5, <1>6, <1>7, <1>8, <1>9, <1>10, <1>11, <1>12

LEMMA InductiveSkipAnnounce ==
  ASSUME Inductive, Typed', NEW m \in Members, NEW r \in 1..Rounds, SkipAnnounce(m, r)
  PROVE  Inductive'
<1> USE Ranges DEF Inductive
<1>1. \A k, n, q : Message(k, n, q) \in net' => Message(k, n, q) \in net
  BY TakeNet DEF SkipAnnounce
<1>2. SignedPast'
  BY <1>1 DEF SkipAnnounce, SignedPast, Signed, leaderVars
<1>3. Finished'
  BY <1>1 DEF SkipAnnounce, Finished, Signed, leaderVars
<1>4. SignatureSent'
  BY <1>1 DEF SkipAnnounce, SignatureSent, Signed, leaderVars
<1>5. SignaturesAgree'
  BY <1>1 DEF SkipAnnounce, SignaturesAgree, Signed, leaderVars
<1>6. Challenged'
  BY <1>1 DEF SkipAnnounce, Challenged, MaskFixed, leaderVars
<1>7. CommitSent'
  BY <1>1 DEF SkipAnnounce, CommitSent, leaderVars
<1>8. CommitsFresh'
  BY <1>1 DEF SkipAnnounce, CommitsFresh, cosimask, leaderVars
<1>9. ResponseSent'
  BY <1>1 DEF SkipAnnounce, ResponseSent, Answered, leaderVars
<1>10. PartsBacked'
  BY <1>1 DEF SkipAnnounce, PartsBacked, Answered, leaderVars
<1>11. ResponsesDistinct'
  BY <1>1 DEF SkipAnnounce, ResponsesDistinct, responsemask, leaderVars
<1>12. SignatureBacked'
  BY <1>1 DEF SkipAnnounce, SignatureBacked, Signed, Answered, leaderVars
<1> QED  BY <1>2, <1>3, <1>4, <1>5, <1>6, <1>7, <1>8, <1>9, <1>10, <1>11, <1>12

LEMMA InductiveResendCommit ==
  ASSUME Inductive, Typed', NEW m \in Members, NEW r \in 1..Rounds, ResendCommit(m, r)
  PROVE  Inductive'
<1> USE Ranges DEF Inductive
<1>1. \A k, n, q : Message(k, n, q) \in net' =>
         Message(k, n, q) \in net \/ (k = "cosiCommit" /\ n = m /\ q = round[m])
  BY ReplyNet DEF ResendCommit
<1>2. SignedPast'
  BY <1>1 DEF ResendCommit, SignedPast, Signed, leaderVars
<1>3. Finished'
  BY <1>1 DEF ResendCommit, Finished, Signed, leaderVars
<1>4. SignatureSent'
  BY <1>1 DEF ResendCommit, SignatureSent, Signed, leaderVars
<1>5. SignaturesAgree'
  BY <1>1 DEF ResendCommit, SignaturesAgree, Signed, leaderVars
<1>6. Challenged'
  BY <1>1 DEF ResendCommit, Challenged, MaskFixed, leaderVars
<1>7. CommitSent'
  BY <1>1 DEF ResendCommit, CommitSent, leaderVars
<1>8. CommitsFresh'
  BY <1>1 DEF ResendCommit, CommitsFresh, cosimask, leaderVars
<1>9. ResponseSent'
  BY <1>1 DEF ResendCommit, ResponseSent, Answered, leaderVars
<1>10. PartsBacked'
  BY <1>1 DEF ResendCommit, PartsBacked, Answered, leaderVars
<1>11. ResponsesDistinct'
  BY <1>1 DEF ResendCommit, ResponsesDistinct, responsemask, leaderVars
<1>12. SignatureBacked'
  BY <1>1 DEF ResendCommit, SignatureBacked, Signed, Answered, leaderVars
<1> QED  BY <1>2, <1>3, <1>4, <1>5, <1>6, <1>7, <1>8, <1>9, <1>10, <1>11, <1>12

LEMMA InductiveTakeChallenge ==
  ASSUME Inductive, Typed', NEW m \in Members, TakeChallenge(m)
  PROVE  Inductive'
<1> USE Ranges DEF Inductive
<1>1. /\ Message("cosiChallen", m, round[m]) \in net
      /\ \A k, n, q : Message(k, n, q) \in net' =>
        Message(k, n, q) \in net \/ (k = "cosiRespon" /\ n = m /\ q = round[m])
  BY ReplyNet DEF TakeChallenge
<1>a. /\ round' = round /\ pc[m] = "challenge" /\ pc'[m] = "sig" /\ round[m] \in 1..Rounds
      /\ \A n \in Nodes : n # m => pc'[n] = pc[n]
      /\ pc'[Leader] = pc[Leader]
      /\ commits' = commits /\ sigParts' = sigParts
  BY DEF TakeChallenge, Typed, TypeOK, Places, leaderVars
<1>2. SignedPast'
  BY <1>1 DEF TakeChallenge, SignedPast, Signed, leaderVars, Typed, TypeOK
<1>3. Finished'
  BY <1>1 DEF TakeChallenge, Finished, Signed, leaderVars, Typed, TypeOK
<1>4. SignatureSent'
  BY <1>1 DEF TakeChallenge, SignatureSent, Signed, leaderVars, Typed, TypeOK
<1>5. SignaturesAgree'
  BY <1>1 DEF TakeChallenge, SignaturesAgree, Signed, leaderVars, Typed, TypeOK
<1>6. Challenged'
  BY <1>1, <1>a DEF Challenged, MaskFixed
<1>7. CommitSent'
  BY <1>1 DEF TakeChallenge, CommitSent, leaderVars, Typed, TypeOK
<1>8. CommitsFresh'
  BY <1>1, <1>a DEF CommitsFresh, cosimask, Challenged, MaskFixed
<1>9. ResponseSent'
  <2>1. \A n \in Members, q \in 1..Rounds : Answered(n, q) => Answered(n, q)'
    BY <1>a DEF Answered
  <2>2. Answered(m, round[m])'
    BY <1>a DEF Answered
  <2>3. round[m] = round[Leader] => sigParts[m] = None
    BY <1>a DEF PartsBacked, Answered
  <2> QED  BY <1>1, <1>a, <2>1, <2>2, <2>3 DEF ResponseSent
<1>10. PartsBacked'
  BY <1>1 DEF TakeChallenge, PartsBacked, Answered, leaderVars, Typed, TypeOK
<1>11. ResponsesDistinct'
  BY <1>1 DEF TakeChallenge, ResponsesDistinct, responsemask, leaderVars, Typed, TypeOK
<1>12. SignatureBacked'
  BY <1>1 DEF TakeChallenge, SignatureBacked, Signed, Answered, leaderVars, Typed, TypeOK
<1> QED  BY <1>2, <1>3, <1>4, <1>5, <1>6, <1>7, <1>8, <1>9, <1>10, <1>11, <1>12

LEMMA InductiveSigTimeout ==
  ASSUME Inductive, Typed', NEW m \in Members, SigTimeout(m)
  PROVE  Inductive'
<1> USE Ranges DEF Inductive
<1>1. \A k, n, q : Message(k, n, q) \in net' =>
         Message(k, n, q) \in net \/ (k = "reqCosiSig" /\ n = m /\ q = round[m])
  <2>1. {Message("reqCosiSig", m, round[m])} = ToAll("reqCosiSig", {m}, round[m])
    BY DEF ToAll
  <2>2. Post(ToAll("reqCosiSig", {m}, round[m]))
    BY <2>1 DEF SigTimeout
  <2> QED  BY <2>2, PostNet
<1>2. SignedPast'
  BY <1>1 DEF SigTimeout, SignedPast, Signed, leaderVars
<1>3. Finished'
  BY <1>1 DEF SigTimeout, Finished, Signed, leaderVars
<1>4. SignatureSent'
  BY <1>1 DEF SigTimeout, SignatureSent, Signed, leaderVars
<1>5. SignaturesAgree'
  BY <1>1 DEF SigTimeout, SignaturesAgree, Signed, leaderVars
<1>6. Challenged'
  BY <1>1 DEF SigTimeout, Challenged, MaskFixed, leaderVars
<1>7. CommitSent'
  BY <1>1 DEF SigTimeout, CommitSent, leaderVars
<1>8. CommitsFresh'
  BY <1>1 DEF SigTimeout, CommitsFresh, cosimask, leaderVars
<1>9. ResponseSent'
  BY <1>1 DEF SigTimeout, ResponseSent, Answered, leaderVars
<1>10. PartsBacked'
  BY <1>1 DEF SigTimeout, PartsBacked, Answered, leaderVars
<1>11. ResponsesDistinct'
  BY <1>1 DEF SigTimeout, ResponsesDistinct, responsemask, leaderVars
<1>12. SignatureBacked'
  BY <1>1 DEF SigTimeout, SignatureBacked, Signed, Answered, leaderVars
<1> QED  BY <1>2, <1>3, <1>4, <1>5, <1>6, <1>7, <1>8, <1>9, <1>10, <1>11, <1>12

LEMMA InductiveTakeSig ==
  ASSUME Inductive, Typed', NEW m \in Members, NEW r \in 1..Rounds, TakeSig(m, r)
  PROVE  Inductive'
<1> USE Ranges DEF Inductive
<1>1. /\ Message("cosiSig", m, r) \in net
      /\ \A k, n, q : Message(k, n, q) \in net' => Message(k, n, q) \in net
  BY TakeNet DEF TakeSig
<1>2. SignedPast'
  BY <1>1 DEF TakeSig, SignedPast, Signed, leaderVars, SigOfRound, Typed, TypeOK
<1>3. Finished'
  <2>1. r = round[m] /\ r \in Signed
    BY <1>1 DEF TakeSig, SigOfRound, SignatureSent
  <2>2. /\ round' = round /\ CosiData' = CosiData
        /\ \A n \in Members : n # m => pc'[n] = pc[n]
    BY DEF TakeSig, leaderVars, Typed, TypeOK
  <2> QED  BY <2>1, <2>2 DEF Finished, Signed
<1>4. SignatureSent'
  BY <1>1 DEF TakeSig, SignatureSent, Signed, leaderVars, SigOfRound, Typed, TypeOK
<1>5. SignaturesAgree'
  BY <1>1 DEF TakeSig, SignaturesAgree, Signed, leaderVars, SigOfRound, Typed, TypeOK
<1>6. Challenged'
  BY <1>1 DEF TakeSig, Challenged, MaskFixed, leaderVars, SigOfRound, Typed, TypeOK
<1>7. CommitSent'
  BY <1>1 DEF TakeSig, CommitSent, leaderVars, SigOfRound, Typed, TypeOK
<1>8. CommitsFresh'
  BY <1>1 DEF TakeSig, CommitsFresh, cosimask, leaderVars, SigOfRound, Typed, TypeOK
<1>9. ResponseSent'
  BY <1>1 DEF TakeSig, ResponseSent, Answered, leaderVars, SigOfRound, Typed, TypeOK
<1>10. PartsBacked'
  BY <1>1 DEF TakeSig, PartsBacked, Answered, leaderVars, SigOfRound, Typed, TypeOK
<1>11. ResponsesDistinct'
  BY <1>1 DEF TakeSig, ResponsesDistinct, responsemask, leaderVars, SigOfRound, Typed, TypeOK
<1>12. SignatureBacked'
  BY <1>1 DEF TakeSig, SignatureBacked, Signed, Answered, leaderVars, SigOfRound, Typed, TypeOK
<1> QED  BY <1>2, <1>3, <1>4, <1>5, <1>6, <1>7, <1>8, <1>9, <1>10, <1>11, <1>12

LEMMA InductiveStep ==
  ASSUME Inductive, [Next]_vars
  PROVE  Inductive'
<1>1. Typed'
  BY TypedStep DEF Inductive
<1>2. CASE UNCHANGED vars
  <2>1. SignedPast' /\ Finished' /\ SignatureSent' /\ SignaturesAgree' /\ SignatureBacked'
    BY <1>2 DEF Inductive, vars, leaderVars, SignedPast, Finished, SignatureSent,
                SignaturesAgree, SignatureBacked, Signed, Answered
  <2>2. Challenged' /\ CommitSent' /\ CommitsFresh'
    BY <1>2 DEF Inductive, vars, leaderVars, Challenged, MaskFixed, CommitSent, CommitsFresh, cosimask
  <2>3. ResponseSent' /\ PartsBacked' /\ ResponsesDistinct'
    BY <1>2 DEF Inductive, vars, leaderVars, ResponseSent, PartsBacked, ResponsesDistinct,
                responsemask, Answered
  <2> QED  BY <1>1, <2>1, <2>2, <2>3 DEF Inductive
<1>3. CASE LeaderNext
  BY <1>1, <1>3, InductiveLeaderStart, InductiveTakeCommit, InductiveCommitTimeout,
     InductiveSendChallenge, InductiveTakeResponse, InductiveResponseTimeout,
     InductiveLeaderFinish, InductiveSendOnClosed,
     InductiveHandleReqCosiSig DEF LeaderNext
<1>4. ASSUME NEW m \in Members, MemberNext(m)
      PROVE  Inductive'
  BY <1>1, <1>4, InductiveMemberStart, InductiveTakeAnnounce, InductiveSkipAnnounce,
     InductiveResendCommit, InductiveTakeChallenge, InductiveSigTimeout,
     InductiveTakeSig DEF MemberNext
<1> QED  BY <1>2, <1>3, <1>4 DEF Next

(* The invariant is reached from the start and kept by every step; the     *)
(* theorems below read off it what the leader and the miners do            *)
(* (CoSiRepProtocol.go:18-302).                                            *)
THEOREM InductiveInvariant == Spec => []Inductive
BY InductiveInit, InductiveStep, PTL DEF Spec

(* The leader only combines commitments of its own round, each of a miner  *)
(* whose secret is still unused (CoSiRepProtocol.go:85-109).               *)
THEOREM CommitmentsOfTheRound == Spec => []CommitsFresh
<1>1. Inductive => CommitsFresh
  BY DEF Inductive
<1> QED  BY <1>1, InductiveInvariant, PTL

(* No response is counted twice, though challenges are sent again          *)
(* (CoSiRepProtocol.go:135-157).                                           *)
THEOREM ResponsesCountedOnce == Spec => []ResponsesDistinct
<1>1. Inductive => ResponsesDistinct
  BY DEF Inductive
<1> QED  BY <1>1, InductiveInvariant, PTL

(* All miners store the leader's signature of the round with their block   *)
(* of that round (CoSiRepProtocol.go:276-292, 377-391).                    *)
THEOREM OneSignaturePerRound == Spec => []SignaturesAgree
<1>1. Inductive => SignaturesAgree
  BY DEF Inductive
<1> QED  BY <1>1, InductiveInvariant, PTL

(* A stored signature verifies at a miner exactly when enough nodes signed *)
(* and each of them answered in that round with that miner's block         *)
(* (CoSiRepProtocol.go:269, 288; cosi/verify.go:73-89).                    *)
THEOREM ValidWhenUnanimous == Spec => []ValidIffUnanimous
<1>1. Inductive => ValidIffUnanimous
  <2> SUFFICES ASSUME Inductive, NEW m \in Members, NEW r \in 1..Rounds,
                      repSig[m][r] \notin {None, Nil}
               PROVE  Verify(BlockHash(m, r), repSig[m][r]) <=>
                        /\ 2 * Cardinality(DOMAIN repSig[m][r].commit) >= ShardSize - 1
                        /\ \A n \in DOMAIN repSig[m][r].commit :
                             BlockHash(n, r) = BlockHash(m, r) /\ Answered(n, r)
    BY DEF ValidIffUnanimous
  <2> DEFINE sig == repSig[m][r]
             mask == DOMAIN sig.commit
  <2>1. r \in Signed /\ sig = CosiData[r] /\ sig # Nil
    BY DEF Inductive, SignaturesAgree
  <2>2. /\ mask \subseteq Nodes
        /\ \A n \in mask : sig.commit[n] = r /\ sig.parts[n] = Cosign(n, r) /\ Answered(n, r)
    BY <2>1 DEF Inductive, SignatureBacked
  <2>3. IsFiniteSet(mask) /\ Cardinality(mask) \in Nat
    <3>1. IsFiniteSet(Nodes)
      BY ShardAssumption, FS_AddElement, FS_Singleton, FS_Union DEF Nodes
    <3> QED  BY <2>2, <3>1, FS_Subset, FS_CardinalityType
  <2>4. PolicyCheck(mask) <=> 2 * Cardinality(mask) >= ShardSize - 1
    BY <2>3, ShardSizeType DEF PolicyCheck
  <2>5. \A n \in mask :
          sig.parts[n] = [commit |-> sig.commit[n], hash |-> BlockHash(m, r)]
            <=> BlockHash(n, r) = BlockHash(m, r)
    <3>1. ASSUME NEW h, NEW g
          PROVE  [commit |-> r, hash |-> h] = [commit |-> r, hash |-> g] <=> h = g
      OBVIOUS
    <3> QED  BY <2>2, <3>1, Zenon DEF Cosign
  <2> QED  BY <2>1, <2>2, <2>4, <2>5 DEF Verify
<1> QED  BY <1>1, InductiveInvariant, PTL
=============================================================================
