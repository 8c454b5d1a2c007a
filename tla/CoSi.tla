-------------------------------- MODULE CoSi --------------------------------
(***************************************************************************)
(* Collective signing of reputation blocks (CoSiRepProtocol.go, with the   *)
(* library Reputation/cosi).  In each round the leader announces the hash  *)
(* of its block, the miners commit to one-time secrets, the leader fixes   *)
(* who takes part and sends a challenge, the miners answer with their      *)
(* parts, and the leader combines the parts into a signature that every    *)
(* miner stores with its block, asking again for it as long as needed.     *)
(***************************************************************************)
EXTENDS Integers, FiniteSets

CONSTANTS Members,    \* the miners of the shard
          Leader,     \* its leader
          Divergent,  \* miners whose reputation block differs from the leader's
          Lossy,      \* miners whose messages may be lost at once
          Rounds,     \* reputation blocks of the epoch
          Timeouts,   \* turns without a commit after which the leader goes on
          None,       \* nothing there
          Nil         \* what AggregateSignature returns when a part is missing

ASSUME ShardAssumption == IsFiniteSet(Members) /\ Leader \notin Members
ASSUME DivergentAssumption == Divergent \subseteq Members /\ Lossy \subseteq Members
ASSUME RoundsAssumption == Rounds \in Nat /\ Timeouts \in Nat \ {0}

Nodes == Members \union {Leader}
ShardSize == Cardinality(Members) + 1

-----------------------------------------------------------------------------
(* The cosi library.  A node makes one commitment per round and signs with *)
(* it once, so a commitment is the round it was made in.  A mask is the    *)
(* set of the nodes whose bit is Enabled.                                  *)

\* The hash of the reputation block node n has mined in round r.
BlockHash(n, r) == <<r, n \in Divergent>>

\* Mistake: the miner signs the hash the leader announced.
CosignAnnounced(n, r) == [commit |-> r, hash |-> BlockHash(Leader, r)]

\* What Cosign makes: node n signs the hash of its own block.
Cosign(n, r) == [commit |-> r, hash |-> BlockHash(n, r)]

Part == [commit : 1..Rounds, hash : (1..Rounds) \X BOOLEAN]

Signature == UNION {[commit : [S -> 1..Rounds], parts : [S -> Part]] : S \in SUBSET Nodes}

ASSUME NoneAssumption == None \notin (1..Rounds) \union Part \union Signature \union {Nil}

\* The commitments of the nodes the mask enables.
AggregateCommit(commit, mask) == [n \in mask |-> commit[n]]

\* The parts of the nodes the mask enables, under their joint commitment.
AggregateSignature(commit, parts, mask) ==
  IF \E n \in mask : parts[n] = None
    THEN Nil
    ELSE [commit |-> AggregateCommit(commit, mask),
          parts |-> [n \in mask |-> parts[n]]]

\* ThresholdPolicy: at least half of the shard is enabled.
PolicyCheck(mask) == Cardinality(mask) >= ShardSize \div 2

\* A signature verifies for a hash when every enabled node signed that hash
\* with the secret of the commitment it gave.
Verify(hash, sig) ==
  /\ sig # Nil
  /\ PolicyCheck(DOMAIN sig.commit)
  /\ \A n \in DOMAIN sig.commit :
       sig.parts[n] = [commit |-> sig.commit[n], hash |-> hash]

-----------------------------------------------------------------------------
VARIABLES
  round,          \* CurrentRepBlock.Round of each node, 0 before the first
  pc,             \* where each node's CoSi process waits, "idle" between two,
                  \* "panic" once the leader's program has ended
  commits,        \* the leader's commits, None where cosimask is Disabled
  signCount,      \* commits the leader has counted, itself included
  cnt,            \* time-outs of the commit phase
  sigParts,       \* the leader's sigParts, None where responsemask is Disabled
  responseCount,  \* responses the leader has counted, itself included
  CosiData,       \* the signatures the leader has made, by round
  late,           \* closed channels of the leader that a handler is about to send
                  \* on, with a message of the round before
  repSig,         \* repSig[m][r]: the Cosig a miner stored with its block r
  net             \* messages under way, or in a handler waiting on its channel

leaderVars == <<commits, signCount, cnt, sigParts, responseCount, CosiData, late>>
vars == <<round, pc, leaderVars, repSig, net>>

\* A message between the leader and the miner `node'; a cosiSig stands for
\* the leader's signature of that round, which never changes.
Kinds == {"cosiAnnoun", "cosiCommit", "cosiChallen", "cosiRespon",
          "reqCosiSig", "cosiSig"}
Msg == [kind : Kinds, node : Members, round : 1..Rounds]
Message(k, m, r) == [kind |-> k, node |-> m, round |-> r]
ToAll(k, S, r) == {Message(k, m, r) : m \in S}

cosimask == {n \in Nodes : commits[n] # None}
Signed == {r \in 1..Rounds : CosiData[r] # None}
responsemask == {Leader} \union {n \in Members : sigParts[n] # None}

Init ==
  /\ round = [n \in Nodes |-> 0]
  /\ pc = [n \in Nodes |-> "idle"]
  /\ commits = [n \in Nodes |-> None]
  /\ signCount = 0
  /\ cnt = 0
  /\ sigParts = [n \in Nodes |-> None]
  /\ responseCount = 0
  /\ CosiData = [r \in 1..Rounds |-> None]
  /\ late = {}
  /\ repSig = [m \in Members |-> [r \in 1..Rounds |-> None]]
  /\ net = {}

\* What may arrive of the messages S: sendData dials once, and a message to
\* or from a miner of Lossy is lost when that fails.
Arriving(S) == {T \in SUBSET S : \A msg \in S \ T : msg.node \in Lossy}

Post(S) == \E T \in Arriving(S) : net' = net \union T

\* A handler takes msg and the messages S go out.
Exchange(msg, S) ==
  /\ msg \in net
  /\ \E T \in Arriving(S) : net' = (net \ {msg}) \union T

\* MineRepBlock: the node's next round begins once its last one is over.
NextRound(n, to) ==
  /\ pc[n] = "idle"
  /\ round[n] < Rounds
  /\ round' = [round EXCEPT ![n] = @ + 1]
  /\ pc' = [pc EXCEPT ![n] = to]

-----------------------------------------------------------------------------
(* The leader.                                                             *)

\* The channels the leader's two handlers send on.  They are closed at the end
\* of a round and made again as the next one announces and challenges: what a
\* handler still holds of an earlier round is then read and dropped.
Channels == {"cosiCommit", "cosiRespon"}

LeaderStart ==
  /\ NextRound(Leader, "commit")
  /\ commits' = [n \in Nodes |-> IF n = Leader THEN round'[Leader] ELSE None]
  /\ sigParts' = [n \in Nodes |-> None]
  /\ signCount' = 1
  /\ cnt' = 0
  /\ responseCount' = 0
  /\ Post(ToAll("cosiAnnoun", Members, round'[Leader]))
  /\ late' = late \ {"cosiCommit"}
  /\ UNCHANGED <<CosiData, repSig>>

Collecting == pc[Leader] = "commit" /\ cnt < Timeouts /\ signCount < ShardSize

\* Mistake: a message of any round is counted.
CurrentAny(r) == r \in 1..Rounds

\* The round a message must carry to be counted by the leader.
Current(r) == r = round[Leader]

\* A commitment is counted each time it arrives.
TakeCommit(m, r) ==
  /\ Collecting
  /\ Exchange(Message("cosiCommit", m, r), {})
  /\ Current(r)
  /\ commits' = [commits EXCEPT ![m] = r]
  /\ signCount' = signCount + 1
  /\ UNCHANGED <<round, pc, cnt, sigParts, responseCount, CosiData, late, repSig>>

\* Mistake: the turn is not counted.
CommitTimeoutUncounted ==
  /\ Collecting
  /\ Post(ToAll("cosiAnnoun", Members \ cosimask, round[Leader]))
  /\ UNCHANGED <<round, pc, leaderVars, repSig>>

CommitTimeout ==
  /\ Collecting
  /\ cnt' = cnt + 1
  /\ Post(ToAll("cosiAnnoun", Members \ cosimask, round[Leader]))
  /\ UNCHANGED <<round, pc, commits, signCount, sigParts, responseCount,
                 CosiData, late, repSig>>

\* The mask is fixed and its miners are challenged.
SendChallenge ==
  /\ pc[Leader] = "commit"
  /\ ~Collecting
  /\ pc' = [pc EXCEPT ![Leader] = "respond"]
  /\ responseCount' = 1
  /\ late' = {}
  /\ Post(ToAll("cosiChallen", cosimask \ {Leader}, round[Leader]))
  /\ UNCHANGED <<round, commits, signCount, cnt, sigParts, CosiData, repSig>>

Responding == pc[Leader] = "respond" /\ responseCount < signCount

TakeResponse(m, r) ==
  /\ Responding
  /\ Exchange(Message("cosiRespon", m, r), {})
  /\ Current(r)
  /\ sigParts' = [sigParts EXCEPT ![m] = Cosign(m, r)]
  /\ responseCount' = responseCount + 1
  /\ UNCHANGED <<round, pc, commits, signCount, cnt, CosiData, late, repSig>>

\* The challenge goes again to every miner that has not answered it, among
\* them those the mask does not name.
ResponseTimeout ==
  /\ Responding
  /\ Post(ToAll("cosiChallen", Members \ responsemask, round[Leader]))
  /\ UNCHANGED <<round, pc, leaderVars, repSig>>

\* Both channels are closed; a handler may then be past CoSiFlag and the round
\* check with a message of this round that nobody will read.
LeaderFinish ==
  /\ pc[Leader] = "respond"
  /\ ~Responding
  /\ sigParts' = [sigParts EXCEPT ![Leader] = Cosign(Leader, round[Leader])]
  /\ CosiData' = [CosiData EXCEPT ![round[Leader]] =
                    AggregateSignature(commits, sigParts', cosimask)]
  /\ Post(ToAll("cosiSig", cosimask \ {Leader}, round[Leader]))
  /\ pc' = [pc EXCEPT ![Leader] = "idle"]
  /\ late' \in SUBSET {k \in Channels :
                      \E m \in Members : Message(k, m, round[Leader]) \in net}
  /\ UNCHANGED <<round, commits, signCount, cnt, responseCount, repSig>>

\* Such a handler sends at last.  Nothing recovers from the panic of a send on
\* a closed channel, so the leader's program ends.
SendOnClosed(k) ==
  /\ k \in late
  /\ pc[Leader] # "panic"
  /\ pc' = [pc EXCEPT ![Leader] = "panic"]
  /\ UNCHANGED <<round, leaderVars, repSig, net>>

\* Mistake: only a miner the mask names is answered.
HandleReqCosiSigMasked(m, r) ==
  /\ pc[Leader] # "panic"
  /\ Exchange(Message("reqCosiSig", m, r),
              IF r \in Signed /\ m \in cosimask THEN {Message("cosiSig", m, r)} ELSE {})
  /\ UNCHANGED <<round, pc, leaderVars, repSig>>

HandleReqCosiSig(m, r) ==
  /\ pc[Leader] # "panic"
  /\ Exchange(Message("reqCosiSig", m, r),
              IF r \in Signed THEN {Message("cosiSig", m, r)} ELSE {})
  /\ UNCHANGED <<round, pc, leaderVars, repSig>>

-----------------------------------------------------------------------------
(* A miner.                                                                *)

MemberStart(m) ==
  /\ NextRound(m, "announce")
  /\ UNCHANGED <<leaderVars, repSig, net>>

\* A block that differs from the announced one is signed all the same.
TakeAnnounce(m) ==
  /\ pc[m] = "announce"
  /\ Exchange(Message("cosiAnnoun", m, round[m]),
              {Message("cosiCommit", m, round[m])})
  /\ pc' = [pc EXCEPT ![m] = "challenge"]
  /\ UNCHANGED <<round, leaderVars, repSig>>

\* An announcement of another round is read and dropped.
SkipAnnounce(m, r) ==
  /\ pc[m] = "announce"
  /\ r # round[m]
  /\ Exchange(Message("cosiAnnoun", m, r), {})
  /\ UNCHANGED <<round, pc, leaderVars, repSig>>

\* While it waits for the challenge any announcement, of whatever round,
\* makes the miner send its commitment again.
ResendCommit(m, r) ==
  /\ pc[m] = "challenge"
  /\ Exchange(Message("cosiAnnoun", m, r), {Message("cosiCommit", m, round[m])})
  /\ UNCHANGED <<round, pc, leaderVars, repSig>>

\* Mistake: a challenge sent again is answered again.
TakeChallengeAgain(m) ==
  /\ pc[m] \in {"challenge", "sig"}
  /\ Exchange(Message("cosiChallen", m, round[m]),
              {Message("cosiRespon", m, round[m])})
  /\ pc' = [pc EXCEPT ![m] = "sig"]
  /\ UNCHANGED <<round, leaderVars, repSig>>

\* The miner answers one challenge per round: its secret is used up then.
TakeChallenge(m) ==
  /\ pc[m] = "challenge"
  /\ Exchange(Message("cosiChallen", m, round[m]),
              {Message("cosiRespon", m, round[m])})
  /\ pc' = [pc EXCEPT ![m] = "sig"]
  /\ UNCHANGED <<round, leaderVars, repSig>>

SigTimeout(m) ==
  /\ pc[m] = "sig"
  /\ Post({Message("reqCosiSig", m, round[m])})
  /\ UNCHANGED <<round, pc, leaderVars, repSig>>

\* Mistake: the signature of any round is taken.
SigOfRoundAny(m, r) == r \in 1..Rounds

\* The signatures a miner that waits in its round accepts.
SigOfRound(m, r) == r = round[m]

\* The signature is stored whether it verifies or not.
TakeSig(m, r) ==
  /\ pc[m] = "sig"
  /\ Exchange(Message("cosiSig", m, r), {})
  /\ SigOfRound(m, r)
  /\ repSig' = [repSig EXCEPT ![m][round[m]] = CosiData[r]]
  /\ pc' = [pc EXCEPT ![m] = "idle"]
  /\ UNCHANGED <<round, leaderVars>>

-----------------------------------------------------------------------------
LeaderNext ==
  \/ LeaderStart
  \/ CommitTimeout
  \/ SendChallenge
  \/ ResponseTimeout
  \/ LeaderFinish
  \/ \E k \in Channels : SendOnClosed(k)
  \/ \E m \in Members, r \in 1..Rounds :
       TakeCommit(m, r) \/ TakeResponse(m, r) \/ HandleReqCosiSig(m, r)

MemberNext(m) ==
  \/ MemberStart(m)
  \/ TakeAnnounce(m)
  \/ TakeChallenge(m)
  \/ SigTimeout(m)
  \/ \E r \in 1..Rounds : SkipAnnounce(m, r) \/ ResendCommit(m, r) \/ TakeSig(m, r)

Next == LeaderNext \/ \E m \in Members : MemberNext(m)

Spec == Init /\ [][Next]_vars

\* The leader's select and time-outs keep running.  Of the messages of one
\* kind to one miner that are sent again and again, one arrives; so the two
\* steps of asking for the signature are fair in their form that arrives.
FairSpec ==
  /\ Spec
  /\ WF_vars(CommitTimeout)
  /\ WF_vars(SendChallenge)
  /\ \A m \in Members :
       /\ SF_vars(SigTimeout(m) /\ Message("reqCosiSig", m, round[m]) \in net')
       /\ \A r \in 1..Rounds :
            /\ SF_vars(HandleReqCosiSig(m, r) /\ Message("cosiSig", m, r) \in net')
            /\ WF_vars(TakeSig(m, r))

-----------------------------------------------------------------------------
(* Properties.                                                             *)

Answered(n, r) == \/ round[n] > r
                  \/ round[n] = r /\ pc[n] \in {"respond", "sig", "idle", "panic"}

\* Types of the state: rounds and counts within their bounds, the parts and
\* signatures well formed, only messages of the protocol under way
\* (CoSiRepProtocol.go, the declarations of both processes).
TypeOK ==
  /\ round \in [Nodes -> 0..Rounds]
  /\ pc \in [Nodes -> {"idle", "commit", "respond", "announce", "challenge", "sig", "panic"}]
  /\ commits \in [Nodes -> (1..Rounds) \union {None}]
  /\ signCount \in 0..ShardSize /\ responseCount \in 0..signCount
  /\ cnt \in 0..Timeouts
  /\ sigParts \in [Nodes -> Part \union {None}]
  /\ CosiData \in [1..Rounds -> Signature \union {None, Nil}]
  /\ late \subseteq Channels
  /\ repSig \in [Members -> [1..Rounds -> Signature \union {None, Nil}]]
  /\ net \subseteq Msg

\* The commitments the leader combines are all of its round, and until it
\* fixes the mask each of their miners still waits for the challenge with its
\* secret unused: a commitment of an earlier round that is resent late is
\* never taken for a new one (CoSiRepProtocol.go:89, 256-258).
CommitsFresh ==
  /\ \A n \in cosimask : commits[n] = round[Leader]
  /\ pc[Leader] = "commit" =>
       \A n \in cosimask \ {Leader} : round[n] = round[Leader] /\ pc[n] = "challenge"

\* The leader counts every response once: as many as it has parts, though it
\* sends the challenge again and does not look at the mask when it counts
\* (CoSiRepProtocol.go:135-142).
ResponsesDistinct ==
  pc[Leader] = "respond" => responseCount = Cardinality(responsemask)

\* The miners store the same signature with the same block: the one the
\* leader made in that round, however often it was asked for and resent
\* (CoSiRepProtocol.go:276-292).
SignaturesAgree ==
  \A m \in Members, r \in 1..Rounds :
    repSig[m][r] # None => r \in Signed /\ repSig[m][r] = CosiData[r]

\* A signature verifies at a miner exactly when enough nodes signed and all of
\* them have that miner's block and answered in that round: one that differs
\* and signs all the same spoils it for everybody, and none is accepted for a
\* block some named node does not have (CoSiRepProtocol.go:234, 269, 288).
ValidIffUnanimous ==
  \A m \in Members, r \in 1..Rounds :
    repSig[m][r] \notin {None, Nil} =>
      LET mask == DOMAIN repSig[m][r].commit
      IN  Verify(BlockHash(m, r), repSig[m][r]) <=>
            /\ 2 * Cardinality(mask) >= ShardSize - 1
            /\ \A n \in mask : BlockHash(n, r) = BlockHash(m, r) /\ Answered(n, r)

\* A miner that has answered gets the signature once the leader has made it,
\* though the leader's message and any number of requests are lost, unless the
\* leader's program ends: a commitment or a response that a handler still holds
\* when the channels are closed ends it (CoSiRepProtocol.go:180-181, 282-284,
\* 350, 372, 377-391).
SigFetched ==
  \A m \in Members, r \in 1..Rounds :
    r \in Signed /\ round[m] = r /\ pc[m] = "sig"
      ~> repSig[m][r] # None \/ pc[Leader] = "panic"

\* The leader does not wait for commitments for ever: unlike the first phase
\* of the reputation gossip, this loop counts its time-outs; only a response
\* of the round before, held until its channel was closed, can end the leader
\* in it (CoSiRepProtocol.go:85-109, 372).
CommitPhaseEnds == pc[Leader] = "commit" ~> pc[Leader] \in {"respond", "panic"}
=============================================================================
