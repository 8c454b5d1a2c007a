-------------------------------- MODULE Votes --------------------------------
(***************************************************************************)
(* The votes of the miners on the lists of their leader: how a vote is     *)
(* made and signed (ProcessTL, TxDecision), found its list again and       *)
(* counted (HandleTxDecLeader, UpdateTXCache), and what a member that gets *)
(* the decision set can read from it (PreTxDecision, ResultMiner).  Votes  *)
(* are handled in any order, twice, and in the epoch after theirs.         *)
(*                                                                         *)
(* A hash is what it is of; all the lists of a process have the same       *)
(* transactions (Ready), so a list is told by its round and their number.  *)
(* A signature is its signer and what was signed.                          *)
(***************************************************************************)
EXTENDS Integers, Sequences, FiniteSets

CONSTANTS
  Voters,         \* the miners
  Targets,        \* 0 .. ShardCnt-1; the code of this version is for {0}
  Here,           \* ShardNum of the leader and the miners
  DecBits,        \* bits of a byte of Decision
  Sizes,          \* possible numbers of transactions in Ready
  ListsPerEpoch,  \* NumTxListPerEpoch
  Copies,         \* bound: copies of a list past the unlocked TLCheck at once
  VotesUnderWay   \* bound: votes under way

ASSUME VotesAssumption ==
  /\ Here \in Targets /\ Targets \subseteq Nat /\ 0 \in Targets
  /\ DecBits \in Nat \ {0} /\ Sizes \subseteq Nat
  /\ ListsPerEpoch \in Nat \ {0}
  /\ Copies \in Nat /\ VotesUnderWay \in Nat

\* gVar.ShardCnt = 1: votes of shards without transactions of their own
\* would not be made again as they were signed.
ASSUME OneShard == Targets = {0}

VARIABLES
  readySize,   \* len(Ready)
  TLRound, PrevHeight,
  Now,         \* the TLGroup that is filled, <<>> for nil
  TLIndex,     \* hash of a list to its TLGroup
  lists,       \* the lists sent
  tlCheck,     \* TLCheck of every miner, as the set of those lists
  votes,       \* TxDec messages under way
  signals,     \* number of signals sent to TLChan[x] in this epoch
  refused      \* history: the votes of this epoch UpdateTXCache gave an error for

votVars == <<readySize, TLRound, PrevHeight, Now, TLIndex, lists, tlCheck,
             votes, signals, refused>>

Rounds == 0 .. ListsPerEpoch - 1
Gap == ListsPerEpoch + 3
ListHash(round, size) == <<round, size>>

----------------------------------------------------------------------------
(* TxDecision *)

NewDecision(id, target, single) ==
  [ID |-> id, TxCnt |-> 0, Target |-> target, Single |-> single,
   HashID |-> << >>, Decision |-> << >>, Sig |-> << >>]

\* 1 << k
Bit[k \in Nat] == IF k = 0 THEN 1 ELSE 2 * Bit[k - 1]

AddAt(d, x, shift) ==
  LET bytes == IF d.TxCnt % DecBits = 0 THEN Append(d.Decision, 0)
                                        ELSE d.Decision
  IN  [d EXCEPT !.TxCnt = @ + 1,
                !.Decision = [bytes EXCEPT ![Len(bytes)] = @ + x * Bit[shift]]]

\* Mistake: the first decision is in the highest bit.
AddHighFirst(d, x) == AddAt(d, x, DecBits - 1 - (d.TxCnt % DecBits))

Add(d, x) == AddAt(d, x, d.TxCnt % DecBits)

\* What Add makes of d for x[1] to x[n], one after the other.
AddAll(d, n, x) ==
  LET upTo[k \in 0..n] == IF k = 0 THEN d ELSE Add(upTo[k - 1], x[k])
  IN  upTo[n]

\* Decision[i / 8] >> (i % 8) & 1
BitOf(bytes, i) == (bytes[i \div DecBits + 1] \div Bit[i % DecBits]) % 2

\* Sign and Verify leave out TxCnt, Target and Single.
Signature(d) == <<d.ID, d.HashID, d.Decision>>
Verifies(d, x) == x \in DOMAIN d.Sig /\ d.Sig[x] = Signature(d)

\* What Decode makes of Encode's bytes: HashID is not sent with Single = 1.
Decoded(d) == IF d.Single = 1 THEN [d EXCEPT !.HashID = << >>] ELSE d

PreTxDecision(b, hash) ==
  LET d == IF b.Single = 0 THEN b ELSE [b EXCEPT !.HashID = hash]
  IN  /\ d.TxCnt <= Len(d.Decision) * DecBits
      /\ d.Target = Here
      /\ DOMAIN d.Sig = IF d.Single = 0 THEN Targets ELSE {0}
      /\ Verifies(d, IF d.Single = 0 THEN Here ELSE 0)

----------------------------------------------------------------------------
(* The leader's lists *)

TLGroup(round) ==
  [TLS |-> [i \in Targets |->
              [Round |-> round, TxCnt |-> IF i = Here THEN readySize ELSE 0,
               HashID |-> << >>]],
   TDS |-> [i \in Targets |-> [HashID |-> << >>, TxCnt |-> 0, MemD |-> << >>]]]

\* TxDecSet.Set: the set of the own shard has no TxArray.
TxDecSet(l, own) ==
  [HashID |-> l.HashID, TxCnt |-> IF own THEN 0 ELSE l.TxCnt, MemD |-> << >>]

BuildTDS(g) ==
  LET tls == [i \in Targets |->
                [g.TLS[i] EXCEPT
                   !.HashID = ListHash(g.TLS[i].Round, g.TLS[i].TxCnt)]]
  IN  [TLS |-> tls, TDS |-> [i \in Targets |-> TxDecSet(tls[i], i = Here)]]

VotInit ==
  /\ readySize \in Sizes
  /\ TLRound = 0 /\ PrevHeight = 0
  /\ Now = << >> /\ TLIndex = << >>
  /\ lists = {} /\ tlCheck = [m \in Voters |-> {}]
  /\ votes = {} /\ signals = [x \in Rounds |-> 0] /\ refused = {}

(* TxGeneralLoop: the first NewTxList of an epoch. *)
FirstTxList ==
  /\ Now = << >>
  /\ Now' = TLGroup(TLRound)
  /\ UNCHANGED <<readySize, TLRound, PrevHeight, TLIndex, lists, tlCheck,
                 votes, signals, refused>>

(* TxListProcess up to its Unlock: BuildTDS, send, NewTxList.  TLCheck and   *)
(* TLSCache are indexed by the round itself: in the second epoch that is    *)
(* out of the arrays and ends the leader's process.                         *)
TxListProcess ==
  /\ Now # << >> /\ TLRound < ListsPerEpoch
  /\ LET g == BuildTDS(Now)
         l == g.TLS[Here]
     IN  /\ TLIndex' = [h \in DOMAIN TLIndex \cup {l.HashID} |->
                          IF h = l.HashID THEN g ELSE TLIndex[h]]
         /\ lists' = lists \cup {l}
  /\ TLRound' = TLRound + 1
  /\ Now' = TLGroup(TLRound + 1)
  /\ UNCHANGED <<readySize, PrevHeight, tlCheck, votes, signals, refused>>

----------------------------------------------------------------------------
(* ProcessTL: all transactions are voted for, with a signature for each     *)
(* shard; only the decision for shard 0 is given the transactions.          *)
ForShard(m, l, i) ==
  LET size == IF i = 0 THEN l.TxCnt ELSE 0
      d == AddAll(NewDecision(m, i, 1), size, [k \in 1..size |-> 1])
  IN  [d EXCEPT !.HashID = ListHash(l.Round, size)]

ProcessTL(m, l) ==
  LET d == AddAll(NewDecision(m, Here, 0), l.TxCnt, [k \in 1..l.TxCnt |-> 1])
  IN  [d EXCEPT !.HashID = l.HashID,
                !.Sig = [i \in Targets |-> Signature(ForShard(m, l, i))]]

(* HandleTxList, for copies of the list that pass the unlocked check        *)
(* together.  A list of an epoch before, whose index would be negative,     *)
(* ends the handler's process.                                              *)
HandleTxList(m, l, copies) ==
  /\ l.Round >= PrevHeight /\ l \notin tlCheck[m]
  /\ Cardinality(votes) + copies <= VotesUnderWay
  /\ tlCheck' = [tlCheck EXCEPT ![m] = @ \cup {l}]
  /\ votes' = votes \cup {[copy |-> c, dec |-> ProcessTL(m, l)] : c \in 1..copies}
  /\ UNCHANGED <<readySize, TLRound, PrevHeight, Now, TLIndex, lists, signals,
                 refused>>

\* Mistake: y < 8 instead of y < 7, so the next byte begins one bit late.
RebuiltOneLate(a, g, i) ==
  AddAll([NewDecision(a.ID, i, 1) EXCEPT
            !.HashID = g.TLS[i].HashID, !.Sig = [z \in {0} |-> a.Sig[i]]],
         g.TLS[Here].TxCnt,
         [k \in 1..g.TLS[Here].TxCnt |->
            (a.Decision[(k - 1) \div (DecBits + 1) + 1]
               \div Bit[(k - 1) % (DecBits + 1)]) % 2])

\* The decision for a shard is made again from the vote.
Rebuilt(a, g, i) ==
  AddAll([NewDecision(a.ID, i, 1) EXCEPT
            !.HashID = g.TLS[i].HashID, !.Sig = [z \in {0} |-> a.Sig[i]]],
         g.TLS[Here].TxCnt,
         [k \in 1..g.TLS[Here].TxCnt |-> BitOf(a.Decision, k - 1)])

UpdateTXCache(g, a) ==
  [g EXCEPT !.TDS = [i \in Targets |->
     [g.TDS[i] EXCEPT !.MemD = Append(@, Rebuilt(a, g, i))]]]

Index(g) == g.TLS[Here].Round - PrevHeight

Takes(a) ==
  /\ a.HashID \in DOMAIN TLIndex
  /\ \A i \in Targets : Verifies(Rebuilt(a, TLIndex[a.HashID], i), 0)

(* HandleTxDecLeader: what PreTxDecision says is only printed; a vote whose *)
(* list is not found is counted for round 0.                                *)
HandleTxDecLeader(v) ==
  LET a == Decoded(v.dec)
      x == IF a.HashID \in DOMAIN TLIndex THEN Index(TLIndex[a.HashID]) ELSE 0
  IN  /\ votes' = votes \ {v}
      /\ signals' = [signals EXCEPT ![x] = @ + 1]
      /\ IF Takes(a)
           THEN /\ TLIndex' = [TLIndex EXCEPT ![a.HashID] = UpdateTXCache(@, a)]
                /\ UNCHANGED refused
           ELSE refused' = refused \cup {v} /\ UNCHANGED TLIndex
      /\ UNCHANGED <<readySize, TLRound, PrevHeight, Now, lists, tlCheck>>

(* ShardProcess of the next epoch: PrevHeight and Clear. *)
NextEpoch ==
  /\ TLRound - PrevHeight = ListsPerEpoch
  /\ PrevHeight' = PrevHeight + Gap
  /\ TLRound' = TLRound + 3
  /\ Now' = << >> /\ TLIndex' = << >>
  /\ tlCheck' = [m \in Voters |-> {}]
  /\ signals' = [x \in Rounds |-> 0] /\ refused' = {}
  /\ UNCHANGED <<readySize, lists, votes>>

VotNext ==
  \/ FirstTxList
  \/ TxListProcess
  \/ \E m \in Voters, l \in lists, k \in 1..Copies : HandleTxList(m, l, k)
  \/ \E v \in votes : HandleTxDecLeader(v)
  \/ NextEpoch

VotSpec == VotInit /\ [][VotNext]_votVars

----------------------------------------------------------------------------
\* TypeOK of the votes.
VotTypeOK ==
  /\ TLRound \in PrevHeight .. PrevHeight + ListsPerEpoch
  /\ \A h \in DOMAIN TLIndex : TLIndex[h].TLS[Here].HashID = h
  /\ signals \in [Rounds -> Nat]
  /\ \A m \in Voters : tlCheck[m] \subseteq lists

\* The leader waits for as many signals of a round as it has miners: each
\* stands for a vote that is in the decision set of that list, except that
\* round 0 also counts the votes of the epoch before that come late.  No vote
\* on a list of this epoch is refused (HandleTxDecLeader, TransactionProtocol.go:369).
VotesCounted ==
  /\ \A h \in DOMAIN TLIndex :
       LET g == TLIndex[h]
           x == g.TLS[Here].Round - PrevHeight
       IN  signals[x] = Len(g.TDS[Here].MemD)
                        + (IF x = 0 THEN Cardinality(refused) ELSE 0)
  /\ \A v \in refused : v.dec.HashID[1] < PrevHeight

SaysYes(d, size) == \A i \in 0 .. size - 1 : BitOf(d.Decision, i) = 1

\* Every vote in a decision set, as it arrives without its hash, passes the
\* checks of the member that gets the set and says of each transaction of the
\* list what the miner said, which is yes; so does every vote on its way to
\* the leader (PreTxDecision and ResultMiner; the leader makes it again from
\* the vote, bit by bit).
VotesReadable ==
  /\ \A v \in votes : LET d == Decoded(v.dec) IN
       PreTxDecision(d, d.HashID) /\ SaysYes(d, d.TxCnt)
  /\ \A h \in DOMAIN TLIndex :
       LET s == TLIndex[h].TDS[Here]
       IN  \A k \in DOMAIN s.MemD :
             /\ PreTxDecision(Decoded(s.MemD[k]), s.HashID)
             /\ SaysYes(s.MemD[k], TLIndex[h].TLS[Here].TxCnt)
=============================================================================
