----------------------------- MODULE Sync_proofs -----------------------------
(***************************************************************************)
(* The end of an epoch, for every number of shards, members, epochs and    *)
(* slots of the reputation window, and for every deal of the members.      *)
(*                                                                         *)
(* An answer does not say of which epoch it is, and may be late by whole   *)
(* epochs.  What is invariant is who can have sent it (Sent): a member that *)
(* has made the block, no later than the sync it answers.  From this        *)
(* follows what the node has of each shard that is done (Seeded, Closing),  *)
(* and, as long as no block of another epoch was taken over, that the       *)
(* windows of all members are the same (Counted).                           *)
(***************************************************************************)
EXTENDS Sync, SequenceTheorems, FiniteSetTheorems, TLAPS

Phases == {"work", "final", "added", "sync", "closed", "panic"}

\* The epochs a message may be about.
Traffic ==
  \A msg \in net :
    /\ msg.kind \in {"requestSync", "syncSB"} => msg.epoch \in 0..(Epochs - 1)
    /\ msg.kind = "syncTB" => msg.epoch \in 0..Epochs

\* Where the phases are in an epoch, and when the channels are empty.
Places ==
  /\ phase \in {"final", "added"} => CurrentEpoch + 1 < Epochs
  /\ phase \in {"sync", "closed"} => CurrentEpoch >= 0
  /\ phase \notin {"sync", "panic"} =>
       \A k \in Shards : sb[k] = None /\ tb[k] = None

\* The other nodes make a final block and then a sync block.
Pace == \A n \in Nodes \ {Me} : final[n] \in {chain[n], chain[n] + 1}

TypeInv ==
  /\ TypeOK /\ TotalRep = [n \in Nodes |-> TotalRep[n]]
  /\ Traffic /\ Places /\ Pace

----------------------------------------------------------------------------
(* Shards and windows. *)

\* A node is in one shard in each epoch.
LEMMA OneShard ==
  ASSUME NEW n \in Nodes, NEW e \in 0..Epochs
  PROVE  /\ ShardOf(n, e) \in Shards
         /\ n \in MembersOf(ShardOf(n, e), e)
         /\ \A k \in Shards : n \in MembersOf(k, e) => k = ShardOf(n, e)
<1> DEFINE Seats(x) == {p \in Shards \X Index : Deal[e][p[1]][p[2]] = x}
<1>1. IsFiniteSet(Shards \X Index)
  <2>1. IsFiniteSet(Index)
    BY DealAssumption, FS_Interval DEF Index
  <2> QED
    BY <2>1, DealAssumption, FS_Product
<1>2. Cardinality(Seats(n)) = 1 /\ IsFiniteSet(Seats(n))
  BY <1>1, DealAssumption, FS_Subset
<1>3. PICK p : Seats(n) = {p}
  BY <1>2, FS_Singleton
<1>4. PICK k \in Shards, i \in Index : p = <<k, i>> /\ Deal[e][k][i] = n
  BY <1>3
<1>5. ASSUME NEW l \in Shards, NEW j \in Index, Deal[e][l][j] = n PROVE l = k
  <2>1. <<l, j>> \in Seats(n)
    BY <1>5
  <2> QED
    BY <1>3, <1>4, <2>1
<1>6. ShardOf(n, e) = k
  BY <1>4, <1>5 DEF ShardOf
<1> QED
  BY <1>4, <1>5, <1>6 DEF MembersOf

\* What is dealt is a node.
LEMMA Dealt ==
  ASSUME NEW e \in 0..Epochs, NEW k \in Shards, NEW i \in Index
  PROVE  Deal[e][k][i] \in Nodes /\ Deal[e][k][i] \in MembersOf(k, e)
BY DealAssumption DEF MembersOf

\* The members of the other shards are other nodes.
LEMMA NotMe ==
  ASSUME NEW e \in 0..Epochs, NEW k \in Shards \ {ShardOf(Me, e)}, NEW i \in Index
  PROVE  Deal[e][k][i] \in Nodes \ {Me} /\ ShardOf(Deal[e][k][i], e) = k
BY Dealt, OneShard, DealAssumption

\* The length of the window after epoch e.
Span(e) == IF e + 1 <= Windows THEN e + 1 ELSE Windows

LEMMA WindowIs ==
  ASSUME NEW e \in -1..Epochs
  PROVE  /\ Span(e) \in 0..Windows
         /\ Window(e) = [i \in 1..Span(e) |-> e - Span(e) + i]
<1>1. e + 1 \in Nat /\ Windows \in Nat \ {0} /\ Epochs \in Nat
  BY DealAssumption
<1>2. Min({e + 1, Windows}) = Span(e)
  BY <1>1 DEF Min, Span
<1>3. Span(e) \in 0..Windows
  BY <1>1 DEF Span
<1> QED
  BY <1>2, <1>3 DEF Window

----------------------------------------------------------------------------
(* Types. *)

\* What is sent is lost or arrives.
LEMMA Posted ==
  ASSUME NEW S, Post(S)
  PROVE  net \subseteq net' /\ net' \subseteq net \cup S
BY DEF Post, Arriving

LEMMA Exchanged ==
  ASSUME NEW msg, NEW S, Exchange(msg, S)
  PROVE  msg \in net /\ net' \subseteq (net \ {msg}) \cup S
BY DEF Exchange, Arriving

\* The epoch whose shards Me works with is one with a deal.
LEMMA RunningIs ==
  ASSUME TypeInv
  PROVE  /\ Running \in 0..Epochs
         /\ phase \in {"sync", "closed"} => Running = CurrentEpoch
         /\ phase \notin {"sync", "closed"} => Running = CurrentEpoch + 1
         /\ phase \in {"final", "added", "sync", "closed"} =>
              Running \in 0..(Epochs - 1)
         /\ MyShard = ShardOf(Me, Running) /\ MyShard \in Shards
<1>1. CurrentEpoch \in -1..(Epochs - 1) /\ Epochs \in Nat
  BY DealAssumption DEF TypeInv, TypeOK
<1>2. /\ Running \in 0..Epochs
      /\ phase \in {"sync", "closed"} => Running = CurrentEpoch
      /\ phase \notin {"sync", "closed"} => Running = CurrentEpoch + 1
      /\ phase \in {"final", "added", "sync", "closed"} =>
           Running \in 0..(Epochs - 1)
  BY <1>1 DEF TypeInv, Places, Running
<1> QED
  BY <1>2, OneShard, DealAssumption DEF MyShard

\* A request goes to a member of the shard, which is not Me.
LEMMA RequestIs ==
  ASSUME NEW e \in 0..(Epochs - 1), NEW k \in Shards \ {ShardOf(Me, e)},
         NEW i \in Index
  PROVE  /\ Request(k, i, e) \in Msg
         /\ Request(k, i, e).kind = "requestSync"
         /\ Request(k, i, e).epoch = e
         /\ Request(k, i, e).node \in Nodes \ {Me}
<1>1. e \in 0..Epochs /\ e \in -1..Epochs
  BY DealAssumption
<1> QED
  BY <1>1, NotMe DEF Request, Message, Msg, Answers

LEMMA SyncBlockIs ==
  ASSUME NEW n \in Nodes, NEW e \in 0..(Epochs - 1)
  PROVE  /\ SyncBlock(n, e) \in SyncBlocks /\ SyncBlock(n, e) # None
         /\ SyncBlock(n, e).shard = ShardOf(n, e)
         /\ SyncBlock(n, e).epoch = e
         /\ SyncBlock(n, e).odd = (n \in Odd)
<1>1. e \in 0..Epochs
  BY DealAssumption
<1>2. ShardOf(n, e) \in Shards
  BY <1>1, OneShard
<1>3. SyncBlock(n, e) \in SyncBlocks
  BY <1>2 DEF SyncBlock, SyncBlocks
<1> QED
  BY <1>3, NoneAssumption DEF SyncBlock

\* One reputation after the other is kept in a window.
RepList == UNION {[1..l -> Rep] : l \in 0..Windows}

LEMMA RepListIs ==
  ASSUME NEW s \in RepList
  PROVE  s \in Seq(Rep) /\ Len(s) \in 0..Windows
<1>1. PICK l \in 0..Windows : s \in [1..l -> Rep]
  BY DEF RepList
<1>2. l \in Nat
  BY DealAssumption
<1> QED
  BY <1>1, <1>2

LEMMA SetTotalRepIs ==
  ASSUME NEW s \in RepList, NEW r \in Rep
  PROVE  LET t == SetTotalRep(s, r) IN
         /\ t \in RepList
         /\ Len(s) = Windows =>
              /\ DOMAIN t = 1..Windows /\ t[Windows] = r
              /\ \A i \in 1..(Windows - 1) : t[i] = s[i + 1]
         /\ Len(s) # Windows =>
              /\ DOMAIN t = 1..(Len(s) + 1) /\ t[Len(s) + 1] = r
              /\ \A i \in 1..Len(s) : t[i] = s[i]
<1> DEFINE t == SetTotalRep(s, r)
<1>1. s \in Seq(Rep) /\ Len(s) \in 0..Windows /\ Windows \in Nat \ {0}
  BY RepListIs, DealAssumption
<1>2. CASE Len(s) = Windows
  <2>1. s # << >>
    BY <1>1, <1>2
  <2>2. /\ Tail(s) \in Seq(Rep) /\ Len(Tail(s)) = Windows - 1
        /\ \A i \in 1..(Windows - 1) : Tail(s)[i] = s[i + 1]
    BY <1>1, <1>2, <2>1, HeadTailProperties
  <2>3. t = Append(Tail(s), r)
    BY <1>2 DEF SetTotalRep
  <2>4. /\ t \in Seq(Rep) /\ Len(t) = Windows /\ t[Windows] = r
        /\ \A i \in 1..(Windows - 1) : t[i] = s[i + 1]
    BY <1>1, <2>2, <2>3, AppendProperties
  <2>5. t \in RepList /\ DOMAIN t = 1..Windows
    <3>1. Windows \in 0..Windows
      BY <1>1
    <3>2. t \in [1..Windows -> Rep]
      BY <2>4, LenProperties
    <3> QED
      BY <3>1, <3>2 DEF RepList
  <2> QED
    BY <1>2, <2>4, <2>5
<1>3. CASE Len(s) # Windows
  <2>1. t = Append(s, r)
    BY <1>3 DEF SetTotalRep
  <2>2. /\ t \in Seq(Rep) /\ Len(t) = Len(s) + 1 /\ t[Len(s) + 1] = r
        /\ \A i \in 1..Len(s) : t[i] = s[i]
    BY <1>1, <2>1, AppendProperties
  <2>3. t \in RepList /\ DOMAIN t = 1..(Len(s) + 1)
    BY <1>1, <1>3, <2>2, LenProperties DEF RepList
  <2> QED
    BY <1>3, <2>2, <2>3
<1> QED
  BY <1>2, <1>3

LEMMA BlockRepIs ==
  ASSUME NEW b \in SyncBlocks
  PROVE  /\ BlockRep(b) \in RepList
         /\ DOMAIN BlockRep(b) = 1..Span(b.epoch)
         /\ \A i \in 1..Span(b.epoch) :
              /\ BlockRep(b)[i].epoch = b.epoch - Span(b.epoch) + i
              /\ BlockRep(b)[i].odd = b.odd
<1> DEFINE e == b.epoch
           l == Span(e)
<1>1. e \in 0..(Epochs - 1) /\ e \in -1..Epochs /\ b.odd \in BOOLEAN
  BY DealAssumption DEF SyncBlocks
<1>2. l \in 0..Windows /\ l <= e + 1 /\ Window(e) = [i \in 1..l |-> e - l + i]
  <2>1. l <= e + 1
    BY <1>1, DealAssumption DEF Span
  <2> QED
    BY <1>1, <2>1, WindowIs
<1>3. BlockRep(b) = [i \in 1..l |-> [epoch |-> e - l + i, odd |-> b.odd]]
  BY <1>2 DEF BlockRep
<1> HIDE DEF l
<1>4. \A i \in 1..l : e - l + i \in 0..(Epochs - 1)
  BY <1>1, <1>2, DealAssumption
<1>5. BlockRep(b) \in [1..l -> Rep]
  BY <1>1, <1>3, <1>4 DEF Rep
<1> QED
  BY <1>2, <1>3, <1>5 DEF RepList, l

LEMMA TypesInit == Init => TypeInv
<1> SUFFICES ASSUME Init PROVE TypeInv
  OBVIOUS
<1> USE DEF Init
<1>1. -1 \in -1..(Epochs - 1) /\ -1 \in -1..Epochs /\ 0 \in Index
  BY DealAssumption DEF Index
<1>2. << >> \in RepList
  <2>1. 0 \in 0..Windows
    BY DealAssumption
  <2>2. << >> \in [1..0 -> Rep]
    OBVIOUS
  <2> QED
    BY <2>1, <2>2 DEF RepList
<1>3. \A n \in Nodes : TotalRep[n] \in RepList
  BY <1>2
<1>4. TypeOK
  BY <1>1, <1>3 DEF TypeOK, RepList
<1>5. TotalRep = [n \in Nodes |-> TotalRep[n]]
  OBVIOUS
<1>6. Traffic /\ Places /\ Pace
  BY DEF Traffic, Places, Pace
<1> QED
  BY <1>4, <1>5, <1>6 DEF TypeInv

\* A step of Me that only changes the messages and the phase.
LEMMA TypesMyPhase ==
  ASSUME TypeInv, phase' \in Phases,
         net' \subseteq Msg, Traffic', Places',
         UNCHANGED <<myVars, others>>
  PROVE  TypeInv'
BY DEF TypeInv, TypeOK, Pace, Phases, myVars, others

\* Messages that were there, and requests, are as they should be.
LEMMA TrafficKept ==
  ASSUME TypeInv, NEW S, net' \subseteq net \cup S,
         \A msg \in S :
           /\ msg \in Msg
           /\ msg.kind \in {"requestSync", "syncSB"} => msg.epoch \in 0..(Epochs - 1)
           /\ msg.kind = "syncTB" => msg.epoch \in 0..Epochs
  PROVE  net' \subseteq Msg /\ Traffic'
BY DEF TypeInv, TypeOK, Traffic

LEMMA TypesFinalBlock ==
  ASSUME TypeInv, FinalBlock
  PROVE  TypeInv'
<1>1. Running \in 0..Epochs /\ MyShard \in Shards
  BY RunningIs
<1>2. CurrentEpoch + 1 \in -1..Epochs
  BY DealAssumption DEF TypeInv, TypeOK
<1>3. TypeOK'
  BY <1>1, <1>2 DEF TypeInv, TypeOK, FinalBlock
<1>4. Pace'
  BY DEF TypeInv, TypeOK, Pace, FinalBlock
<1>5. Traffic' /\ Places'
  BY DEF TypeInv, Traffic, Places, FinalBlock
<1>6. TotalRep' = [n \in Nodes |-> TotalRep'[n]]
  BY DEF TypeInv, FinalBlock
<1> QED
  BY <1>3, <1>4, <1>5, <1>6 DEF TypeInv

LEMMA TypesAddSyncBlock ==
  ASSUME TypeInv, AddSyncBlock
  PROVE  TypeInv'
<1>1. Running \in 0..(Epochs - 1) /\ MyShard \in Shards
  BY RunningIs DEF AddSyncBlock
<1>2. [epoch |-> Running, odd |-> FALSE] \in Rep
  BY <1>1 DEF Rep
<1>3. \A n \in Nodes : TotalRep'[n] \in RepList
  <2>1. \A n \in Nodes : TotalRep[n] \in RepList
    BY DEF TypeInv, TypeOK, RepList
  <2>2. ASSUME NEW s \in RepList
        PROVE  SetTotalRep(s, [epoch |-> Running, odd |-> FALSE]) \in RepList
    BY <1>2, SetTotalRepIs
  <2> QED
    BY <2>1, <2>2 DEF AddSyncBlock
<1>4. SyncBlock(Me, Running) \in SyncBlocks
  BY <1>1, SyncBlockIs, DealAssumption
<1>5. /\ chain' \in [Nodes -> -1..(Epochs - 1)]
      /\ seeds' \in [Shards -> SyncBlocks \cup {None}]
  <2>1. Running \in -1..(Epochs - 1)
    BY <1>1, DealAssumption
  <2>2. chain' \in [Nodes -> -1..(Epochs - 1)]
    BY <2>1 DEF TypeInv, TypeOK, AddSyncBlock
  <2>3. seeds' \in [Shards -> SyncBlocks \cup {None}]
    BY <1>4 DEF AddSyncBlock
  <2> QED
    BY <2>2, <2>3
<1>6. TypeOK'
  BY <1>3, <1>5 DEF TypeInv, TypeOK, AddSyncBlock, RepList
<1>7. Pace'
  BY DEF TypeInv, TypeOK, Pace, AddSyncBlock
<1>8. Traffic' /\ Places'
  BY DEF TypeInv, Traffic, Places, AddSyncBlock
<1>9. TotalRep' = [n \in Nodes |-> TotalRep'[n]]
  BY DEF AddSyncBlock
<1> QED
  BY <1>6, <1>7, <1>8, <1>9 DEF TypeInv

LEMMA TypesSyncProcess ==
  ASSUME TypeInv, SyncProcess
  PROVE  TypeInv'
<1> DEFINE S == {Request(k, aski'[k], Running) : k \in Others}
<1>1. Running \in 0..(Epochs - 1) /\ MyShard = ShardOf(Me, Running)
  BY RunningIs DEF SyncProcess
<1>2. aski' \in [Shards -> Index]
  BY DEF SyncProcess
<1>3. net' \subseteq net \cup S
  BY Posted DEF SyncProcess
<1>4. \A msg \in S : msg \in Msg /\ msg.kind = "requestSync"
                     /\ msg.epoch \in 0..(Epochs - 1)
  BY <1>1, <1>2, RequestIs DEF Others
<1> HIDE DEF S
<1>5. net' \subseteq Msg /\ Traffic'
  BY <1>3, <1>4, TrafficKept
<1>6. CurrentEpoch' \in 0..(Epochs - 1) /\ CurrentEpoch' \in -1..(Epochs - 1)
  BY <1>1, DealAssumption DEF SyncProcess
<1>7. TypeOK'
  BY <1>2, <1>5, <1>6 DEF TypeInv, TypeOK, SyncProcess, others
<1>8. Pace' /\ Places'
  BY <1>6 DEF TypeInv, Pace, Places, SyncProcess, others
<1> QED
  BY <1>5, <1>7, <1>8 DEF TypeInv, SyncProcess

\* What a message in the net is.
LEMMA InNet ==
  ASSUME TypeInv, NEW kind, NEW n, NEW e, Message(kind, n, e) \in net
  PROVE  /\ Message(kind, n, e) \in Msg
         /\ n \in Nodes \ {Me} /\ e \in -1..Epochs
         /\ kind \in {"requestSync", "syncSB"} => e \in 0..(Epochs - 1)
         /\ kind = "syncTB" => e \in 0..Epochs
<1>1. Message(kind, n, e) \in Msg
  BY DEF TypeInv, TypeOK
<1>2. /\ Message(kind, n, e).kind = kind /\ Message(kind, n, e).node = n
      /\ Message(kind, n, e).epoch = e
  BY DEF Message
<1> QED
  BY <1>1, <1>2 DEF Msg, TypeInv, Traffic

\* A loop that receives: the shard is another one in this epoch.
LEMMA ReceivesIs ==
  ASSUME TypeInv, NEW k, Receives(k)
  PROVE  /\ phase = "sync" /\ k \in Shards \ {ShardOf(Me, CurrentEpoch)}
         /\ k \notin done /\ CurrentEpoch \in 0..(Epochs - 1)
         /\ Running = CurrentEpoch
BY RunningIs DEF Receives, Others

LEMMA TypesTakeSB ==
  ASSUME TypeInv, NEW n, NEW e, TakeSB(n, e)
  PROVE  TypeInv'
<1> DEFINE k == ShardOf(n, Running)
<1>1. n \in Nodes /\ e \in 0..(Epochs - 1)
  BY InNet DEF TakeSB, Take
<1>2. SyncBlock(n, e) \in SyncBlocks
  BY <1>1, SyncBlockIs
<1>3. sb' \in [Shards -> SyncBlocks \cup {None}]
  BY <1>2 DEF TypeInv, TypeOK, TakeSB, others
<1>4. net' \subseteq net /\ phase = "sync"
  BY DEF TakeSB, Take, Receives
<1>5. TypeOK'
  BY <1>3, <1>4 DEF TypeInv, TypeOK, TakeSB, others
<1>6. Traffic' /\ Places' /\ Pace'
  BY <1>4 DEF TypeInv, Traffic, Places, Pace, TakeSB, others
<1> QED
  BY <1>5, <1>6 DEF TypeInv, TakeSB

LEMMA TypesTakeTB ==
  ASSUME TypeInv, NEW n, NEW e, TakeTB(n, e)
  PROVE  TypeInv'
<1> DEFINE k == ShardOf(n, Running)
           block == [shard |-> ShardOf(n, e), epoch |-> e]
<1>1. e \in 0..Epochs /\ e \in -1..Epochs /\ n \in Nodes
  BY InNet DEF TakeTB, Take
<1>2. k \in Shards /\ ShardOf(n, e) \in Shards
  BY <1>1, OneShard DEF TakeTB, Receives, Others
<1>3. block \in FinalBlocks /\ block # None
  BY <1>1, <1>2, NoneAssumption DEF FinalBlocks
<1>4. tb' = [tb EXCEPT ![k] = block]
  BY DEF TakeTB
<1> HIDE DEF block
<1>5. /\ tb' \in [Shards -> FinalBlocks \cup {None}]
      /\ \A j \in Shards : tb'[j] # None <=> (tb[j] # None \/ j = k)
  BY <1>2, <1>3, <1>4 DEF TypeInv, TypeOK
<1>6. /\ signed' \subseteq signed \cup {k} /\ stray' \subseteq stray
      /\ FB' \in [Shards -> -1..Epochs]
  BY <1>1, <1>2 DEF TypeInv, TypeOK, TakeTB
<1>7. net' \subseteq net /\ phase = "sync"
  BY DEF TakeTB, Take, Receives
<1>8. /\ signed' \subseteq {j \in Shards : tb'[j] # None}
      /\ stray' \subseteq Shards
  BY <1>2, <1>5, <1>6 DEF TypeInv, TypeOK
<1>9. TypeOK'
  BY <1>5, <1>6, <1>7, <1>8 DEF TypeInv, TypeOK, TakeTB, others
<1>10. Traffic' /\ Places' /\ Pace'
  BY <1>7 DEF TypeInv, Traffic, Places, Pace, TakeTB, others
<1> QED
  BY <1>9, <1>10 DEF TypeInv, TakeTB

LEMMA TypesTakeNotReady ==
  ASSUME TypeInv, NEW n, NEW e, TakeNotReady(n, e)
  PROVE  TypeInv'
<1> DEFINE k == ShardOf(n, Running)
           S == {Request(k, aski[k], CurrentEpoch)}
<1>1. /\ phase = "sync" /\ k \in Shards \ {ShardOf(Me, CurrentEpoch)}
      /\ CurrentEpoch \in 0..(Epochs - 1)
  BY ReceivesIs DEF TakeNotReady
<1>2. aski[k] \in Index
  BY <1>1 DEF TypeInv, TypeOK
<1>3. net' \subseteq net \cup S
  BY Exchanged DEF TakeNotReady
<1>4. \A msg \in S : msg \in Msg /\ msg.kind = "requestSync"
                     /\ msg.epoch \in 0..(Epochs - 1)
  BY <1>1, <1>2, RequestIs
<1> HIDE DEF S
<1>5. net' \subseteq Msg /\ Traffic'
  BY <1>3, <1>4, TrafficKept
<1>6. Places'
  BY DEF TypeInv, Places, TakeNotReady, myVars
<1> QED
  BY <1>1, <1>5, <1>6, TypesMyPhase DEF TakeNotReady, myVars, Phases

LEMMA TypesTimeout ==
  ASSUME TypeInv, NEW k \in Shards, Timeout(k)
  PROVE  TypeInv'
<1> DEFINE S == {Request(k, aski'[k], CurrentEpoch)}
<1>1. /\ phase = "sync" /\ k \in Shards \ {ShardOf(Me, CurrentEpoch)}
      /\ CurrentEpoch \in 0..(Epochs - 1)
  BY ReceivesIs DEF Timeout
<1>2. (aski[k] + 1) % Size \in Index
  BY DealAssumption DEF TypeInv, TypeOK, Index
<1>3. aski' \in [Shards -> Index]
  BY <1>2 DEF TypeInv, TypeOK, Timeout, others
<1>4. net' \subseteq net \cup S
  BY Posted DEF Timeout
<1>5. \A msg \in S : msg \in Msg /\ msg.kind = "requestSync"
                     /\ msg.epoch \in 0..(Epochs - 1)
  BY <1>1, <1>3, RequestIs
<1> HIDE DEF S
<1>6. net' \subseteq Msg /\ Traffic'
  BY <1>4, <1>5, TrafficKept
<1>7. TypeOK'
  BY <1>3, <1>6 DEF TypeInv, TypeOK, Timeout, others
<1>8. Places' /\ Pace'
  BY DEF TypeInv, Places, Pace, Timeout, others
<1> QED
  BY <1>6, <1>7, <1>8 DEF TypeInv, Timeout

LEMMA TypesReceived ==
  ASSUME TypeInv, NEW k \in Shards, Received(k)
  PROVE  TypeInv'
<1>1. /\ sb[k] \in SyncBlocks
      /\ tb[k].shard \in Shards /\ tb[k].epoch \in 0..Epochs
  BY DEF TypeInv, TypeOK, Received, FinalBlocks
<1>2. BlockRep(sb[k]) \in RepList
  BY <1>1, BlockRepIs
<1>3. \A n \in Nodes : TotalRep'[n] \in RepList
  BY <1>2 DEF TypeInv, TypeOK, Received, RepList
<1>4. seeds' \in [Shards -> SyncBlocks \cup {None}]
  BY <1>1 DEF TypeInv, TypeOK, Received
<1>5. FB' \in [Shards -> -1..Epochs] /\ stray' \subseteq Shards
  <2>1. tb[k].epoch \in -1..Epochs
    BY <1>1, DealAssumption
  <2> QED
    BY <1>1, <2>1 DEF TypeInv, TypeOK, Received, GetFinalTxBlock
<1>6. mixed' \in BOOLEAN
  BY DEF Received
<1>7. TypeOK'
  BY <1>3, <1>4, <1>5, <1>6 DEF TypeInv, TypeOK, Received, RepList, others
<1>8. Traffic' /\ Places' /\ Pace'
  BY DEF TypeInv, Traffic, Places, Pace, Received, others
<1>9. TotalRep' = [n \in Nodes |-> TotalRep'[n]]
  BY DEF Received
<1> QED
  BY <1>7, <1>8, <1>9 DEF TypeInv

LEMMA TypesSyncDone ==
  ASSUME TypeInv, SyncDone
  PROVE  TypeInv'
<1>1. TypeOK'
  BY DEF TypeInv, TypeOK, SyncDone, others
<1>2. Traffic' /\ Places' /\ Pace'
  BY DEF TypeInv, Traffic, Places, Pace, SyncDone, others
<1> QED
  BY <1>1, <1>2 DEF TypeInv, SyncDone

LEMMA TypesPhaseOnly ==
  ASSUME TypeInv, Panic \/ ShardProcess
  PROVE  TypeInv'
<1>1. phase' \in Phases /\ net' = net
      /\ UNCHANGED <<myVars, others>>
  BY DEF Panic, ShardProcess, myVars, Phases
<1>2. net' \subseteq Msg /\ Traffic'
  BY <1>1 DEF TypeInv, TypeOK, Traffic
<1>3. Places'
  BY <1>1 DEF TypeInv, Places, Panic, ShardProcess, myVars
<1> QED
  BY <1>1, <1>2, <1>3, TypesMyPhase

LEMMA TypesDropLate ==
  ASSUME TypeInv, NEW kind, NEW n, NEW e, DropLate(kind, n, e)
  PROVE  TypeInv'
<1>1. phase' \in Phases /\ net' \subseteq net
      /\ UNCHANGED <<myVars, others>>
  BY DEF TypeInv, TypeOK, DropLate, myVars, Phases
<1>2. net' \subseteq Msg /\ Traffic'
  BY <1>1 DEF TypeInv, TypeOK, Traffic
<1>3. Places'
  BY <1>1 DEF TypeInv, Places, DropLate, myVars
<1> QED
  BY <1>1, <1>2, <1>3, TypesMyPhase

\* What a member answers.
Reply(n, e) ==
  IF e > chain[n] THEN {Message("syncNReady", n, -1)}
  ELSE IF e = chain[n]
    THEN {Message("syncTB", n, LastFinal(n, e)), Message("syncSB", n, e)}
  ELSE {}

LEMMA ReplyIs ==
  ASSUME TypeInv, NEW n \in Nodes \ {Me}, NEW e \in 0..(Epochs - 1),
         NEW msg \in Reply(n, e)
  PROVE  /\ msg \in Msg /\ msg.node = n
         /\ msg.kind \in {"syncNReady", "syncSB", "syncTB"}
         /\ msg.kind = "syncSB" => msg.epoch = e /\ e <= chain[n]
         /\ msg.kind = "syncTB" =>
              msg.epoch \in {e, e + 1} /\ msg.epoch <= final[n]
<1>1. /\ e \in -1..Epochs /\ e + 1 \in -1..Epochs /\ -1 \in -1..Epochs
      /\ chain[n] \in Int /\ final[n] \in {chain[n], chain[n] + 1}
  BY DealAssumption DEF TypeInv, TypeOK, Pace
<1>2. CASE msg = Message("syncNReady", n, -1)
  BY <1>1, <1>2 DEF Message, Msg, Answers
<1>3. CASE msg = Message("syncSB", n, e) /\ e = chain[n]
  BY <1>1, <1>3 DEF Message, Msg, Answers
<1>4. CASE msg = Message("syncTB", n, LastFinal(n, e)) /\ e = chain[n]
  <2>1. LastFinal(n, e) \in {e, e + 1} /\ LastFinal(n, e) <= final[n]
    BY <1>1, <1>4 DEF LastFinal
  <2> QED
    BY <1>1, <1>4, <2>1 DEF Message, Msg, Answers
<1> QED
  BY <1>2, <1>3, <1>4 DEF Reply

LEMMA TypesHandleRequestSync ==
  ASSUME TypeInv, NEW n, NEW e, HandleRequestSync(n, e)
  PROVE  TypeInv'
<1>1. Message("requestSync", n, e) \in net /\ net' \subseteq net \cup Reply(n, e)
  BY Exchanged DEF HandleRequestSync, Reply
<1>2. n \in Nodes \ {Me} /\ e \in 0..(Epochs - 1)
  BY <1>1, InNet
<1>3. ASSUME NEW msg \in Reply(n, e)
      PROVE  /\ msg \in Msg
             /\ msg.kind \in {"requestSync", "syncSB"} => msg.epoch \in 0..(Epochs - 1)
             /\ msg.kind = "syncTB" => msg.epoch \in 0..Epochs
  BY <1>2, ReplyIs, DealAssumption
<1>4. net' \subseteq Msg /\ Traffic'
  BY <1>1, <1>3, TrafficKept
<1>5. phase' \in Phases /\ Places'
      /\ UNCHANGED <<myVars, others>>
  BY DEF TypeInv, TypeOK, Places, HandleRequestSync, myVars, Phases
<1> QED
  BY <1>4, <1>5, TypesMyPhase

LEMMA TypesOthers ==
  ASSUME TypeInv, NEW n \in Nodes, OtherFinal(n) \/ OtherSyncBlock(n)
  PROVE  TypeInv'
<1>1. /\ n # Me /\ final[n] \in -1..Epochs /\ final[n] < Epochs
      /\ chain[n] \in -1..(Epochs - 1)
      /\ \A i \in Nodes \ {n} : final'[i] = final[i] /\ chain'[i] = chain[i]
  BY DEF TypeInv, TypeOK, OtherFinal, OtherSyncBlock
<1>2. final[n] + 1 \in -1..Epochs /\ final[n] \in -1..(Epochs - 1)
  BY <1>1, DealAssumption
<1>3. chain' \in [Nodes -> -1..(Epochs - 1)] /\ final' \in [Nodes -> -1..Epochs]
  BY <1>2 DEF TypeInv, TypeOK, OtherFinal, OtherSyncBlock
<1>4. final'[n] \in {chain'[n], chain'[n] + 1}
  BY <1>1 DEF TypeInv, TypeOK, OtherFinal, OtherSyncBlock
<1>5. Pace'
  BY <1>1, <1>4 DEF TypeInv, Pace
<1>6. /\ TypeOK' /\ Traffic' /\ Places'
      /\ TotalRep' = [i \in Nodes |-> TotalRep'[i]]
  BY <1>3 DEF TypeInv, TypeOK, Traffic, Places, OtherFinal, OtherSyncBlock, myVars
<1> QED
  BY <1>5, <1>6 DEF TypeInv

LEMMA TypesNext ==
  ASSUME TypeInv, [Next]_vars
  PROVE  TypeInv'
<1>1. ASSUME FinalBlock \/ AddSyncBlock \/ SyncProcess \/ SyncDone
      PROVE  TypeInv'
  BY <1>1, TypesFinalBlock, TypesAddSyncBlock, TypesSyncProcess, TypesSyncDone
<1>2. ASSUME Panic \/ ShardProcess PROVE TypeInv'
  BY <1>2, TypesPhaseOnly
<1>3. ASSUME NEW k \in Shards, Timeout(k) \/ Received(k) PROVE TypeInv'
  BY <1>3, TypesTimeout, TypesReceived
<1>4. ASSUME NEW kind, NEW n, NEW e, DropLate(kind, n, e) PROVE TypeInv'
  BY <1>4, TypesDropLate
<1>5. ASSUME NEW n, NEW e, \/ HandleRequestSync(n, e) \/ TakeSB(n, e)
                           \/ TakeTB(n, e) \/ TakeNotReady(n, e)
      PROVE  TypeInv'
  BY <1>5, TypesHandleRequestSync, TypesTakeSB, TypesTakeTB, TypesTakeNotReady
<1>6. ASSUME NEW n \in Nodes, OtherFinal(n) \/ OtherSyncBlock(n) PROVE TypeInv'
  BY <1>6, TypesOthers
<1>7. CASE UNCHANGED vars
  BY <1>7 DEF vars, TypeInv, TypeOK, Traffic, Places, Pace
<1> QED
  BY <1>1, <1>2, <1>3, <1>4, <1>5, <1>6, <1>7 DEF Next

LEMMA TypesInvariant == Spec => []TypeInv
<1>1. TypeInv /\ [Next]_vars => TypeInv'
  BY TypesNext
<1> QED
  BY <1>1, TypesInit, PTL DEF Spec

\* Every index, epoch and message of SyncProcess and its handlers stays within
\* its bounds, and no window of reputations grows past its slots.
THEOREM TypeCorrect == Spec => []TypeOK
<1>1. TypeInv => TypeOK
  BY DEF TypeInv
<1> QED
  BY <1>1, TypesInvariant, PTL

----------------------------------------------------------------------------
(* What is taken over. *)

\* Whoever sent a message has made the block in it, and was asked in this sync
\* or in an earlier one.
Sent ==
  \A msg \in net :
    /\ msg.kind \in {"requestSync", "syncSB"} => msg.epoch <= CurrentEpoch
    /\ msg.kind = "syncSB" => msg.epoch <= chain[msg.node]
    /\ msg.kind = "syncTB" =>
         msg.epoch <= CurrentEpoch + 1 /\ msg.epoch <= final[msg.node]

\* Block b was made by a member that shard k has in epoch e.
SeedOf(b, k, e) ==
  \E n \in MembersOf(k, e), d \in 0..e : b = SyncBlock(n, d) /\ d <= chain[n]

OwnSeed(e) == seeds[ShardOf(Me, e)] = SyncBlock(Me, e)

\* The seeds of the shards whose sync is over, and the blocks under way.
Seeded ==
  /\ phase = "added" => OwnSeed(Running)
  /\ phase = "sync" =>
       /\ OwnSeed(CurrentEpoch)
       /\ \A k \in done : SeedOf(seeds[k], k, CurrentEpoch)
       /\ \A k \in Shards : sb[k] # None => SeedOf(sb[k], k, CurrentEpoch)
  /\ Synced =>
       /\ OwnSeed(CurrentEpoch)
       /\ \A k \in Shards \ {ShardOf(Me, CurrentEpoch)} :
            SeedOf(seeds[k], k, CurrentEpoch)

\* A member has the final block FB[k], and who leads the shard signed it.
Closed(k) ==
  \E n \in MembersOf(k, CurrentEpoch) :
    /\ FB[k] \in 0..final[n] /\ FB[k] <= CurrentEpoch + 1
    /\ LeaderOf(ShardOf(n, FB[k]), FB[k]) = LeaderOf(k, CurrentEpoch)

Closing ==
  /\ phase = "sync" =>
       \A k \in Others \ stray : k \in signed \cup done => Closed(k)
  /\ Synced => \A k \in Shards \ ({ShardOf(Me, CurrentEpoch)} \cup stray) :
       \/ Closed(k)
       \/ FB[k] = CurrentEpoch + 1 /\ phase = "final" /\ k = MyShard

\* s is the window of n after epoch e.
WindowOf(s, n, e) ==
  /\ DOMAIN s = 1..Span(e)
  /\ \A i \in 1..Span(e) :
       /\ s[i].epoch = e - Span(e) + i
       /\ s[i].odd => \E d \in 0..e : MembersOf(ShardOf(n, d), d) \cap Odd # {}

\* The own shard is counted before the epoch's sync, the others in it.
Counted ==
  ~mixed => \A n \in Nodes :
    /\ phase \in {"work", "final", "closed"} =>
         WindowOf(TotalRep[n], n, CurrentEpoch)
    /\ phase = "added" /\ ShardOf(n, Running) = MyShard =>
         WindowOf(TotalRep[n], n, Running)
    /\ phase = "sync" /\ ShardOf(n, CurrentEpoch) \in done \cup {MyShard} =>
         WindowOf(TotalRep[n], n, CurrentEpoch)

Safe == Sent /\ Seeded /\ Closing /\ Counted

LEMMA SafeInit == Init => Safe
<1> SUFFICES ASSUME Init PROVE Safe
  OBVIOUS
<1> USE DEF Init
<1>1. Sent /\ Seeded /\ Closing
  BY DEF Sent, Seeded, Closing, Synced
<1>2. Span(-1) = 0
  BY DealAssumption DEF Span
<1>3. Counted
  BY <1>2 DEF Counted, WindowOf
<1> QED
  BY <1>1, <1>3 DEF Safe

\* What a member has made it still has after any step.
LEMMA SeedKept ==
  ASSUME NEW b, NEW k \in Shards, NEW e \in 0..Epochs, SeedOf(b, k, e),
         \A n \in Nodes : chain[n] \in Int /\ chain'[n] \in Int /\ chain[n] <= chain'[n]
  PROVE  \E n \in MembersOf(k, e), d \in 0..e : b = SyncBlock(n, d) /\ d <= chain'[n]
<1>1. PICK n \in MembersOf(k, e), d \in 0..e : b = SyncBlock(n, d) /\ d <= chain[n]
  BY DEF SeedOf
<1>2. n \in Nodes
  BY Dealt DEF MembersOf
<1>3. d <= chain'[n]
  BY <1>1, <1>2
<1> QED
  BY <1>1, <1>3

\* Steps of Me leave what the others have alone, and theirs only add to it.
LEMMA SentKept ==
  ASSUME TypeInv, Safe, net' \subseteq net, CurrentEpoch <= CurrentEpoch',
         CurrentEpoch' \in Int,
         \A n \in Nodes \ {Me} : chain'[n] = chain[n] /\ final'[n] = final[n]
  PROVE  Sent'
<1>1. \A msg \in net : msg.node \in Nodes \ {Me} /\ msg.epoch \in Int
  BY DEF TypeInv, TypeOK, Msg
<1>2. CurrentEpoch \in Int
  BY DEF TypeInv, TypeOK
<1> QED
  BY <1>1, <1>2 DEF Safe, Sent

\* Requests of the sync that goes on may be sent any time.
LEMMA SentAsked ==
  ASSUME TypeInv, Safe, NEW S, net' \subseteq net \cup S,
         \A msg \in S : msg.kind = "requestSync" /\ msg.epoch = CurrentEpoch,
         UNCHANGED <<CurrentEpoch, others>>
  PROVE  Sent'
<1>1. CurrentEpoch \in Int
  BY DEF TypeInv, TypeOK
<1> QED
  BY <1>1 DEF Safe, Sent, others

LEMMA SafeFinalBlock ==
  ASSUME TypeInv, Safe, FinalBlock
  PROVE  Safe'
<1>1. /\ Running' = Running /\ MyShard' = MyShard /\ Running = CurrentEpoch + 1
      /\ phase = "work" /\ phase' = "final" /\ CurrentEpoch' = CurrentEpoch
      /\ CurrentEpoch \in -1..(Epochs - 1) /\ MyShard \in Shards
  BY RunningIs DEF TypeInv, TypeOK, FinalBlock, Running, MyShard
<1>2. /\ \A n \in Nodes \ {Me} : final'[n] = final[n]
      /\ UNCHANGED <<chain, TotalRep, seeds, net, mixed>>
  BY DEF TypeInv, TypeOK, FinalBlock
<1>3. Sent'
  BY <1>1, <1>2, SentKept
<1>4. Seeded'
  BY <1>1, <1>2 DEF Safe, Seeded, SeedOf, OwnSeed, Synced
<1>5. Closing'
  <2> SUFFICES ASSUME CurrentEpoch >= 0,
                      NEW k \in Shards \ {ShardOf(Me, CurrentEpoch)},
                      k # MyShard, k \notin stray'
               PROVE  Closed(k)'
    <3>1. FB'[MyShard] = CurrentEpoch' + 1
      BY <1>1, RunningIs DEF FinalBlock, TypeInv, TypeOK
    <3> QED
      BY <1>1, <3>1 DEF Closing, Synced
  <2>1. Closed(k) /\ FB'[k] = FB[k]
    BY <1>1 DEF Safe, Closing, Synced, FinalBlock, TypeInv, TypeOK
  <2>2. CurrentEpoch \in 0..Epochs
    BY <1>1, DealAssumption
  <2>3. \A n \in MembersOf(k, CurrentEpoch) : n \in Nodes \ {Me}
    BY <2>2, NotMe DEF MembersOf
  <2> QED
    BY <1>1, <1>2, <2>1, <2>3 DEF Closed
<1>6. Counted'
  BY <1>1, <1>2 DEF Safe, Counted
<1> QED
  BY <1>3, <1>4, <1>5, <1>6 DEF Safe

\* The window of the next epoch.
LEMMA NextWindow ==
  ASSUME NEW n \in Nodes, NEW e \in -1..(Epochs - 1), NEW s \in RepList,
         WindowOf(s, n, e), e + 1 \in 0..(Epochs - 1)
  PROVE  WindowOf(SetTotalRep(s, [epoch |-> e + 1, odd |-> FALSE]), n, e + 1)
<1> DEFINE r == [epoch |-> e + 1, odd |-> FALSE]
           t == SetTotalRep(s, r)
           Odd_(d) == \E x \in 0..d : MembersOf(ShardOf(n, x), x) \cap Odd # {}
<1>1. /\ r \in Rep /\ r.epoch = e + 1 /\ r.odd = FALSE
      /\ Windows \in Nat \ {0} /\ e \in Int
  BY DealAssumption DEF Rep
<1>2. Len(s) = Span(e)
  <2>1. s \in Seq(Rep) /\ DOMAIN s = 1..Span(e) /\ Span(e) \in Nat
    BY <1>1, RepListIs DEF WindowOf, Span
  <2> QED
    BY <2>1, LenProperties
<1>3. Odd_(e) => Odd_(e + 1)
  BY <1>1
<1>4. \A i \in 1..Span(e) : s[i].epoch = e - Span(e) + i /\ (s[i].odd => Odd_(e))
  BY DEF WindowOf
<1> HIDE DEF Odd_, r
<1>5. CASE Span(e) = Windows
  <2>1. /\ DOMAIN t = 1..Windows /\ t[Windows] = r
        /\ \A i \in 1..(Windows - 1) : t[i] = s[i + 1]
    BY <1>1, <1>2, <1>5, SetTotalRepIs
  <2>2. Span(e + 1) = Windows
    BY <1>1, <1>5 DEF Span
  <2>3. ASSUME NEW i \in 1..Windows
        PROVE  t[i].epoch = (e + 1) - Windows + i /\ (t[i].odd => Odd_(e + 1))
    <3>1. CASE i = Windows
      BY <1>1, <2>1, <3>1
    <3>2. CASE i # Windows
      <4>1. i \in 1..(Windows - 1) /\ i + 1 \in 1..Span(e)
        BY <1>1, <1>5, <3>2
      <4> QED
        BY <1>1, <1>3, <1>4, <1>5, <2>1, <4>1
    <3> QED
      BY <3>1, <3>2
  <2> HIDE DEF t
  <2> QED
    BY <2>1, <2>2, <2>3 DEF WindowOf, t, r, Odd_
<1>6. CASE Span(e) # Windows
  <2>1. Span(e) = e + 1 /\ Span(e + 1) = e + 2
    BY <1>1, <1>6 DEF Span
  <2>2. /\ DOMAIN t = 1..(e + 2) /\ t[e + 2] = r
        /\ \A i \in 1..(e + 1) : t[i] = s[i]
    BY <1>1, <1>2, <1>6, <2>1, SetTotalRepIs
  <2>3. ASSUME NEW i \in 1..(e + 2)
        PROVE  t[i].epoch = (e + 1) - (e + 2) + i /\ (t[i].odd => Odd_(e + 1))
    <3>1. CASE i = e + 2
      BY <1>1, <2>2, <3>1
    <3>2. CASE i # e + 2
      <4>1. i \in 1..(e + 1)
        BY <1>1, <3>2
      <4> QED
        BY <1>1, <1>3, <1>4, <2>1, <2>2, <4>1
    <3> QED
      BY <3>1, <3>2
  <2> HIDE DEF t
  <2> QED
    BY <2>1, <2>2, <2>3 DEF WindowOf, t, r, Odd_
<1> QED
  BY <1>5, <1>6

LEMMA SafeAddSyncBlock ==
  ASSUME TypeInv, Safe, AddSyncBlock
  PROVE  Safe'
<1>1. /\ Running' = Running /\ MyShard' = MyShard /\ Running = CurrentEpoch + 1
      /\ phase = "final" /\ phase' = "added" /\ CurrentEpoch' = CurrentEpoch
      /\ CurrentEpoch \in -1..(Epochs - 1) /\ Running \in 0..(Epochs - 1)
      /\ MyShard = ShardOf(Me, Running) /\ MyShard \in Shards
  BY RunningIs DEF TypeInv, TypeOK, AddSyncBlock, Running, MyShard
<1>2. Sent'
  <2>1. \A n \in Nodes \ {Me} : chain'[n] = chain[n] /\ final'[n] = final[n]
    BY DEF TypeInv, TypeOK, AddSyncBlock
  <2> QED
    BY <1>1, <2>1, SentKept DEF AddSyncBlock
<1>3. Seeded'
  <2>1. seeds'[MyShard] = SyncBlock(Me, Running)
    BY <1>1 DEF AddSyncBlock
  <2> QED
    BY <1>1, <2>1 DEF Seeded, OwnSeed, Synced
<1>4. Closing'
  BY <1>1 DEF Closing, Synced
<1>5. Counted'
  <2> SUFFICES ASSUME ~mixed, NEW n \in Nodes, ShardOf(n, Running) = MyShard
               PROVE  WindowOf(TotalRep'[n], n, Running)
    BY <1>1 DEF Counted, AddSyncBlock
  <2>1. Running \in 0..Epochs
    BY <1>1, DealAssumption
  <2>2. n \in MembersOf(MyShard, Running)
    BY <2>1, OneShard
  <2>3. TotalRep'[n] = SetTotalRep(TotalRep[n], [epoch |-> Running, odd |-> FALSE])
    BY <2>2 DEF AddSyncBlock
  <2>4. TotalRep[n] \in RepList /\ WindowOf(TotalRep[n], n, CurrentEpoch)
    BY <1>1 DEF TypeInv, TypeOK, RepList, Safe, Counted
  <2> QED
    BY <1>1, <2>3, <2>4, NextWindow
<1> QED
  BY <1>2, <1>3, <1>4, <1>5 DEF Safe

\* The sync of an epoch begins: whatever is on its way was asked for before.
LEMMA SafeSyncProcess ==
  ASSUME TypeInv, Safe, SyncProcess
  PROVE  Safe'
<1> DEFINE S == {Request(k, aski'[k], Running) : k \in Others}
<1>1. /\ Running' = Running /\ MyShard' = MyShard /\ CurrentEpoch' = Running
      /\ phase = "added" /\ phase' = "sync" /\ Running = CurrentEpoch + 1
      /\ CurrentEpoch \in Int
  BY DEF SyncProcess, Running, MyShard, TypeInv, TypeOK
<1>2. UNCHANGED <<chain, final, FB, TotalRep, seeds, sb, tb, signed, mixed, stray>>
      /\ done' = {}
  BY DEF SyncProcess, others
<1>3. Sent'
  <2>1. net' \subseteq net \cup S
    BY Posted DEF SyncProcess
  <2>2. \A msg \in S : msg.kind = "requestSync" /\ msg.epoch = CurrentEpoch'
    BY <1>1 DEF Request, Message
  <2>3. \A msg \in net : msg.epoch \in Int
    BY DEF TypeInv, TypeOK, Msg
  <2> HIDE DEF S
  <2> QED
    BY <1>1, <1>2, <2>1, <2>2, <2>3 DEF Safe, Sent
<1>4. Seeded'
  BY <1>1, <1>2 DEF TypeInv, Places, Safe, Seeded, OwnSeed, Synced
<1>5. Closing'
  <2>1. signed = {}
    BY <1>1 DEF TypeInv, TypeOK, Places
  <2> QED
    BY <1>1, <1>2, <2>1 DEF Closing, Synced
<1>6. Counted'
  BY <1>1, <1>2 DEF Safe, Counted
<1> QED
  BY <1>3, <1>4, <1>5, <1>6 DEF Safe

\* A late sync block is of a member of the shard all the same.
LEMMA SafeTakeSB ==
  ASSUME TypeInv, Safe, NEW n, NEW e, TakeSB(n, e)
  PROVE  Safe'
<1> DEFINE k == ShardOf(n, Running)
<1>1. /\ phase = "sync" /\ k \in Shards /\ CurrentEpoch \in 0..(Epochs - 1)
      /\ Running = CurrentEpoch /\ CurrentEpoch \in 0..Epochs
  BY ReceivesIs, DealAssumption DEF TakeSB
<1>2. Message("syncSB", n, e) \in net /\ net' \subseteq net
  BY DEF TakeSB, Take
<1>3. n \in Nodes /\ e \in 0..CurrentEpoch /\ e <= chain[n]
  <2>1. n \in Nodes /\ e \in 0..(Epochs - 1)
    BY <1>2, InNet
  <2>2. /\ Message("syncSB", n, e).kind = "syncSB"
        /\ Message("syncSB", n, e).node = n /\ Message("syncSB", n, e).epoch = e
    BY DEF Message
  <2>3. e <= CurrentEpoch /\ e <= chain[n]
    BY <1>2, <2>2 DEF Safe, Sent
  <2> QED
    BY <1>1, <2>1, <2>3
<1>4. SeedOf(SyncBlock(n, e), k, CurrentEpoch)
  <2>1. n \in MembersOf(k, CurrentEpoch)
    BY <1>1, <1>3, OneShard
  <2> QED
    BY <1>3, <2>1 DEF SeedOf
<1>5. UNCHANGED <<Running, MyShard, Others, phase, CurrentEpoch, chain, final, FB,
                  TotalRep, seeds, signed, done, stray, mixed>>
  BY DEF Running, MyShard, Others, TakeSB, others
<1>6. Sent'
  BY <1>1, <1>2, <1>5, SentKept
<1>7. Seeded'
  <2>1. \A j \in Shards : sb'[j] = IF j = k THEN SyncBlock(n, e) ELSE sb[j]
    BY <1>1 DEF TypeInv, TypeOK, TakeSB
  <2>2. \A j \in Shards : sb'[j] # None => SeedOf(sb'[j], j, CurrentEpoch)
    BY <1>1, <1>4, <2>1 DEF Safe, Seeded
  <2> QED
    BY <1>1, <1>5, <2>2 DEF Safe, Seeded, SeedOf, OwnSeed, Synced
<1>8. Closing' /\ Counted'
  BY <1>1, <1>5 DEF Safe, Closing, Closed, Synced, Counted
<1> QED
  BY <1>6, <1>7, <1>8 DEF Safe

\* A final block that verifies, of whatever epoch, is kept; another is not.
LEMMA SafeTakeTB ==
  ASSUME TypeInv, Safe, NEW n, NEW e, TakeTB(n, e)
  PROVE  Safe'
<1> DEFINE k == ShardOf(n, Running)
           ok == LeaderOf(ShardOf(n, e), e) = LeaderOf(k, Running)
<1>1. /\ phase = "sync" /\ k \in Shards /\ CurrentEpoch \in 0..(Epochs - 1)
      /\ Running = CurrentEpoch /\ CurrentEpoch \in 0..Epochs
  BY ReceivesIs, DealAssumption DEF TakeTB
<1>2. Message("syncTB", n, e) \in net /\ net' \subseteq net
  BY DEF TakeTB, Take
<1>3. n \in Nodes /\ e \in 0..final[n] /\ e <= CurrentEpoch + 1
  <2>1. n \in Nodes /\ e \in 0..Epochs
    BY <1>2, InNet
  <2>2. /\ Message("syncTB", n, e).kind = "syncTB"
        /\ Message("syncTB", n, e).node = n /\ Message("syncTB", n, e).epoch = e
    BY DEF Message
  <2>3. e <= CurrentEpoch + 1 /\ e <= final[n]
    BY <1>2, <2>2 DEF Safe, Sent
  <2> QED
    BY <1>1, <2>1, <2>3 DEF TypeInv, TypeOK
<1>4. UNCHANGED <<Running, MyShard, Others, phase, CurrentEpoch, chain, final,
                  TotalRep, seeds, sb, done, mixed>>
  BY DEF Running, MyShard, Others, TakeTB, others
<1>5. Sent'
  BY <1>1, <1>2, <1>4, SentKept
<1>6. Seeded' /\ Counted'
  BY <1>1, <1>4 DEF Safe, Seeded, SeedOf, OwnSeed, Synced, Counted
<1>7. Closing'
  <2> SUFFICES ASSUME NEW j \in Others, j \notin stray', j \in signed' \cup done
               PROVE  Closed(j)'
    BY <1>1, <1>4 DEF Closing, Synced
  <2>1. j \in Shards
    BY DEF Others
  <2>2. CASE j = k /\ ok
    <3>1. FB'[j] = e
      BY <1>1, <2>2 DEF TakeTB, TypeInv, TypeOK
    <3>2. n \in MembersOf(j, CurrentEpoch)
      BY <1>1, <1>3, <2>2, OneShard
    <3> QED
      BY <1>1, <1>3, <1>4, <2>2, <3>1, <3>2 DEF Closed
  <2>3. CASE ~(j = k /\ ok)
    <3>1. FB'[j] = FB[j] /\ j \notin stray /\ j \in signed \cup done
      BY <1>1, <2>1, <2>3 DEF TakeTB, TypeInv, TypeOK
    <3>2. Closed(j)
      BY <1>1, <3>1 DEF Safe, Closing
    <3> QED
      BY <1>4, <3>1, <3>2 DEF Closed
  <2> QED
    BY <2>2, <2>3
<1> QED
  BY <1>5, <1>6, <1>7 DEF Safe

\* A step that asks a member again.
LEMMA SafeAsked ==
  ASSUME TypeInv, Safe, Sent',
         UNCHANGED <<phase, CurrentEpoch, FB, TotalRep, seeds, sb, signed, done,
                     stray, mixed, chain, final>>
  PROVE  Safe'
BY DEF Safe, Seeded, SeedOf, OwnSeed, Closing, Closed, Counted, Synced, Running,
       MyShard, Others

LEMMA SafeTakeNotReady ==
  ASSUME TypeInv, Safe, NEW n, NEW e, TakeNotReady(n, e)
  PROVE  Safe'
<1> DEFINE S == {Request(ShardOf(n, Running), aski[ShardOf(n, Running)], CurrentEpoch)}
<1>1. net' \subseteq net \cup S
  BY Exchanged DEF TakeNotReady
<1>2. \A msg \in S : msg.kind = "requestSync" /\ msg.epoch = CurrentEpoch
  BY DEF Request, Message
<1> HIDE DEF S
<1>3. UNCHANGED <<phase, myVars, others>>
  BY DEF TakeNotReady
<1>4. Sent'
  BY <1>1, <1>2, <1>3, SentAsked DEF myVars
<1> QED
  BY <1>3, <1>4, SafeAsked DEF myVars, others

LEMMA SafeTimeout ==
  ASSUME TypeInv, Safe, NEW k \in Shards, Timeout(k)
  PROVE  Safe'
<1> DEFINE S == {Request(k, aski'[k], CurrentEpoch)}
<1>1. net' \subseteq net \cup S
  BY Posted DEF Timeout
<1>2. \A msg \in S : msg.kind = "requestSync" /\ msg.epoch = CurrentEpoch
  BY DEF Request, Message
<1> HIDE DEF S
<1>3. UNCHANGED <<phase, CurrentEpoch, FB, TotalRep, seeds, sb, signed, done, stray,
                  mixed, others>>
  BY DEF Timeout
<1>4. Sent'
  BY <1>1, <1>2, <1>3, SentAsked
<1> QED
  BY <1>3, <1>4, SafeAsked DEF others

\* A shard is done: its block is a seed and its reputations are taken over,
\* which are those of the epoch when the block is.
LEMMA SafeReceived ==
  ASSUME TypeInv, Safe, NEW k \in Shards, Received(k)
  PROVE  Safe'
<1>1. /\ phase = "sync" /\ CurrentEpoch \in 0..(Epochs - 1)
      /\ CurrentEpoch \in 0..Epochs /\ k \in signed
      /\ sb[k] \in SyncBlocks /\ SeedOf(sb[k], k, CurrentEpoch)
      /\ done' = done \cup {k} /\ k \in Others
      /\ tb[k].shard \in Shards
  <2>1. /\ phase = "sync" /\ k \in signed /\ k \in Others /\ sb[k] # None
        /\ done' = done \cup {k}
    BY DEF TypeInv, TypeOK, Received
  <2>2. CurrentEpoch \in 0..(Epochs - 1) /\ CurrentEpoch \in 0..Epochs
    BY <2>1, DealAssumption DEF TypeInv, TypeOK, Places
  <2>3. sb[k] \in SyncBlocks /\ SeedOf(sb[k], k, CurrentEpoch)
    BY <2>1 DEF TypeInv, TypeOK, Safe, Seeded
  <2>4. tb[k] \in FinalBlocks
    BY <2>1 DEF TypeInv, TypeOK
  <2> QED
    BY <2>1, <2>2, <2>3, <2>4 DEF FinalBlocks
<1>2. UNCHANGED <<Running, MyShard, Others, phase, CurrentEpoch, chain, final, sb,
                  signed, net>>
  BY DEF Received, Running, MyShard, Others, others
<1>3. Sent'
  BY <1>1, <1>2, SentKept
<1>4. Seeded'
  <2>1. \A j \in Shards : seeds'[j] = IF j = k THEN sb[k] ELSE seeds[j]
    BY DEF TypeInv, TypeOK, Received
  <2>2. ShardOf(Me, CurrentEpoch) \in Shards /\ ShardOf(Me, CurrentEpoch) # k
    BY <1>1, OneShard, RunningIs, DealAssumption DEF Others
  <2>3. done' \subseteq Shards
    BY <1>1 DEF TypeInv, TypeOK
  <2>4. OwnSeed(CurrentEpoch)'
    BY <1>1, <1>2, <2>1, <2>2 DEF Safe, Seeded, OwnSeed
  <2>5. \A j \in done' : SeedOf(seeds'[j], j, CurrentEpoch)
    BY <1>1, <2>1, <2>3 DEF Safe, Seeded
  <2> QED
    BY <1>1, <1>2, <2>4, <2>5 DEF Safe, Seeded, SeedOf, OwnSeed, Synced
<1>5. Closing'
  <2> SUFFICES ASSUME NEW j \in Others, j \notin stray', j \in signed \cup done'
               PROVE  Closed(j)'
    BY <1>1, <1>2 DEF Closing, Synced
  <2>1. j \in signed \cup done
    BY <1>1
  <2>2. j \notin stray /\ FB'[j] = FB[j]
    BY <1>1 DEF Others, Received, GetFinalTxBlock, TypeInv, TypeOK
  <2>3. Closed(j)
    BY <1>1, <2>1, <2>2 DEF Safe, Closing
  <2> QED
    BY <1>2, <2>2, <2>3 DEF Closed
<1>6. Counted'
  <2> SUFFICES ASSUME ~mixed, sb[k].epoch = CurrentEpoch, NEW n \in Nodes,
                      ShardOf(n, CurrentEpoch) \in done \cup {k, MyShard}
               PROVE  WindowOf(TotalRep'[n], n, CurrentEpoch)
    BY <1>1, <1>2 DEF Counted, Received
  <2>1. /\ sb[k].shard = k
        /\ sb[k].odd => MembersOf(k, CurrentEpoch) \cap Odd # {}
    <3>1. PICK m \in MembersOf(k, CurrentEpoch), d \in 0..CurrentEpoch :
            sb[k] = SyncBlock(m, d)
      BY <1>1 DEF SeedOf
    <3>2. m \in Nodes
      BY <1>1, Dealt DEF MembersOf
    <3>3. d = CurrentEpoch /\ sb[k].shard = ShardOf(m, d) /\ sb[k].odd = (m \in Odd)
      BY <3>1 DEF SyncBlock
    <3> QED
      BY <1>1, <3>1, <3>2, <3>3, OneShard
  <2>2. CASE n \in MembersOf(k, CurrentEpoch)
    <3>1. TotalRep'[n] = BlockRep(sb[k])
      BY <1>1, <2>1, <2>2 DEF Received
    <3>2. ShardOf(n, CurrentEpoch) = k
      BY <1>1, <2>2, OneShard
    <3>3. /\ DOMAIN BlockRep(sb[k]) = 1..Span(CurrentEpoch)
          /\ \A i \in 1..Span(CurrentEpoch) :
               /\ BlockRep(sb[k])[i].epoch = CurrentEpoch - Span(CurrentEpoch) + i
               /\ BlockRep(sb[k])[i].odd = sb[k].odd
      BY <1>1, BlockRepIs
    <3>4. sb[k].odd => \E d \in 0..CurrentEpoch :
                         MembersOf(ShardOf(n, d), d) \cap Odd # {}
      BY <1>1, <2>1, <3>2
    <3> QED
      BY <3>1, <3>3, <3>4 DEF WindowOf
  <2>3. CASE n \notin MembersOf(k, CurrentEpoch)
    <3>1. TotalRep'[n] = TotalRep[n]
      BY <1>1, <2>1, <2>3 DEF Received
    <3>2. ShardOf(n, CurrentEpoch) # k
      BY <1>1, <2>3, OneShard
    <3> QED
      BY <1>1, <3>1, <3>2 DEF Safe, Counted
  <2> QED
    BY <2>2, <2>3
<1> QED
  BY <1>3, <1>4, <1>5, <1>6 DEF Safe

\* All shards are.
LEMMA SafeSyncDone ==
  ASSUME TypeInv, Safe, SyncDone
  PROVE  Safe'
<1>1. /\ phase = "sync" /\ phase' = "closed" /\ done = Others
      /\ Running = CurrentEpoch /\ Running' = CurrentEpoch
      /\ MyShard = ShardOf(Me, CurrentEpoch) /\ MyShard' = MyShard
      /\ done \cup {MyShard} = Shards /\ CurrentEpoch \in 0..Epochs
      /\ CurrentEpoch \in Int
  BY RunningIs DEF SyncDone, Running, MyShard, Others
<1>2. UNCHANGED <<CurrentEpoch, chain, final, FB, TotalRep, seeds, net, stray, mixed>>
  BY DEF SyncDone, others
<1>3. Sent'
  BY <1>1, <1>2, SentKept
<1>4. Seeded'
  BY <1>1, <1>2 DEF Safe, Seeded, SeedOf, OwnSeed, Synced, Others
<1>5. Closing'
  BY <1>1, <1>2 DEF Safe, Closing, Closed, Synced, Others
<1>6. Counted'
  BY <1>1, <1>2, OneShard DEF Safe, Counted
<1> QED
  BY <1>3, <1>4, <1>5, <1>6 DEF Safe

LEMMA SafePhaseOnly ==
  ASSUME TypeInv, Safe, Panic \/ ShardProcess
  PROVE  Safe'
<1>1. UNCHANGED <<CurrentEpoch, chain, final, FB, TotalRep, seeds, net, stray, mixed>>
  BY DEF Panic, ShardProcess, myVars, others
<1>2. phase' = "panic" \/ (phase = "closed" /\ phase' = "work")
  BY DEF Panic, ShardProcess
<1>3. Sent'
  BY <1>1 DEF Safe, Sent
<1>4. Seeded' /\ Closing'
  BY <1>1, <1>2 DEF Safe, Seeded, SeedOf, OwnSeed, Closing, Closed, Synced
<1>5. Counted'
  BY <1>1, <1>2 DEF Safe, Counted
<1> QED
  BY <1>3, <1>4, <1>5 DEF Safe

\* A step of a message or of another node: what Me has stays, and what the
\* others have grows.
LEMMA SafeElsewhere ==
  ASSUME TypeInv, Safe, Sent', UNCHANGED <<phase, myVars>>,
         \A n \in Nodes : /\ final'[n] \in Int /\ final[n] <= final'[n]
                          /\ chain'[n] \in Int /\ chain[n] <= chain'[n]
  PROVE  Safe'
<1>1. UNCHANGED <<Running, MyShard, Others, Synced, phase, CurrentEpoch, FB,
                  TotalRep, seeds, sb, signed, done, stray, mixed>>
  BY DEF myVars, Running, MyShard, Others, Synced
<1>2. /\ CurrentEpoch \in 0..Epochs \/ ~(phase = "sync" \/ Synced)
      /\ \A n \in Nodes : final[n] \in Int /\ chain[n] \in Int
  BY DealAssumption DEF TypeInv, TypeOK, Places, Synced
<1>3. Counted'
  BY <1>1 DEF Safe, Counted
<1>4. Seeded'
  <2>1. ASSUME NEW b, NEW k \in Shards, SeedOf(b, k, CurrentEpoch),
               CurrentEpoch \in 0..Epochs
        PROVE  \E n \in MembersOf(k, CurrentEpoch), d \in 0..CurrentEpoch :
                 b = SyncBlock(n, d) /\ d <= chain'[n]
    BY <1>2, <2>1, SeedKept
  <2>2. done \subseteq Shards
    BY DEF TypeInv, TypeOK
  <2> QED
    BY <1>1, <1>2, <2>1, <2>2 DEF Safe, Seeded, SeedOf, OwnSeed
<1>5. Closing'
  <2>1. ASSUME NEW k \in Shards, Closed(k), CurrentEpoch \in 0..Epochs
        PROVE  Closed(k)'
    <3>1. \A n \in MembersOf(k, CurrentEpoch) : n \in Nodes
      BY <2>1, Dealt DEF MembersOf
    <3>2. \A n \in Nodes : 0..final[n] \subseteq 0..final'[n]
      BY <1>2
    <3> QED
      BY <1>1, <2>1, <3>1, <3>2 DEF Closed
  <2> QED
    BY <1>1, <1>2, <2>1 DEF Safe, Closing, Others
<1> QED
  BY <1>3, <1>4, <1>5 DEF Safe

LEMMA SafeDropLate ==
  ASSUME TypeInv, Safe, NEW kind, NEW n, NEW e, DropLate(kind, n, e)
  PROVE  Safe'
<1>1. UNCHANGED <<phase, myVars, others>> /\ net' \subseteq net
  BY DEF DropLate
<1>2. Sent'
  BY <1>1 DEF Safe, Sent, myVars, others
<1>3. \A i \in Nodes : final[i] \in Int /\ chain[i] \in Int
  BY DEF TypeInv, TypeOK
<1> QED
  BY <1>1, <1>2, <1>3, SafeElsewhere DEF others

\* Who answers has the blocks, and answers what was asked in some sync.
LEMMA SafeHandleRequestSync ==
  ASSUME TypeInv, Safe, NEW n, NEW e, HandleRequestSync(n, e)
  PROVE  Safe'
<1>1. Message("requestSync", n, e) \in net /\ net' \subseteq net \cup Reply(n, e)
  BY Exchanged DEF HandleRequestSync, Reply
<1>2. n \in Nodes \ {Me} /\ e \in 0..(Epochs - 1) /\ e <= CurrentEpoch
  <2>1. n \in Nodes \ {Me} /\ e \in 0..(Epochs - 1)
    BY <1>1, InNet
  <2>2. /\ Message("requestSync", n, e).kind = "requestSync"
        /\ Message("requestSync", n, e).epoch = e
    BY DEF Message
  <2> QED
    BY <1>1, <2>1, <2>2 DEF Safe, Sent
<1>3. UNCHANGED <<phase, myVars, others>>
  BY DEF HandleRequestSync
<1>4. /\ \A i \in Nodes : final[i] \in Int /\ chain[i] \in Int
      /\ CurrentEpoch \in Int
  BY DEF TypeInv, TypeOK
<1>5. Sent'
  <2>1. ASSUME NEW msg \in Reply(n, e)
        PROVE  /\ msg.kind # "requestSync"
               /\ msg.kind = "syncSB" =>
                    msg.epoch <= CurrentEpoch /\ msg.epoch <= chain[msg.node]
               /\ msg.kind = "syncTB" =>
                    msg.epoch <= CurrentEpoch + 1 /\ msg.epoch <= final[msg.node]
    <3>1. /\ msg.node = n /\ msg.kind \in {"syncNReady", "syncSB", "syncTB"}
          /\ msg.kind = "syncSB" => msg.epoch = e /\ e <= chain[n]
          /\ msg.kind = "syncTB" =>
               msg.epoch \in {e, e + 1} /\ msg.epoch <= final[n]
      BY <1>2, ReplyIs
    <3> QED
      BY <1>2, <1>4, <3>1
  <2> HIDE DEF Reply
  <2> QED
    BY <1>1, <1>3, <2>1 DEF Safe, Sent, myVars, others
<1> QED
  BY <1>3, <1>4, <1>5, SafeElsewhere DEF others

LEMMA SafeOthers ==
  ASSUME TypeInv, Safe, NEW n \in Nodes, OtherFinal(n) \/ OtherSyncBlock(n)
  PROVE  Safe'
<1>1. UNCHANGED <<phase, myVars, net>>
  BY DEF OtherFinal, OtherSyncBlock
<1>2. \A i \in Nodes : /\ final'[i] \in Int /\ final[i] <= final'[i]
                       /\ chain'[i] \in Int /\ chain[i] <= chain'[i]
  <2>1. \A i \in Nodes : final[i] \in Int /\ chain[i] \in Int
    BY DEF TypeInv, TypeOK
  <2>2. CASE OtherFinal(n)
    <3>1. \A i \in Nodes : final'[i] = IF i = n THEN final[i] + 1 ELSE final[i]
      BY <2>2 DEF OtherFinal, TypeInv, TypeOK
    <3>2. chain' = chain
      BY <2>2 DEF OtherFinal
    <3> QED
      BY <2>1, <3>1, <3>2
  <2>3. CASE OtherSyncBlock(n)
    <3>1. \A i \in Nodes : chain'[i] = IF i = n THEN final[i] ELSE chain[i]
      BY <2>3 DEF OtherSyncBlock, TypeInv, TypeOK
    <3>2. final' = final /\ final[n] > chain[n]
      BY <2>3 DEF OtherSyncBlock
    <3> QED
      BY <2>1, <3>1, <3>2
  <2> QED
    BY <2>2, <2>3
<1>3. Sent'
  <2>1. \A msg \in net : msg.node \in Nodes /\ msg.epoch \in Int
    BY DEF TypeInv, TypeOK, Msg
  <2>2. \A i \in Nodes : final[i] \in Int /\ chain[i] \in Int
    BY DEF TypeInv, TypeOK
  <2> QED
    BY <1>1, <1>2, <2>1, <2>2 DEF Safe, Sent, myVars
<1> QED
  BY <1>1, <1>2, <1>3, SafeElsewhere

LEMMA SafeNext ==
  ASSUME TypeInv, Safe, [Next]_vars
  PROVE  Safe'
<1>1. ASSUME FinalBlock \/ AddSyncBlock \/ SyncProcess \/ SyncDone
      PROVE  Safe'
  BY <1>1, SafeFinalBlock, SafeAddSyncBlock, SafeSyncProcess, SafeSyncDone
<1>2. ASSUME Panic \/ ShardProcess PROVE Safe'
  BY <1>2, SafePhaseOnly
<1>3. ASSUME NEW k \in Shards, Timeout(k) \/ Received(k) PROVE Safe'
  BY <1>3, SafeTimeout, SafeReceived
<1>4. ASSUME NEW kind, NEW n, NEW e, DropLate(kind, n, e) PROVE Safe'
  BY <1>4, SafeDropLate
<1>5. ASSUME NEW n, NEW e, \/ HandleRequestSync(n, e) \/ TakeSB(n, e)
                           \/ TakeTB(n, e) \/ TakeNotReady(n, e)
      PROVE  Safe'
  BY <1>5, SafeHandleRequestSync, SafeTakeSB, SafeTakeTB, SafeTakeNotReady
<1>6. ASSUME NEW n \in Nodes, OtherFinal(n) \/ OtherSyncBlock(n) PROVE Safe'
  BY <1>6, SafeOthers
<1>7. CASE UNCHANGED vars
  BY <1>7 DEF vars, Safe, Sent, Seeded, SeedOf, OwnSeed, Closing, Closed, Counted,
              Synced, Running, MyShard, Others
<1> QED
  BY <1>1, <1>2, <1>3, <1>4, <1>5, <1>6, <1>7 DEF Next

LEMMA SafeInvariant == Spec => [](TypeInv /\ Safe)
<1>1. Init => TypeInv /\ Safe
  BY TypesInit, SafeInit
<1>2. TypeInv /\ Safe /\ [Next]_vars => (TypeInv /\ Safe)'
  BY TypesNext, SafeNext
<1> QED
  BY <1>1, <1>2, PTL DEF Spec

\* Whatever is lost or late, no seed is empty after a sync, the own one is the
\* node's block of the epoch, and another shard's is a block that a member of
\* the shard has made, of the epoch or an earlier one.
THEOREM SeedsMade == Spec => []SeedsOfMembers
<1>1. TypeInv /\ Safe => SeedsOfMembers
  BY DEF Safe, Seeded, SeedOf, OwnSeed, SeedsOfMembers
<1> QED
  BY <1>1, SafeInvariant, PTL

\* After a sync every member's window holds the last epochs, each once, own
\* shard and others alike, however the shards are dealt, as long as every sync
\* block that was taken over was of the epoch just over.
THEOREM WindowsAgree == Spec => []RepAgrees
<1>1. TypeInv /\ Safe => RepAgrees
  <2> SUFFICES ASSUME TypeInv, Safe, Synced, ~mixed, NEW n \in Nodes
               PROVE  /\ [i \in DOMAIN TotalRep[n] |-> TotalRep[n][i].epoch]
                           = Window(CurrentEpoch)
                      /\ \A i \in DOMAIN TotalRep[n] : TotalRep[n][i].odd =>
                           \E e \in 0..CurrentEpoch :
                             MembersOf(ShardOf(n, e), e) \cap Odd # {}
    BY DEF RepAgrees
  <2>1. WindowOf(TotalRep[n], n, CurrentEpoch)
    BY DEF Safe, Counted, Synced
  <2>2. CurrentEpoch \in -1..Epochs
    BY DealAssumption DEF TypeInv, TypeOK
  <2> QED
    BY <2>1, <2>2, WindowIs DEF WindowOf
<1> QED
  BY <1>1, SafeInvariant, PTL

\* A verified final block that is kept of another shard is one that a member
\* has and that was signed by who leads the shard in the epoch just over:
\* never more than one epoch ahead, however late the answers are.
THEOREM FinalsOfTheEpoch == Spec => []FinalOfEpoch
<1>1. TypeInv /\ Safe => FinalOfEpoch
  BY DEF Safe, Closing, Closed, FinalOfEpoch
<1> QED
  BY <1>1, SafeInvariant, PTL
=============================================================================
