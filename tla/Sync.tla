-------------------------------- MODULE Sync --------------------------------
(***************************************************************************)
(* The end of an epoch (SyncProtocol.go).  A node adds the sync block of   *)
(* its own shard, then asks one member after the other of every other      *)
(* shard for the sync block and the final block of theirs.  The hashes of  *)
(* the sync blocks seed the next sharding and their TotalRep orders it, so *)
(* the nodes must end up with the same.                                    *)
(*                                                                         *)
(* One node, Me, is modelled in full.  The others are the members that     *)
(* answer it (HandleRequestSync); they go through the epochs on their own, *)
(* with Me or without it.  Who is in which shard is given by Deal.         *)
(***************************************************************************)
EXTENDS Integers, FiniteSets, Sequences, FiniteSetsExt

CONSTANTS Nodes,
          Me,
          Shards,
          Size,      \* ShardSize
          Deal,      \* Deal[e][k][i]: member i of shard k in epoch e
          Epochs,    \* bound: epochs with a sync block
          Windows,   \* SlidingWindows
          Odd,       \* nodes whose sync block is not their shard's
          Lossy,     \* nodes to and from which messages may be lost
          MaxInFlight, \* bound: a time-out asks again below it
          None

Index == 0..(Size - 1)

ASSUME DealAssumption ==
  /\ IsFiniteSet(Shards)
  /\ Me \in Nodes /\ Odd \subseteq Nodes \ {Me} /\ Lossy \subseteq Nodes
  /\ Size \in Nat \ {0} /\ Epochs \in Nat \ {0} /\ Windows \in Nat \ {0}
  /\ MaxInFlight \in Nat \ {0}
  /\ Deal \in [0..Epochs -> [Shards -> [Index -> Nodes]]]
  /\ \A e \in 0..Epochs, n \in Nodes :
       Cardinality({p \in Shards \X Index : Deal[e][p[1]][p[2]] = n}) = 1

ShardOf(n, e) == CHOOSE k \in Shards : \E i \in Index : Deal[e][k][i] = n
MembersOf(k, e) == {Deal[e][k][i] : i \in Index}
LeaderOf(k, e) == Deal[e][k][0]

VARIABLES
  phase,         \* of Me; "panic": it sent on a closed channel
  CurrentEpoch,  \* of Me: -1 in epoch 0, e once it syncs after epoch e
  chain,         \* CurrentSyncBlock.Epoch of each node
  final,         \* the epoch of the last final block of each node's shard
  FB,            \* FB[k]: the epoch of the block Me has of shard k
  TotalRep,      \* TotalRep[n], as Me has it
  seeds,         \* PreviousSyncBlockHash of Me: the blocks, None where zero
  aski,          \* whom Me asks
  sb, tb,        \* what ReceiveSyncProcess received of each shard last, or None
  signed,        \* shards with a verified final block: tbrxflag is down
  done,          \* shards whose ReceiveSyncProcess has returned
  net,           \* messages from Me and to Me, in a handler or a channel too
  stray,         \* history: shards whose FB is a block that was not verified
  mixed          \* history: a sync block of another epoch was taken over

vars == <<phase, CurrentEpoch, chain, final, FB, TotalRep, seeds, aski, sb, tb,
          signed, done, net, stray, mixed>>
myVars == <<CurrentEpoch, FB, TotalRep, seeds, aski, sb, tb, signed, done, stray,
            mixed>>
others == <<chain, final>>

\* The epoch whose shards Me works with.
Running == IF phase \in {"sync", "closed"} THEN CurrentEpoch ELSE CurrentEpoch + 1

MyShard == ShardOf(Me, Running)
Others == Shards \ {MyShard}

\* The reputation of a member in one epoch: which, and by whose count.
Rep == [epoch : 0..(Epochs - 1), odd : BOOLEAN]

\* A sync block, told by its shard and epoch.  An odd one has another hash
\* and another reputation, and its signature does not verify.
SyncBlocks == [shard : Shards, epoch : 0..(Epochs - 1), odd : BOOLEAN]

\* A final block, likewise.
FinalBlocks == [shard : Shards, epoch : 0..Epochs]

\* An empty entry is told from every block.
ASSUME NoneAssumption == None \notin SyncBlocks \cup FinalBlocks

SyncBlock(n, e) == [shard |-> ShardOf(n, e), epoch |-> e, odd |-> n \in Odd]

\* The epochs the window holds after epoch e, oldest first.
Window(e) ==
  LET n == Min({e + 1, Windows}) IN [i \in 1..n |-> e - n + i]

BlockRep(b) ==
  [i \in DOMAIN Window(b.epoch) |-> [epoch |-> Window(b.epoch)[i], odd |-> b.odd]]

Answers == {"syncNReady", "syncSB", "syncTB"}
Msg == [kind : {"requestSync"} \cup Answers, node : Nodes \ {Me},
        epoch : -1..Epochs]
Message(k, n, e) == [kind |-> k, node |-> n, epoch |-> e]

Init ==
  /\ phase = "work" /\ CurrentEpoch = -1
  /\ chain = [n \in Nodes |-> -1]
  /\ final = [n \in Nodes |-> -1]
  /\ FB = [k \in Shards |-> -1]
  /\ TotalRep = [n \in Nodes |-> << >>]
  /\ seeds = [k \in Shards |-> None]
  /\ aski = [k \in Shards |-> 0]
  /\ sb = [k \in Shards |-> None] /\ tb = [k \in Shards |-> None]
  /\ signed = {} /\ done = {} /\ net = {}
  /\ stray = {} /\ mixed = FALSE

\* sendData dials once.
Arriving(S) == {T \in SUBSET S : \A msg \in S \ T : msg.node \in Lossy}
Post(S) == \E T \in Arriving(S) : net' = net \cup T

\* A handler takes msg and the messages S go out.
Exchange(msg, S) ==
  /\ msg \in net
  /\ \E T \in Arriving(S) : net' = (net \ {msg}) \cup T

----------------------------------------------------------------------------
(* Me, up to the end of the epoch.                                         *)

\* FBSent: the final block of the shard is there.
FinalBlock ==
  /\ phase = "work" /\ CurrentEpoch + 1 < Epochs
  /\ phase' = "final"
  /\ final' = [final EXCEPT ![Me] = CurrentEpoch + 1]
  /\ FB' = [FB EXCEPT ![MyShard] = CurrentEpoch + 1]
  /\ stray' = stray \ {MyShard}
  /\ UNCHANGED <<CurrentEpoch, chain, TotalRep, seeds, aski, sb, tb, signed, done,
                 net, mixed>>

SetTotalRep(s, value) == Append(IF Len(s) = Windows THEN Tail(s) ELSE s, value)

\* The end of the collective signing, whatever its result.
AddSyncBlock ==
  /\ phase = "final"
  /\ phase' = "added"
  /\ chain' = [chain EXCEPT ![Me] = Running]
  /\ TotalRep' = [n \in Nodes |->
       IF n \in MembersOf(MyShard, Running)
         THEN SetTotalRep(TotalRep[n], [epoch |-> Running, odd |-> FALSE])
         ELSE TotalRep[n]]
  /\ seeds' = [k \in Shards |-> IF k = MyShard THEN SyncBlock(Me, Running) ELSE None]
  /\ UNCHANGED <<CurrentEpoch, final, FB, aski, sb, tb, signed, done, net, stray,
                 mixed>>

----------------------------------------------------------------------------
(* SyncProcess.                                                            *)

Request(k, i, e) == Message("requestSync", Deal[e][k][i], e)

\* The channels are new; what is on its way from the sync before is not.
SyncProcess ==
  /\ phase = "added"
  /\ phase' = "sync"
  /\ CurrentEpoch' = Running
  /\ aski' \in [Shards -> Index]
  /\ aski'[MyShard] = 0
  /\ done' = {}
  /\ Post({Request(k, aski'[k], Running) : k \in Others})
  /\ UNCHANGED <<others, FB, TotalRep, seeds, sb, tb, signed, stray, mixed>>

\* The loop of ReceiveSyncProcess for shard k.
Receives(k) ==
  /\ phase = "sync" /\ k \in Others \ done
  /\ sb[k] = None \/ k \notin signed

\* A message reaches its channel while SyncFlag is up.
Take(kind, n, e) ==
  /\ Message(kind, n, e) \in net
  /\ net' = net \ {Message(kind, n, e)}

\* The block is taken whether its signature verifies or not.
TakeSB(n, e) ==
  LET k == ShardOf(n, Running) IN
  /\ Receives(k)
  /\ Take("syncSB", n, e)
  /\ sb' = [sb EXCEPT ![k] = SyncBlock(n, e)]
  /\ UNCHANGED <<phase, CurrentEpoch, others, FB, TotalRep, seeds, aski, tb, signed,
                 done, stray, mixed>>

\* Mistake: the block is not verified.
TakeTBUnverified(n, e) ==
  LET k == ShardOf(n, Running) IN
  /\ Receives(k)
  /\ Take("syncTB", n, e)
  /\ tb' = [tb EXCEPT ![k] = [shard |-> ShardOf(n, e), epoch |-> e]]
  /\ FB' = [FB EXCEPT ![k] = e]
  /\ signed' = signed \cup {k} /\ stray' = stray \ {k}
  /\ UNCHANGED <<phase, CurrentEpoch, others, TotalRep, seeds, aski, sb, done, mixed>>

\* The leader of the shard has signed the block: it was the leader of the
\* block's shard then.  The loop remembers the block in any case.
TakeTB(n, e) ==
  LET k == ShardOf(n, Running)
      block == [shard |-> ShardOf(n, e), epoch |-> e]
      ok == LeaderOf(block.shard, e) = LeaderOf(k, Running)
  IN
  /\ Receives(k)
  /\ Take("syncTB", n, e)
  /\ tb' = [tb EXCEPT ![k] = block]
  /\ IF ok
       THEN /\ signed' = signed \cup {k}
            /\ FB' = [FB EXCEPT ![k] = e]
            /\ stray' = stray \ {k}
       ELSE UNCHANGED <<signed, FB, stray>>
  /\ UNCHANGED <<phase, CurrentEpoch, others, TotalRep, seeds, aski, sb, done, mixed>>

\* After a while the same member is asked again.
TakeNotReady(n, e) ==
  LET k == ShardOf(n, Running) IN
  /\ Receives(k)
  /\ Exchange(Message("syncNReady", n, e), {Request(k, aski[k], CurrentEpoch)})
  /\ UNCHANGED <<phase, myVars, others>>

\* Mistake: aski runs past the last member.
TimeoutPast(k) ==
  /\ Receives(k) /\ Cardinality(net) < MaxInFlight
  /\ aski' = [aski EXCEPT ![k] = IF @ = Size THEN 0 ELSE @ + 1]
  /\ Post({Request(k, (aski[k] + 1) % Size, CurrentEpoch)})
  /\ UNCHANGED <<phase, CurrentEpoch, others, FB, TotalRep, seeds, sb, tb, signed,
                 done, stray, mixed>>

\* Mistake: the next member is not asked.
TimeoutUnasked(k) ==
  /\ Receives(k) /\ Cardinality(net) < MaxInFlight
  /\ aski' = [aski EXCEPT ![k] = (@ + 1) % Size]
  /\ UNCHANGED <<phase, CurrentEpoch, others, FB, TotalRep, seeds, sb, tb, signed,
                 done, net, stray, mixed>>

Timeout(k) ==
  /\ Receives(k) /\ Cardinality(net) < MaxInFlight
  /\ aski' = [aski EXCEPT ![k] = (@ + 1) % Size]
  /\ Post({Request(k, aski'[k], CurrentEpoch)})
  /\ UNCHANGED <<phase, CurrentEpoch, others, FB, TotalRep, seeds, sb, tb, signed,
                 done, stray, mixed>>

\* GetFinalTxBlock refuses a block of another height than the next one; the
\* heights are left out.  It is given the block received last, which need not
\* be the one that was verified.
GetFinalTxBlock(k) ==
  \/ /\ FB' = [FB EXCEPT ![tb[k].shard] = tb[k].epoch]
     /\ stray' = stray \cup {tb[k].shard}
  \/ UNCHANGED <<FB, stray>>

\* Mistake: the reputations are not taken over.
ReceivedHashOnly(k) ==
  /\ phase = "sync" /\ k \in Others \ done
  /\ sb[k] # None /\ k \in signed
  /\ GetFinalTxBlock(k)
  /\ seeds' = [seeds EXCEPT ![k] = sb[k]]
  /\ done' = done \cup {k}
  /\ mixed' = (mixed \/ sb[k].epoch # CurrentEpoch)
  /\ UNCHANGED <<phase, CurrentEpoch, others, TotalRep, aski, sb, tb, signed, net>>

\* GetFinalTxBlock, UpdateTotalRepInMS and AddSyncBlockFromOtherShards.
Received(k) ==
  /\ phase = "sync" /\ k \in Others \ done
  /\ sb[k] # None /\ k \in signed
  /\ GetFinalTxBlock(k)
  /\ TotalRep' = [n \in Nodes |->
       IF n \in MembersOf(sb[k].shard, sb[k].epoch) THEN BlockRep(sb[k]) ELSE TotalRep[n]]
  /\ seeds' = [seeds EXCEPT ![k] = sb[k]]
  /\ done' = done \cup {k}
  /\ mixed' = (mixed \/ sb[k].epoch # CurrentEpoch)
  /\ UNCHANGED <<phase, CurrentEpoch, others, aski, sb, tb, signed, net>>

\* The channels are closed, and what is in their buffers is gone.
SyncDone ==
  /\ phase = "sync" /\ done = Others
  /\ phase' = "closed"
  /\ sb' = [k \in Shards |-> None] /\ tb' = [k \in Shards |-> None]
  /\ signed' = {}
  /\ UNCHANGED <<CurrentEpoch, others, FB, TotalRep, seeds, aski, done, net, stray,
                 mixed>>

\* They are closed while a handler is about to send the answer it has.
Panic ==
  /\ phase = "sync" /\ done = Others
  /\ \E msg \in net : msg.kind \in Answers
  /\ phase' = "panic"
  /\ UNCHANGED <<myVars, others, net>>

ShardProcess ==
  /\ phase = "closed"
  /\ phase' = "work"
  /\ UNCHANGED <<myVars, others, net>>

\* SyncFlag is down, or nobody reads the channel any more.
DropLate(kind, n, e) ==
  /\ kind \in Answers
  /\ phase = "sync" => ShardOf(n, Running) \notin Others \ done
  /\ Message(kind, n, e) \in net
  /\ net' = net \ {Message(kind, n, e)}
  /\ UNCHANGED <<phase, myVars, others>>

----------------------------------------------------------------------------
(* The other nodes.                                                        *)

\* FB[HistoryShard[e]] of node n while its last sync block is that of e: the
\* block of the epoch after is there first, when n has stayed in the shard.
LastFinal(n, e) ==
  IF final[n] > e /\ ShardOf(n, final[n]) = ShardOf(n, e) THEN final[n] ELSE e

\* Mistake: the epoch that is asked for is not looked at.
HandleRequestSyncAny(n, e) ==
  /\ Exchange(Message("requestSync", n, e),
       IF chain[n] < 0 THEN {Message("syncNReady", n, -1)}
       ELSE {Message("syncTB", n, LastFinal(n, chain[n])), Message("syncSB", n, chain[n])})
  /\ UNCHANGED <<phase, myVars, others>>

\* A node that is in a later epoch says nothing.
HandleRequestSync(n, e) ==
  /\ Exchange(Message("requestSync", n, e),
       IF e > chain[n] THEN {Message("syncNReady", n, -1)}
       ELSE IF e = chain[n]
         THEN {Message("syncTB", n, LastFinal(n, e)), Message("syncSB", n, e)}
       ELSE {})
  /\ UNCHANGED <<phase, myVars, others>>

\* Node n has the blocks of the other shards and its own shard's next.
OtherFinal(n) ==
  /\ n # Me /\ final[n] = chain[n] /\ final[n] < Epochs
  /\ chain[n] >= 0 => \A k \in Shards \ {ShardOf(n, chain[n])} :
                        \E m \in MembersOf(k, chain[n]) : chain[m] >= chain[n]
  /\ final' = [final EXCEPT ![n] = @ + 1]
  /\ UNCHANGED <<phase, myVars, chain, net>>

OtherSyncBlock(n) ==
  /\ n # Me /\ final[n] > chain[n] /\ final[n] < Epochs
  /\ chain' = [chain EXCEPT ![n] = final[n]]
  /\ UNCHANGED <<phase, myVars, final, net>>

----------------------------------------------------------------------------
Next ==
  \/ FinalBlock \/ AddSyncBlock \/ SyncProcess \/ SyncDone \/ Panic \/ ShardProcess
  \/ \E k \in Shards : Timeout(k) \/ Received(k)
  \/ \E msg \in net :
       \/ DropLate(msg.kind, msg.node, msg.epoch)
       \/ HandleRequestSync(msg.node, msg.epoch)
       \/ TakeSB(msg.node, msg.epoch)
       \/ TakeTB(msg.node, msg.epoch)
       \/ TakeNotReady(msg.node, msg.epoch)
  \/ \E n \in Nodes : OtherFinal(n) \/ OtherSyncBlock(n)

Spec == Init /\ [][Next]_vars

\* The loops, their time-outs and the handlers keep running, and the other
\* nodes go on.  Of what is sent again and again to a member and by it,
\* something arrives; a channel is a queue, so that an answer in it is taken
\* though others come.
FairSpec ==
  /\ Spec
  /\ WF_vars(\E n \in Nodes : OtherFinal(n) \/ OtherSyncBlock(n))
  /\ WF_vars(\E msg \in net : HandleRequestSync(msg.node, msg.epoch))
  /\ WF_vars(\E msg \in net : TakeNotReady(msg.node, msg.epoch))
  /\ WF_vars(\E msg \in net : TakeSB(msg.node, msg.epoch))
  /\ WF_vars(\E msg \in net : DropLate(msg.kind, msg.node, msg.epoch))
  /\ WF_vars(\E k \in Shards : Received(k))
  /\ SF_vars(\E k \in Shards :
               Timeout(k) /\ Request(k, aski'[k], CurrentEpoch) \in net')
  /\ \A n \in Nodes \ {Me} :
       /\ WF_vars(\E e \in 0..Epochs : TakeTB(n, e))
       /\ SF_vars(\E e \in 0..(Epochs - 1) :
                    /\ HandleRequestSync(n, e)
                    /\ Message("syncSB", n, e) \in net'
                    /\ Message("syncTB", n, LastFinal(n, e)) \in net')

----------------------------------------------------------------------------
\* Types of the state: every index and epoch within its bounds
\* (SyncProtocol.go, the declarations).
TypeOK ==
  /\ phase \in {"work", "final", "added", "sync", "closed", "panic"}
  /\ CurrentEpoch \in -1..(Epochs - 1)
  /\ chain \in [Nodes -> -1..(Epochs - 1)] /\ final \in [Nodes -> -1..Epochs]
  /\ FB \in [Shards -> -1..Epochs]
  /\ \A n \in Nodes : TotalRep[n] \in UNION {[1..l -> Rep] : l \in 0..Windows}
  /\ seeds \in [Shards -> SyncBlocks \cup {None}]
  /\ aski \in [Shards -> Index]
  /\ sb \in [Shards -> SyncBlocks \cup {None}]
  /\ tb \in [Shards -> FinalBlocks \cup {None}]
  /\ signed \subseteq {k \in Shards : tb[k] # None} /\ done \subseteq Shards
  /\ stray \subseteq Shards /\ mixed \in BOOLEAN
  /\ net \subseteq Msg

Synced == phase \in {"closed", "work", "final"} /\ CurrentEpoch >= 0

\* The entry of another shard "k" is a block that a member asked in this sync
\* has made, no later than the epoch just over; the own one is the node's own
\* block of that epoch, and none is empty (SyncProtocol.go:84-96, 127-137,
\* 176-188; RepBlockChain.go:124-128, 158).
SeedsOfMembers ==
  Synced => \A k \in Shards :
    IF k = ShardOf(Me, CurrentEpoch)
      THEN seeds[k] = SyncBlock(Me, CurrentEpoch)
      ELSE \E n \in MembersOf(k, CurrentEpoch), e \in 0..CurrentEpoch :
             seeds[k] = SyncBlock(n, e) /\ e <= chain[n]

\* "PreviousSyncBlockHash the hash array of previous sync block from all the
\* shards" (shard_variable.go:21): what seeds the next sharding are the blocks
\* of the epoch just over, one of every shard, and those of the shard itself
\* unless a member that has another was asked.  With none of these every node
\* deals the same shards.  Nothing in an answer says of which epoch it is
\* (client_variable.go, syncSBInfo), and SyncFlag is up again in the next sync:
\* the code does not keep this.
SeedsAgree ==
  Synced => \A k \in Shards :
    /\ seeds[k] # None
    /\ seeds[k].shard = k /\ seeds[k].epoch = CurrentEpoch
    /\ seeds[k].odd => MembersOf(k, CurrentEpoch) \cap Odd # {}

\* After the sync the node has of every member the reputations of the same
\* last epochs, each counted once, though it adds those of its own shard and
\* copies those of the others and the shards are dealt anew; as long as no
\* sync block of another epoch was taken over (SyncBlock.go:44-56, 130-137;
\* shard_struct.go:46-67).
RepAgrees ==
  Synced /\ ~mixed => \A n \in Nodes :
    /\ [i \in DOMAIN TotalRep[n] |-> TotalRep[n][i].epoch] = Window(CurrentEpoch)
    /\ \A i \in DOMAIN TotalRep[n] :
         TotalRep[n][i].odd =>
           \E e \in 0..CurrentEpoch : MembersOf(ShardOf(n, e), e) \cap Odd # {}

\* The final block that is kept of another shard is that of the epoch, with
\* two exceptions.  A member may send another one, the next one when it is
\* ahead or an old one when the answer is late, and its signature verifies
\* when the leader of the shard led the shard of the block then
\* (SyncProtocol.go:104-113, 180-185).  And GetFinalTxBlock is given the block
\* received last, verified or not (SyncProtocol.go:99, 131).
FinalOfEpoch ==
  Synced => \A k \in Shards \ ({ShardOf(Me, CurrentEpoch)} \cup stray) :
    \/ FB[k] = CurrentEpoch
    \/ FB[k] = CurrentEpoch + 1 /\ phase = "final" /\ k = MyShard
    \/ \E n \in MembersOf(k, CurrentEpoch) :
         /\ FB[k] \in 0..final[n] /\ FB[k] <= CurrentEpoch + 1
         /\ LeaderOf(ShardOf(n, FB[k]), FB[k]) = LeaderOf(k, CurrentEpoch)

\* A sync ends, whatever is lost or not ready yet, unless all members of some
\* shard are in a later epoch already: these say nothing any more, and the
\* node asks for ever (SyncProtocol.go:78-125, 176-188).
SyncEnds ==
  \A k \in Shards :
    phase = "sync" /\ k \in Others \ done ~>
      \/ phase # "sync"
      \/ k \in done
      \/ \A n \in MembersOf(k, CurrentEpoch) : chain[n] > CurrentEpoch
=============================================================================
