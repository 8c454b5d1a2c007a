------------------------------ MODULE RepChain ------------------------------
(***************************************************************************)
(* The reputation chain of a node (RepBlockChain.go, RepBlock.go,          *)
(* SyncBlock.go): the blocks in its database, the tip, the current blocks  *)
(* in memory and the iterator.  In an epoch the node mines and signs       *)
(* reputation blocks one after the other, then adds the sync block of its  *)
(* shard, then those of the other shards; the next epoch begins with       *)
(* ShardProcess.                                                           *)
(*                                                                         *)
(* A hash is told by what is hashed: the blocks of transactions under a    *)
(* reputation block make it unlike any other, so a number stands for them. *)
(***************************************************************************)
EXTENDS Integers, Sequences

CONSTANTS Chains,     \* the shards, each with its chain
          MyChain,    \* this node's
          LastEpoch,  \* bound
          LastBlock   \* bound: reputation blocks

ASSUME ChainAssumption ==
  /\ MyChain \in Chains
  /\ LastEpoch \in Nat /\ LastBlock \in Nat

Magic == [kind |-> "rep", no |-> 0]
RepHash(n) == [kind |-> "rep", no |-> n]
SyncHash(k, e) == [kind |-> "sync", shard |-> k, epoch |-> e]

RepHashes == {RepHash(n) : n \in 0..LastBlock}
SyncHashes == {SyncHash(k, e) : k \in Chains, e \in 0..LastEpoch}
Hashes == RepHashes \cup SyncHashes

\* PreviousSyncBlockHash: one entry before the first sync, or one for each
\* shard, <<>> where it is zero.
Hash32 == SyncHashes \cup {<< >>}
FirstHashes == <<Magic>>

VARIABLES
  bucket,                  \* the blocks bucket: hash to block
  lb,                      \* its entry "lb"
  Tip,
  current,                 \* CurrentRepBlock.Block
  sealed,                  \* its signature is there
  StartFlag,
  PreviousSyncBlockHash,
  epoch,                   \* the epoch that runs
  stage,                   \* "rep": reputation blocks, "sync": sync blocks
  signed                   \* history: the last epoch with a signed block, and
                           \* the hashes of its blocks, the newest first

chainVars == <<bucket, lb, Tip, current, sealed, StartFlag,
               PreviousSyncBlockHash, epoch, stage, signed>>

\* What the iterator reads: Prev is PrevRepBlockHash, syncs is
\* PrevSyncBlockHash.  A sync block read as a reputation block has no
\* StartBlock, which is FALSE then.
Block(h, start, prev, syncs) ==
  [Hash |-> h, StartBlock |-> start, Prev |-> prev, syncs |-> syncs]

NewGenesisRepBlock == Block(Magic, TRUE, Magic, FirstHashes)

NewRepBlock(n, start, prev) ==
  IF start THEN Block(RepHash(n), TRUE, Magic, PreviousSyncBlockHash)
  ELSE Block(RepHash(n), FALSE, prev, << >>)

NewSynBlock(e, prevs, prev) == Block(SyncHash(MyChain, e), FALSE, prev, prevs)

\* A sync block of shard k: its links are into chains of that shard.
Foreign(k) == Block(SyncHash(k, epoch), FALSE, << >>, << >>)

Stored(b, h) == [x \in DOMAIN b \cup {h.Hash} |-> IF x = h.Hash THEN h ELSE b[x]]

ChainInit ==
  /\ bucket = Stored(<< >>, NewGenesisRepBlock)
  /\ lb = Magic /\ Tip = Magic
  /\ current = NewGenesisRepBlock /\ sealed = TRUE
  /\ StartFlag = TRUE
  /\ PreviousSyncBlockHash = FirstHashes
  /\ epoch = 0 /\ stage = "rep"
  /\ signed = [epoch |-> -1, hashes |-> <<Magic>>]

Signed(h) ==
  [epoch |-> epoch,
   hashes |-> <<h>> \o (IF signed.epoch = epoch THEN signed.hashes ELSE << >>)]

\* Mistake: StartFlag stays up.
MineRepBlockStart(n) ==
  /\ stage = "rep" /\ sealed
  /\ current' = NewRepBlock(n, StartFlag, current.Hash)
  /\ sealed' = FALSE
  /\ UNCHANGED <<bucket, lb, Tip, PreviousSyncBlockHash, StartFlag, epoch, stage, signed>>

MineRepBlock(n) ==
  /\ stage = "rep" /\ sealed
  /\ current' = NewRepBlock(n, StartFlag, current.Hash)
  /\ sealed' = FALSE
  /\ StartFlag' = FALSE
  /\ UNCHANGED <<bucket, lb, Tip, PreviousSyncBlockHash, epoch, stage, signed>>

AddRepSig ==
  /\ ~sealed
  /\ sealed' = TRUE
  /\ bucket' = Stored(bucket, current)
  /\ lb' = current.Hash /\ Tip' = current.Hash
  /\ signed' = Signed(current.Hash)
  /\ UNCHANGED <<current, StartFlag, PreviousSyncBlockHash, epoch, stage>>

\* The block of another miner in the place of the node's own: the same
\* round, mined on the same block, another hash.
AddRepBlockFromOthers(n) ==
  /\ ~sealed
  /\ sealed' = TRUE
  /\ current' = [current EXCEPT !.Hash = RepHash(n)]
  /\ bucket' = Stored(bucket, current')
  /\ lb' = current'.Hash /\ Tip' = current'.Hash
  /\ signed' = Signed(RepHash(n))
  /\ UNCHANGED <<StartFlag, PreviousSyncBlockHash, epoch, stage>>

\* PreviousSyncBlockHash made anew, with the hash of shard k only.
OnlyHash(k, h) == [x \in Chains |-> IF x = k THEN h ELSE << >>]

\* Mistake: the hashes are cleared before the block is made.
AddSyncBlockCleared ==
  /\ stage = "rep" /\ sealed
  /\ LET b == NewSynBlock(epoch, OnlyHash(MyChain, SyncHash(MyChain, epoch)),
                          current.Hash) IN
       /\ bucket' = Stored(bucket, b)
       /\ Tip' = b.Hash
       /\ PreviousSyncBlockHash' = OnlyHash(MyChain, b.Hash)
  /\ stage' = "sync"
  /\ UNCHANGED <<lb, current, sealed, StartFlag, epoch, signed>>

\* On top of the last reputation block.
AddSyncBlock ==
  /\ stage = "rep" /\ sealed
  /\ LET b == NewSynBlock(epoch, PreviousSyncBlockHash, current.Hash) IN
       /\ bucket' = Stored(bucket, b)
       /\ Tip' = b.Hash
       /\ PreviousSyncBlockHash' = OnlyHash(MyChain, b.Hash)
  /\ stage' = "sync"
  /\ UNCHANGED <<lb, current, sealed, StartFlag, epoch, signed>>

\* The reputation chain of the other shard is not here.
AddSyncBlockFromOtherShards(k) ==
  /\ stage = "sync" /\ k # MyChain /\ PreviousSyncBlockHash[k] = << >>
  /\ bucket' = Stored(bucket, Foreign(k))
  /\ PreviousSyncBlockHash' = [PreviousSyncBlockHash EXCEPT ![k] = SyncHash(k, epoch)]
  /\ UNCHANGED <<lb, Tip, current, sealed, StartFlag, epoch, stage, signed>>

\* ShardProcess, once SyncProcess is over.
BeginEpoch ==
  /\ stage = "sync" /\ epoch < LastEpoch
  /\ \A k \in Chains : PreviousSyncBlockHash[k] # << >>
  /\ epoch' = epoch + 1 /\ stage' = "rep"
  /\ StartFlag' = TRUE
  /\ UNCHANGED <<bucket, lb, Tip, current, sealed, PreviousSyncBlockHash, signed>>

\* Mistake: the entry is set, and not the tip.
NewRepBlockchainBack ==
  /\ Tip # lb
  /\ lb' = Tip
  /\ UNCHANGED <<bucket, Tip, current, sealed, StartFlag, PreviousSyncBlockHash,
                 epoch, stage, signed>>

\* The database opened again: the tip is the last reputation block, though a
\* sync block may have come after it.
NewRepBlockchain ==
  /\ Tip # lb
  /\ Tip' = lb
  /\ UNCHANGED <<bucket, lb, current, sealed, StartFlag, PreviousSyncBlockHash,
                 epoch, stage, signed>>

Fresh == current.Hash.no + 1

ChainNext ==
  \/ Fresh <= LastBlock /\ MineRepBlock(Fresh)
  \/ AddRepSig
  \/ Fresh <= LastBlock /\ AddRepBlockFromOthers(Fresh)
  \/ AddSyncBlock
  \/ \E k \in Chains : AddSyncBlockFromOtherShards(k)
  \/ BeginEpoch
  \/ NewRepBlockchain

ChainSpec == ChainInit /\ [][ChainNext]_chainVars

----------------------------------------------------------------------------
(* The iterator: Next and NextFromSB take one step, from a block of either *)
(* kind.                                                                   *)

\* The hashes from h back to the start block, both included: NextToStart.
NextToStart[h \in Hashes \cup {<< >>}] ==
  IF h \notin DOMAIN bucket THEN <<h, "missing">>
  ELSE IF bucket[h].StartBlock THEN <<h>>
  ELSE <<h>> \o NextToStart[bucket[h].Prev]

\* TypeOK of the chain.
ChainTypeOK ==
  /\ DOMAIN bucket \subseteq Hashes
  /\ \A h \in DOMAIN bucket :
       /\ bucket[h].Hash = h
       /\ bucket[h].StartBlock \in BOOLEAN /\ bucket[h].Prev \in Hashes \cup {<< >>}
  /\ lb \in RepHashes /\ Tip \in Hashes
  /\ current.Hash \in RepHashes /\ sealed \in BOOLEAN /\ StartFlag \in BOOLEAN
  /\ PreviousSyncBlockHash \in {FirstHashes} \cup [Chains -> Hash32]
  /\ epoch \in 0..LastEpoch /\ stage \in {"rep", "sync"}

\* Read from the tip, the chain gives the sync block, if it is the tip, and
\* the reputation blocks back to the start block of their epoch, none left
\* out and none missing in the database: at any time, with blocks of other
\* miners and of other shards between, and after the database was opened
\* anew.
EpochReadable ==
  NextToStart[Tip] = (IF Tip \in SyncHashes THEN <<Tip>> ELSE << >>) \o signed.hashes

\* The sync block of an epoch and the start block of the next one name the
\* sync blocks of all shards of the epoch before.
SyncLinks ==
  LET before(e) == IF e = 0 THEN FirstHashes ELSE [k \in Chains |-> SyncHash(k, e - 1)]
  IN  /\ \A e \in 0..LastEpoch :
           SyncHash(MyChain, e) \in DOMAIN bucket =>
             bucket[SyncHash(MyChain, e)].syncs = before(e)
      /\ stage = "rep" /\ current.StartBlock /\ ~StartFlag => current.syncs = before(epoch)
=============================================================================
