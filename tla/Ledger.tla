------------------------------- MODULE Ledger -------------------------------
(***************************************************************************)
(* The chain of blocks each process keeps (txBlockChain.go) under the      *)
(* operations of DbRef that make and take over blocks (cache.go,           *)
(* cache_leader.go, cache_miner.go).  The leader of a shard makes          *)
(* transaction blocks, closes the epoch with a final block that lists the  *)
(* balances of its shard, and opens the next one with a start block that   *)
(* names the final blocks of all shards.  The miners take over both, and   *)
(* everyone takes over the final blocks of the other shards (Sync).        *)
(*                                                                         *)
(* A block on its way may come late, twice or never.  A process that stops *)
(* begins again with an empty database.                                    *)
(***************************************************************************)
EXTENDS Utxo

CONSTANTS Nodes,
          ShardNum,     \* ShardNum[n]: the shard of n
          Leader,       \* Leader[s]: the leader of s
          Deposits,       \* the balances InitializeProtocol adds
          BlockTxs,          \* transactions that blocks apply
          MaxHeight,    \* bound on the height of a block
          MaxBlocks,    \* bound on the final and start blocks made
          Failing,      \* processes that may stop or open the database anew
          Syncing,      \* processes that take part in Sync and the start block
          MaxRestarts   \* bound on the restarts of all processes together

ASSUME ShardAssumption ==
  /\ ShardNum \in [Nodes -> Shards]
  /\ Leader \in [Shards -> Nodes]
  /\ \A s \in Shards : ShardNum[Leader[s]] = s
ASSUME DepositsAssumption ==
  /\ Deposits \in [Accounts -> Value \ {0}]
  /\ BlockTxs \subseteq Tx
ASSUME BoundAssumption ==
  MaxHeight \in Nat /\ MaxBlocks \in Nat /\ MaxRestarts \in Nat

VARIABLES
  life,   \* starts of the process, the seconds and random numbers it uses
  disk,   \* the buckets of its database
  db,     \* TxBlockChain: LastTB, Height, LastFB, AccData, TXCache
  TxB,    \* DbRef.TxB
  FB,     \* DbRef.FB
  sent    \* final and start blocks made

refVars == <<TxB, FB>>
ledVars == <<life, disk, db, refVars, sent>>

----------------------------------------------------------------------------
(* Blocks. *)

\* Kind 0: transactions, 1: final, 2: start, 3: rolled back.
Kinds == 0..3

\* What Hash() covers: neither the height nor the kind nor the shard.  The
\* hash of different contents is different.
Hash(b) ==
  [ID |-> b.ID, PrevHash |-> b.PrevHash, Timestamp |-> b.Timestamp,
   body |-> IF b.Kind \in {0, 1} THEN b.TxArray ELSE b.TxHash]

WithHash(b) ==
  [f \in DOMAIN b \cup {"HashID"} |-> IF f = "HashID" THEN Hash(b) ELSE b[f]]

NoHashes == << >>
NoTxs == << >>

GenesisHash(shards) == [genesis |-> shards]

Genesis(kind, shard, hash) ==
  [ID |-> 0, Kind |-> kind, PrevHash |-> NoHashes, Timestamp |-> 0,
   Height |-> 0, ShardID |-> shard, TxArray |-> NoTxs, TxHash |-> NoHashes,
   HashID |-> hash]

\* NewGensisTxBlock; ShardID of a block that is not final stays zero.
NoShard == 0
NewGensisTxBlock == Genesis(0, NoShard, GenesisHash({}))

NewGensisFinalTxBlock(s) == Genesis(1, s, GenesisHash({s}))

\* MakeTxBlock: the transactions of a final block are balances.
MakeTxBlock(n, txs, prev, h, kind, shard) ==
  WithHash([ID |-> n, Kind |-> kind, PrevHash |-> prev,
            Timestamp |-> life[n], Height |-> h,
            ShardID |-> IF kind = 1 THEN shard ELSE NoShard,
            TxArray |-> txs, TxHash |-> NoHashes])

MakeStartBlock(n, hashes, prev, h) ==
  WithHash([ID |-> n, Kind |-> 2, PrevHash |-> prev, Timestamp |-> life[n],
            Height |-> h, ShardID |-> NoShard, TxArray |-> NoTxs,
            TxHash |-> hashes])

\* What Encode writes, and Decode reads, of a block: the shard of a final
\* block and the hashes of a start block only.
Serial(b) ==
  [b EXCEPT !.ShardID = IF b.Kind = 1 THEN @ ELSE NoShard,
            !.TxHash = IF b.Kind = 2 THEN @ ELSE NoHashes]

Verify(b, signer) == b.HashID = Hash(b) /\ b.ID = signer

----------------------------------------------------------------------------
(* TxBlockChain: its fields m and the buckets d of its database, a function *)
(* on the names of the buckets there are.                                   *)

LatestTxBlock(m, d) == CHOOSE b \in d.TB : b.HashID = m.LastTB
LatestFinalTxBlock(m, d, s) == CHOOSE b \in d.FB[s] : b.HashID = m.LastFB[s]

GenesisTips ==
  [LastTB |-> NewGensisTxBlock.HashID, Height |-> 0,
   LastFB |-> [s \in Shards |-> GenesisHash({s})], AccData |-> << >>,
   TXCache |-> {}]

\* Every bucket is made anew.
CreateNewBlockchain ==
  [m |-> GenesisTips,
   d |-> [TB |-> {NewGensisTxBlock},
          FB |-> [s \in Shards |-> {NewGensisFinalTxBlock(s)}],
          XFB |-> [s \in Shards |-> GenesisHash({s})],
          ACC |-> << >>,
          TX |-> {}]]

\* The blocks and the transactions are dropped, the final blocks and the
\* balances are kept and read.
NewBlockchain(d) ==
  [m |-> [GenesisTips EXCEPT !.LastFB = d.XFB, !.AccData = d.ACC],
   d |-> [d EXCEPT !.TB = {NewGensisTxBlock}, !.TX = {}]]

\* A block that is not higher is stored and is not the last one.
Higher(m, b) ==
  IF b.Height > m.Height
  THEN [m EXCEPT !.LastTB = b.HashID, !.Height = b.Height]
  ELSE m

\* The kind of every block GenerateTxBlock adds is refused.
AddBlock(m, d, b) ==
  IF b.Kind = 0
  THEN [m |-> m, d |-> d]
  ELSE [m |-> Higher(m, b), d |-> [d EXCEPT !.TB = @ \cup {Serial(b)}]]

\* Mistake: the balances are taken over in memory only.
AddFinalBlockUnsaved(m, d, b) ==
  [m |-> [Higher(m, b) EXCEPT !.LastFB[b.ShardID] = b.HashID,
                              !.AccData = Overwrite(b.TxArray, @)],
   d |-> [d EXCEPT !.TB = @ \cup {Serial(b)},
                   !.FB[b.ShardID] = @ \cup {Serial(b)},
                   !.XFB[b.ShardID] = b.HashID]]

AddFinalBlock(m, d, b) ==
  IF b.Kind # 1
  THEN [m |-> m, d |-> d]
  ELSE [m |-> [Higher(m, b) EXCEPT !.LastFB[b.ShardID] = b.HashID,
                                   !.AccData = Overwrite(b.TxArray, @)],
        d |-> [d EXCEPT !.TB = @ \cup {Serial(b)},
                        !.FB[b.ShardID] = @ \cup {Serial(b)},
                        !.XFB[b.ShardID] = b.HashID,
                        !.ACC = Overwrite(b.TxArray, @)]]

AddStartBlock(m, d, b) ==
  IF b.Kind # 2
  THEN [m |-> m, d |-> d]
  ELSE [m |-> Higher(m, b), d |-> [d EXCEPT !.TB = @ \cup {Serial(b)}]]

\* The balances of the shard, one transaction of an account to itself each.
MakeFinalTx(m, shard) ==
  Restrict(m.AccData, {a \in DOMAIN m.AccData : ShardIndex(a) = shard})

\* Mistake: the failure is not returned, the removal is committed.
ClearTxCommitted(d) == [d EXCEPT !.TB = {}]

\* The bucket of the transactions exists, so that making it fails and the
\* whole update is rolled back, the removal of the blocks too.
ClearTx(d) ==
  IF "TX" \in DOMAIN d THEN d ELSE [d EXCEPT !.TB = {}] @@ ("TX" :> {})

----------------------------------------------------------------------------
(* Processes. *)

LedOpened(m, d) ==
  [m |-> [m EXCEPT !.AccData = Overwrite(Deposits, @)],
   d |-> [d EXCEPT !.ACC = Overwrite(Deposits, @)]]

\* DbRef.New, and AddAccount of every wallet.
NewRef(c) ==
  [c |-> LedOpened(c.m, c.d), TxB |-> LatestTxBlock(c.m, c.d),
   FB |-> [s \in Shards |-> LatestFinalTxBlock(c.m, c.d, s)]]

LedInit ==
  LET new == NewRef(CreateNewBlockchain) IN
  /\ life = [n \in Nodes |-> 0]
  /\ disk = [n \in Nodes |-> new.c.d]
  /\ db = [n \in Nodes |-> new.c.m]
  /\ TxB = [n \in Nodes |-> new.TxB]
  /\ FB = [n \in Nodes |-> new.FB]
  /\ sent = {}

MayRestart(n) ==
  n \in Failing /\ MapThenSumSet(LAMBDA i : life[i], Nodes) < MaxRestarts

\* The process stops and is started again.
Restart(n) ==
  LET new == NewRef(CreateNewBlockchain) IN
  /\ MayRestart(n)
  /\ life' = [life EXCEPT ![n] = @ + 1]
  /\ disk' = [disk EXCEPT ![n] = new.c.d]
  /\ db' = [db EXCEPT ![n] = new.c.m]
  /\ TxB' = [TxB EXCEPT ![n] = new.TxB]
  /\ FB' = [FB EXCEPT ![n] = new.FB]
  /\ UNCHANGED sent

\* The database of a process after an operation c of its own.
Store(n, c) ==
  /\ disk' = [disk EXCEPT ![n] = c.d]
  /\ db' = [db EXCEPT ![n] = c.m]

\* The database is opened anew under a running process.
Reopen(n) ==
  /\ MayRestart(n)
  /\ life' = [life EXCEPT ![n] = @ + 1]
  /\ Store(n, NewBlockchain(disk[n]))
  /\ UNCHANGED <<refVars, sent>>

\* ShardProcess begins every epoch with it.
ShardBegin(n) ==
  /\ disk' = [disk EXCEPT ![n] = ClearTx(@)]
  /\ UNCHANGED <<life, db, refVars, sent>>

\* RecentBlock: every operation leaves the database closed, so that the
\* view fails, the result is nil, and HandleRequestTxB takes its length.
RequestTxB(n) == Restart(n)

\* A transaction of a block changes the balances; those of the final block
\* are taken from them.
UpdateBalances(n, t) ==
  /\ VerifyTx(db[n], t, ShardNum[n])
  /\ db' = [db EXCEPT ![n] = UpdateUTXO(@, t, ShardNum[n])]
  /\ UNCHANGED <<life, disk, refVars, sent>>

----------------------------------------------------------------------------
(* The leader. *)

IsLeader(n) == n = Leader[ShardNum[n]]

\* good = 1: a block; 2: the block rolled back before becomes one; 0: the
\* block is rolled back.  The hash stays that of the kind it was made with.
GenerateTxBlock(n, good) ==
  LET made == MakeTxBlock(n, NoTxs, db[n].LastTB, TxB[n].Height + 1,
                          IF good = 0 THEN 3 ELSE 0, NoShard)
      block == IF good = 2 THEN [TxB[n] EXCEPT !.Kind = 0] ELSE made
  IN  /\ IsLeader(n) /\ block.Height <= MaxHeight
      /\ good = 2 <=> TxB[n].Kind = 3
      /\ TxB' = [TxB EXCEPT ![n] = block]
      /\ IF good = 0 THEN UNCHANGED <<disk, db>>
                     ELSE Store(n, AddBlock(db[n], disk[n], block))
      /\ UNCHANGED <<life, FB, sent>>

GenerateFinalBlock(n) ==
  LET s == ShardNum[n]
      block == MakeTxBlock(n, MakeFinalTx(db[n], s), db[n].LastFB[s],
                           TxB[n].Height + 1, 1, s)
  IN  /\ IsLeader(n) /\ block.Height <= MaxHeight
      /\ Cardinality(sent) < MaxBlocks
      /\ TxB' = [TxB EXCEPT ![n] = block]
      /\ FB' = [FB EXCEPT ![n][s] = block]
      /\ Store(n, AddFinalBlock(db[n], disk[n], block))
      /\ sent' = sent \cup {Serial(block)}
      /\ UNCHANGED <<life>>

\* Its height is that of the final block of the shard plus one, whatever
\* the process has taken over since.
GenerateStartBlock(n) ==
  LET s == ShardNum[n]
      block == MakeStartBlock(n, [k \in Shards |-> FB[n][k].HashID],
                              db[n].LastFB[s], FB[n][s].Height + 1)
  IN  /\ IsLeader(n) /\ n \in Syncing /\ block.Height <= MaxHeight
      /\ Cardinality(sent \cup {Serial(block)}) <= MaxBlocks
      /\ TxB' = [TxB EXCEPT ![n] = block]
      /\ Store(n, AddStartBlock(db[n], disk[n], block))
      /\ sent' = sent \cup {Serial(block)}
      /\ UNCHANGED <<life, FB>>

----------------------------------------------------------------------------
(* Everyone. *)

\* Mistake: the block is put in its place before it is compared.
GetFinalTxBlockEarly(n, b) ==
  /\ FB' = [FB EXCEPT ![n][b.ShardID] = b]
  /\ IF b.Height = TxB[n].Height + 1 /\ b.Kind = 1
     THEN /\ TxB' = [TxB EXCEPT ![n] = b]
          /\ Store(n, AddFinalBlock(db[n], disk[n], b))
     ELSE UNCHANGED <<disk, db, TxB>>

\* The final block of its shard at a miner, which takes it for the next one
\* or drops it.
GetFinalTxBlock(n, b) ==
  IF b.Height = TxB[n].Height + 1 /\ b.Kind = 1
  THEN /\ FB' = [FB EXCEPT ![n][b.ShardID] = b]
       /\ TxB' = [TxB EXCEPT ![n] = b]
       /\ Store(n, AddFinalBlock(db[n], disk[n], b))
  ELSE UNCHANGED <<disk, db, refVars>>

WaitForFinalBlock(n, b) ==
  /\ b.Kind = 1 /\ b.ShardID = ShardNum[n]
  /\ n # Leader[b.ShardID]
  /\ GetFinalTxBlock(n, b)
  /\ UNCHANGED <<life, sent>>

\* ReceiveSyncProcess: the final block of another shard is put in its place
\* when it comes in, and taken over when the sync block is there too.
SyncTB(n, b) ==
  /\ n \in Syncing /\ b.Kind = 1 /\ b.ShardID # ShardNum[n]
  /\ Verify(b, Leader[b.ShardID])
  /\ FB' = [FB EXCEPT ![n][b.ShardID] = b]
  /\ UNCHANGED <<life, disk, db, TxB, sent>>

SyncDone(n, s) ==
  /\ FB[n][s] \in sent /\ s # ShardNum[n]
  /\ GetFinalTxBlock(n, FB[n][s])
  /\ UNCHANGED <<life, sent>>

\* Mistake: the final blocks it names are not compared.
GetStartTxBlockAny(n, b) ==
  /\ n # Leader[ShardNum[n]]
  /\ b.Height = TxB[n].Height + 1 /\ b.Kind = 2
  /\ Verify(b, Leader[ShardNum[n]])
  /\ TxB' = [TxB EXCEPT ![n] = b]
  /\ LET c == AddStartBlock(db[n], disk[n], b) IN
     Store(n, [c EXCEPT !.m.AccData = UploadAcc(c.d.ACC, ShardNum[n])])
  /\ UNCHANGED <<life, FB, sent>>

\* The start block of its leader at a miner.
GetStartTxBlock(n, b) ==
  /\ n # Leader[ShardNum[n]]
  /\ b.Height = TxB[n].Height + 1 /\ b.Kind = 2
  /\ Verify(b, Leader[ShardNum[n]])
  /\ \A s \in Shards : b.TxHash[s] = FB[n][s].HashID
  /\ TxB' = [TxB EXCEPT ![n] = b]
  /\ LET c == AddStartBlock(db[n], disk[n], b) IN
     Store(n, [c EXCEPT !.m.AccData = UploadAcc(c.d.ACC, ShardNum[n])])
  /\ UNCHANGED <<life, FB, sent>>

LedNext ==
  \E n \in Nodes :
    \/ Reopen(n)
    \/ ShardBegin(n)
    \/ RequestTxB(n)
    \/ \E t \in BlockTxs : UpdateBalances(n, t)
    \/ \E good \in {0, 1, 2} : GenerateTxBlock(n, good)
    \/ GenerateFinalBlock(n)
    \/ GenerateStartBlock(n)
    \/ \E b \in sent :
         \/ WaitForFinalBlock(n, b)
         \/ SyncTB(n, b)
         \/ GetStartTxBlock(n, b)
    \/ \E s \in Shards : SyncDone(n, s)

LedSpec == LedInit /\ [][LedNext]_ledVars

----------------------------------------------------------------------------
\* The blocks in hand, the stored and the changed balances and the heights
\* have their types; FB[i] is a final block of shard i whatever came.
LedTypeOK ==
  /\ life \in [Nodes -> Nat]
  /\ \A n \in Nodes :
       /\ disk[n].ACC \in Balances /\ db[n].AccData \in Balances
       /\ db[n].Height \in 0..MaxHeight
       /\ TxB[n].Kind \in Kinds /\ TxB[n].Height \in 0..MaxHeight
       /\ \A s \in Shards : FB[n][s].Kind = 1 /\ FB[n][s].ShardID = s

\* The tips a process keeps in memory name blocks its database has, and its
\* height is that of the last one: LatestTxBlock and LatestFinalTxBlock find
\* them, in any order of blocks, restarts and new epochs (ClearTx removes
\* the bucket of the blocks and is rolled back).
TipsStored ==
  \A n \in Nodes :
    /\ \E b \in disk[n].TB : b.HashID = db[n].LastTB /\ b.Height = db[n].Height
    /\ \A s \in Shards : \E b \in disk[n].FB[s] : b.HashID = db[n].LastFB[s]

\* The final block of its own shard that a process holds is the last one of
\* its database, so that the next one follows it (not so for the other
\* shards, whose block SyncProtocol.go:110 puts in place before
\* GetFinalTxBlock may refuse it).
OwnFinalStored ==
  \A n \in Nodes : FB[n][ShardNum[n]].HashID = db[n].LastFB[ShardNum[n]]

\* The balances in the database are those of the last final block of the
\* shard they belong to: no block of another shard and no change in memory
\* alters them.
BalancesOfFinal ==
  \A n \in Nodes : \A s \in Shards : \A b \in disk[n].FB[s] :
    b.HashID = db[n].LastFB[s] =>
      \A a \in DOMAIN b.TxArray : disk[n].ACC[a] = b.TxArray[a]

\* A miner that takes over a start block begins the epoch with the balances
\* its leader's final block lists, the ones the leader had.
StartAgrees ==
  [][\A n \in Nodes : \A b \in sent :
       GetStartTxBlock(n, b) =>
         \A f \in sent :
           f.Kind = 1 /\ f.HashID = b.TxHash[ShardNum[n]]
             => db'[n].AccData = f.TxArray]_ledVars
=============================================================================
