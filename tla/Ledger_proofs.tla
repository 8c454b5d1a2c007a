--------------------------- MODULE Ledger_proofs ---------------------------
(***************************************************************************)
(* The safety properties of Ledger for every set of processes, shards and  *)
(* accounts and every bound.                                               *)
(*                                                                         *)
(* The invariant is about the database d of a process together with what   *)
(* the process keeps of it in memory, m (Held): the operations of          *)
(* TxBlockChain keep it, and the steps of Ledger use nothing else of them. *)
(* That the balances stay those of the last final blocks needs that a      *)
(* final block lists accounts of its own shard only, so the blocks on      *)
(* their way are part of the invariant too (SentBlock).                    *)
(***************************************************************************)
EXTENDS Ledger, Utxo_proofs

BlockFields ==
  {"ID", "Kind", "PrevHash", "Timestamp", "Height", "ShardID", "TxArray",
   "TxHash", "HashID"}
TipFields == {"LastTB", "Height", "LastFB", "AccData", "TXCache"}
Buckets == {"TB", "FB", "XFB", "ACC", "TX"}

AccountsOf(s) == {a \in Accounts : ShardIndex(a) = s}

IsBlock(b) ==
  /\ DOMAIN b = BlockFields
  /\ b.Kind \in Kinds
  /\ b.Height \in 0..MaxHeight

\* A final block lists the accounts of its shard; the first one lists none.
FinalBlockOf(b, s) ==
  /\ IsBlock(b) /\ b.Kind = 1 /\ b.ShardID = s
  /\ \/ b.HashID = GenesisHash({s}) /\ b.TxArray = NoTxs
     \/ b.HashID = Hash(b) /\ b.TxArray \in [AccountsOf(s) -> Value]

SentBlock(b) ==
  /\ IsBlock(b) /\ b.HashID = Hash(b) /\ b.Kind \in {1, 2}
  /\ b.Kind = 1 =>
       /\ b.ShardID \in Shards
       /\ b.TxArray \in [AccountsOf(b.ShardID) -> Value]

IsBalances(acc) == DOMAIN acc \subseteq Accounts /\ acc \in [DOMAIN acc -> Value]

\* The balances of the bucket are those of the block.
Listed(b, acc) == \A a \in DOMAIN b.TxArray : acc[a] = b.TxArray[a]

\* What a process keeps in memory.
Tips(m, own) ==
  /\ DOMAIN m = TipFields
  /\ m.Height \in 0..MaxHeight
  /\ m.LastFB = [s \in Shards |-> m.LastFB[s]]
  /\ IsBalances(m.AccData) /\ AccountsOf(own) \subseteq DOMAIN m.AccData

\* Its buckets.
StoredTips(d) ==
  /\ DOMAIN d = Buckets
  /\ d.FB = [s \in Shards |-> d.FB[s]]
  /\ d.XFB = [s \in Shards |-> d.XFB[s]]
  /\ \A s \in Shards : \A b \in d.FB[s] : FinalBlockOf(b, s)
  /\ \A s \in Shards : \E b \in d.FB[s] : b.HashID = d.XFB[s]
  /\ d.ACC \in [Accounts -> Value]
  /\ \A s \in Shards : \A b \in d.FB[s] : b.HashID = d.XFB[s] => Listed(b, d.ACC)

Held(m, d, own) ==
  /\ Tips(m, own)
  /\ StoredTips(d)
  /\ m.LastFB = d.XFB
  /\ \E b \in d.TB : b.HashID = m.LastTB /\ b.Height = m.Height

LedgerInv ==
  /\ life \in [Nodes -> Nat]
  /\ disk = [n \in Nodes |-> disk[n]] /\ db = [n \in Nodes |-> db[n]]
  /\ TxB = [n \in Nodes |-> TxB[n]] /\ FB = [n \in Nodes |-> FB[n]]
  /\ \A b \in sent : SentBlock(b)
  /\ \A n \in Nodes :
       /\ Held(db[n], disk[n], ShardNum[n])
       /\ IsBlock(TxB[n])
       /\ DOMAIN FB[n] = Shards
       /\ \A s \in Shards : FinalBlockOf(FB[n][s], s)
       /\ FB[n][ShardNum[n]].HashID = db[n].LastFB[ShardNum[n]]

----------------------------------------------------------------------------
(* Operators. *)

LEMMA BalancesAre ==
  ASSUME NEW acc
  PROVE  acc \in Balances <=> IsBalances(acc)
BY DEF Balances, IsBalances

LEMMA NoBalances == IsBalances(NoTxs) /\ DOMAIN NoTxs = {}
<1>1. << >> \in [{} -> Value]
  OBVIOUS
<1> QED
  BY <1>1 DEF NoTxs, IsBalances

LEMMA OverwriteBalances ==
  ASSUME NEW new, NEW acc, IsBalances(new), IsBalances(acc)
  PROVE  /\ IsBalances(Overwrite(new, acc))
         /\ DOMAIN Overwrite(new, acc) = DOMAIN new \cup DOMAIN acc
         /\ \A a \in DOMAIN new : Overwrite(new, acc)[a] = new[a]
         /\ \A a \in DOMAIN acc \ DOMAIN new : Overwrite(new, acc)[a] = acc[a]
BY DEF IsBalances, Overwrite

LEMMA OverwriteBucket ==
  ASSUME NEW new, NEW acc \in [Accounts -> Value], IsBalances(new)
  PROVE  Overwrite(new, acc) \in [Accounts -> Value]
BY DEF IsBalances, Overwrite

\* A transaction of a block leaves balances, and no account is forgotten.
LEMMA UpdateUTXOKeeps ==
  ASSUME NEW m, NEW own, Tips(m, own), NEW t \in Tx, NEW s
  PROVE  /\ Tips(UpdateUTXO(m, t, s), own)
         /\ UpdateUTXO(m, t, s).LastFB = m.LastFB
         /\ UpdateUTXO(m, t, s).LastTB = m.LastTB
         /\ UpdateUTXO(m, t, s).Height = m.Height
<1> DEFINE taken == IF t \in m.TXCache THEN {}
                    ELSE Payers(t, s) \cap DOMAIN m.AccData
           acc == LockUTXO(m.AccData, t, taken)
           given == Give(acc, t, Payees(t, s))
<1>1. m.AccData \in Balances /\ AccountsOf(own) \subseteq DOMAIN m.AccData
  BY BalancesAre DEF Tips
<1>2. taken \in SUBSET Accounts /\ Payees(t, s) \in SUBSET Accounts
  BY PartiesAre
<1>3. UpdateUTXO(m, t, s) = [m EXCEPT !.AccData = given]
  BY DEF UpdateUTXO
<1> HIDE DEF taken
<1>4. acc \in Balances /\ DOMAIN acc = taken \cup DOMAIN m.AccData
  BY <1>1, <1>2, LockIs
<1> HIDE DEF acc
<1>5. given \in Balances /\ DOMAIN given = Payees(t, s) \cup DOMAIN acc
  BY <1>2, <1>4, GiveIs
<1> HIDE DEF given
<1>6. IsBalances(given) /\ AccountsOf(own) \subseteq DOMAIN given
  BY <1>1, <1>4, <1>5, BalancesAre
<1> QED
  BY <1>3, <1>6 DEF Tips, TipFields

\* Putting a block into bytes keeps what the invariant says of it.
LEMMA SerialKeeps ==
  ASSUME NEW b, IsBlock(b)
  PROVE  /\ IsBlock(Serial(b))
         /\ Serial(b).HashID = b.HashID /\ Serial(b).Height = b.Height
         /\ Serial(b).Kind = b.Kind /\ Serial(b).TxArray = b.TxArray
         /\ b.Kind = 1 => Serial(b).ShardID = b.ShardID
         /\ b.Kind \in {1, 2} => Hash(Serial(b)) = Hash(b)
BY DEF IsBlock, BlockFields, Serial, Hash, NoHashes, NoShard

\* Two final blocks of a shard with the same hash list the same balances.
LEMMA SameHash ==
  ASSUME NEW s, NEW b, NEW c, FinalBlockOf(b, s), FinalBlockOf(c, s),
         b.HashID = c.HashID
  PROVE  b.TxArray = c.TxArray
BY DEF FinalBlockOf, Hash, GenesisHash

LEMMA MakeTxBlockIs ==
  ASSUME NEW n, NEW txs, NEW prev, NEW h \in 0..MaxHeight, NEW kind \in Kinds,
         NEW shard
  PROVE  LET b == MakeTxBlock(n, txs, prev, h, kind, shard) IN
         /\ IsBlock(b) /\ b.Kind = kind /\ b.Height = h
         /\ b.TxArray = txs /\ b.HashID = Hash(b)
         /\ kind = 1 => b.ShardID = shard
BY DEF MakeTxBlock, WithHash, IsBlock, BlockFields, Hash, NoHashes, NoShard

LEMMA MakeStartBlockIs ==
  ASSUME NEW n, NEW hashes, NEW prev, NEW h \in 0..MaxHeight
  PROVE  LET b == MakeStartBlock(n, hashes, prev, h) IN
         IsBlock(b) /\ b.Kind = 2 /\ b.HashID = Hash(b)
BY DEF MakeStartBlock, WithHash, IsBlock, BlockFields, Hash, Kinds, NoShard,
       NoTxs

LEMMA GenesisIs ==
  /\ IsBlock(NewGensisTxBlock) /\ NewGensisTxBlock.Height = 0
  /\ \A s \in Shards : /\ FinalBlockOf(NewGensisFinalTxBlock(s), s)
                        /\ NewGensisFinalTxBlock(s).HashID = GenesisHash({s})
BY BoundAssumption
   DEF NewGensisTxBlock, NewGensisFinalTxBlock, Genesis, IsBlock, BlockFields,
       FinalBlockOf, Kinds, NoTxs

\* The balances a final block is made of are those of its shard.
LEMMA MakeFinalTxIs ==
  ASSUME NEW m, NEW s, Tips(m, s)
  PROVE  MakeFinalTx(m, s) \in [AccountsOf(s) -> Value]
<1>1. {a \in DOMAIN m.AccData : ShardIndex(a) = s} = AccountsOf(s)
  BY DEF Tips, IsBalances, AccountsOf
<1> QED
  BY <1>1 DEF MakeFinalTx, Restrict, Tips, IsBalances

\* So are those a new epoch begins with.
LEMMA UploadAccIs ==
  ASSUME NEW acc \in [Accounts -> Value], NEW s
  PROVE  /\ UploadAcc(acc, s) = [a \in AccountsOf(s) |-> acc[a]]
         /\ IsBalances(UploadAcc(acc, s))
         /\ DOMAIN UploadAcc(acc, s) = AccountsOf(s)
BY DEF UploadAcc, Restrict, AccountsOf, IsBalances

----------------------------------------------------------------------------
(* The operations of TxBlockChain. *)

LEMMA HigherKeeps ==
  ASSUME NEW m, NEW own, Tips(m, own), NEW b, IsBlock(b)
  PROVE  /\ Tips(Higher(m, b), own)
         /\ Higher(m, b).LastFB = m.LastFB
         /\ Higher(m, b).AccData = m.AccData
         /\ \/ Higher(m, b) = m
            \/ Higher(m, b).LastTB = b.HashID /\ Higher(m, b).Height = b.Height
BY DEF Higher, Tips, TipFields, IsBlock

\* The last block stays stored when the bucket only grows by it.
LEMMA TipKept ==
  ASSUME NEW m, NEW TB, NEW own, Tips(m, own), NEW b, IsBlock(b),
         \E c \in TB : c.HashID = m.LastTB /\ c.Height = m.Height
  PROVE  \E c \in TB \cup {Serial(b)} :
           c.HashID = Higher(m, b).LastTB /\ c.Height = Higher(m, b).Height
BY HigherKeeps, SerialKeeps

\* A block that is not final goes to the bucket of the blocks only.
LEMMA PlainBlockKeeps ==
  ASSUME NEW m, NEW d, NEW own, Held(m, d, own), NEW b, IsBlock(b)
  PROVE  LET e == [d EXCEPT !.TB = @ \cup {Serial(b)}] IN
         /\ Held(Higher(m, b), e, own)
         /\ Higher(m, b).LastFB = m.LastFB /\ e.ACC = d.ACC
<1> DEFINE e == [d EXCEPT !.TB = @ \cup {Serial(b)}]
<1>1. StoredTips(d) /\ DOMAIN d = Buckets
  BY DEF Held, StoredTips
<1>2. /\ DOMAIN e = Buckets /\ e.TB = d.TB \cup {Serial(b)}
      /\ e.FB = d.FB /\ e.XFB = d.XFB /\ e.ACC = d.ACC
  BY <1>1 DEF Buckets
<1>3. StoredTips(e)
  BY <1>1, <1>2 DEF StoredTips
<1>4. Held(Higher(m, b), e, own)
  BY <1>2, <1>3, HigherKeeps, TipKept DEF Held
<1> QED
  BY <1>2, <1>4, HigherKeeps DEF Held

LEMMA AddBlockKeeps ==
  ASSUME NEW m, NEW d, NEW own, Held(m, d, own), NEW b, IsBlock(b)
  PROVE  LET c == AddBlock(m, d, b) IN
         Held(c.m, c.d, own) /\ c.m.LastFB = m.LastFB
BY PlainBlockKeeps DEF AddBlock

LEMMA AddStartBlockKeeps ==
  ASSUME NEW m, NEW d, NEW own, Held(m, d, own), NEW b, IsBlock(b)
  PROVE  LET c == AddStartBlock(m, d, b) IN
         /\ Held(c.m, c.d, own) /\ c.m.LastFB = m.LastFB
         /\ DOMAIN c = {"m", "d"} /\ c.d.ACC = d.ACC
BY PlainBlockKeeps DEF AddStartBlock

\* The balances of a final block replace those of the one before, and those
\* of the other shards stay, for no account is in two shards.
LEMMA AddFinalBlockKeeps ==
  ASSUME NEW m, NEW d, NEW own, Held(m, d, own), NEW b,
         NEW s \in Shards, FinalBlockOf(b, s)
  PROVE  LET c == AddFinalBlock(m, d, b) IN
         /\ Held(c.m, c.d, own)
         /\ c.m.LastFB = [m.LastFB EXCEPT ![s] = b.HashID]
<1> DEFINE c == AddFinalBlock(m, d, b)
           h == Higher(m, b)
<1>1. IsBlock(b) /\ b.Kind = 1 /\ b.ShardID = s
  BY DEF FinalBlockOf
<1>2. /\ Tips(m, own) /\ StoredTips(d) /\ DOMAIN d = Buckets
      /\ m.LastFB = d.XFB
  BY DEF Held, StoredTips
<1>3. Tips(h, own) /\ h.LastFB = m.LastFB /\ h.AccData = m.AccData
  BY <1>1, <1>2, HigherKeeps
<1>4. IsBalances(b.TxArray) /\ DOMAIN b.TxArray \subseteq AccountsOf(s)
  <2>1. CASE b.TxArray = NoTxs
    BY <2>1, NoBalances
  <2>2. CASE b.TxArray \in [AccountsOf(s) -> Value]
    BY <2>2 DEF AccountsOf, IsBalances
  <2> QED
    BY <2>1, <2>2 DEF FinalBlockOf
<1>5. /\ c.m = [h EXCEPT !.LastFB[s] = b.HashID,
                        !.AccData = Overwrite(b.TxArray, @)]
      /\ c.d = [d EXCEPT !.TB = @ \cup {Serial(b)},
                        !.FB[s] = @ \cup {Serial(b)},
                        !.XFB[s] = b.HashID,
                        !.ACC = Overwrite(b.TxArray, @)]
  BY <1>1 DEF AddFinalBlock
<1> HIDE DEF c, h
<1>6. /\ DOMAIN c.m = TipFields
      /\ c.m.LastTB = h.LastTB /\ c.m.Height = h.Height
      /\ c.m.LastFB = [m.LastFB EXCEPT ![s] = b.HashID]
      /\ c.m.AccData = Overwrite(b.TxArray, m.AccData)
  BY <1>3, <1>5 DEF Tips, TipFields
<1>7. /\ DOMAIN c.d = Buckets
      /\ c.d.TB = d.TB \cup {Serial(b)}
      /\ c.d.FB = [d.FB EXCEPT ![s] = @ \cup {Serial(b)}]
      /\ c.d.XFB = [d.XFB EXCEPT ![s] = b.HashID]
      /\ c.d.ACC = Overwrite(b.TxArray, d.ACC)
  BY <1>2, <1>5 DEF Buckets
<1>8. Tips(c.m, own)
  <2> DEFINE acc == Overwrite(b.TxArray, m.AccData)
  <2>1. IsBalances(acc) /\ DOMAIN acc = DOMAIN b.TxArray \cup DOMAIN m.AccData
    <3>1. IsBalances(m.AccData)
      BY <1>2 DEF Tips
    <3> QED
      BY <1>4, <3>1, OverwriteBalances
  <2>2. c.m.AccData = acc
    BY <1>6
  <2> HIDE DEF acc
  <2> QED
    BY <1>2, <1>3, <1>6, <2>1, <2>2 DEF Tips
<1>9. c.m.LastFB = c.d.XFB
  BY <1>2, <1>6, <1>7
<1>10. \E x \in c.d.TB : x.HashID = c.m.LastTB /\ x.Height = c.m.Height
  <2>1. \E x \in d.TB : x.HashID = m.LastTB /\ x.Height = m.Height
    BY DEF Held
  <2> QED
    BY <1>1, <1>2, <1>6, <1>7, <2>1, TipKept DEF h
<1>11. StoredTips(c.d)
  <2>1. /\ c.d.FB = [i \in Shards |-> c.d.FB[i]]
        /\ c.d.XFB = [i \in Shards |-> c.d.XFB[i]]
        /\ c.d.XFB[s] = b.HashID /\ c.d.FB[s] = d.FB[s] \cup {Serial(b)}
        /\ \A i \in Shards \ {s} :
             c.d.FB[i] = d.FB[i] /\ c.d.XFB[i] = d.XFB[i]
    BY <1>2, <1>7 DEF StoredTips
  <2>2. FinalBlockOf(Serial(b), s)
    BY <1>1, SerialKeeps DEF FinalBlockOf
  <2>3. \A i \in Shards : \A x \in c.d.FB[i] : FinalBlockOf(x, i)
    BY <1>2, <2>1, <2>2 DEF StoredTips
  <2>4. \A i \in Shards : \E x \in c.d.FB[i] : x.HashID = c.d.XFB[i]
    BY <1>1, <1>2, <2>1, SerialKeeps DEF StoredTips
  <2>5. c.d.ACC \in [Accounts -> Value]
    BY <1>2, <1>4, <1>7, OverwriteBucket DEF StoredTips
  <2>6. /\ \A a \in DOMAIN b.TxArray : c.d.ACC[a] = b.TxArray[a]
        /\ \A a \in Accounts \ DOMAIN b.TxArray : c.d.ACC[a] = d.ACC[a]
    <3> DEFINE acc == Overwrite(b.TxArray, d.ACC)
    <3>1. DOMAIN d.ACC = Accounts /\ IsBalances(d.ACC)
      BY <1>2 DEF StoredTips, IsBalances
    <3>2. /\ \A a \in DOMAIN b.TxArray : acc[a] = b.TxArray[a]
          /\ \A a \in DOMAIN d.ACC \ DOMAIN b.TxArray : acc[a] = d.ACC[a]
      BY <1>4, <3>1, OverwriteBalances
    <3>3. c.d.ACC = acc
      BY <1>7
    <3> HIDE DEF acc
    <3> QED
      BY <3>1, <3>2, <3>3
  <2>7. ASSUME NEW i \in Shards, NEW x \in c.d.FB[i], x.HashID = c.d.XFB[i]
        PROVE  Listed(x, c.d.ACC)
    <3>1. CASE i = s
      <4>1. x.TxArray = b.TxArray
        BY <2>1, <2>3, <2>7, <3>1, SameHash
      <4> QED
        BY <2>6, <4>1 DEF Listed
    <3>2. CASE i # s
      <4>1. Listed(x, d.ACC) /\ FinalBlockOf(x, i)
        BY <1>2, <2>1, <2>7, <3>2 DEF StoredTips
      <4>2. DOMAIN x.TxArray \subseteq AccountsOf(i)
        BY <4>1 DEF FinalBlockOf, NoTxs
      <4>3. \A a \in AccountsOf(i) : c.d.ACC[a] = d.ACC[a]
        BY <1>4, <2>6, <3>2 DEF AccountsOf
      <4> QED
        BY <4>1, <4>2, <4>3 DEF Listed
    <3> QED
      BY <3>1, <3>2
  <2> QED
    BY <1>7, <2>1, <2>3, <2>4, <2>5, <2>7 DEF StoredTips
<1> QED
  BY <1>6, <1>8, <1>9, <1>10, <1>11 DEF Held, c

\* ClearTx never does anything: its bucket exists.
LEMMA ClearTxKeeps ==
  ASSUME NEW d, StoredTips(d)
  PROVE  ClearTx(d) = d
BY DEF ClearTx, StoredTips, Buckets

\* Opening the database anew goes back to the first block and keeps the
\* final blocks.
LEMMA NewBlockchainKeeps ==
  ASSUME NEW d, StoredTips(d), NEW own
  PROVE  LET c == NewBlockchain(d) IN
         Held(c.m, c.d, own) /\ c.m.LastFB = d.XFB
<1> DEFINE c == NewBlockchain(d)
<1>1. /\ DOMAIN c.m = TipFields
      /\ c.m.LastTB = NewGensisTxBlock.HashID /\ c.m.Height = 0
      /\ c.m.LastFB = d.XFB /\ c.m.AccData = d.ACC
  BY DEF NewBlockchain, GenesisTips, TipFields
<1>2. /\ DOMAIN c.d = Buckets /\ c.d.TB = {NewGensisTxBlock}
      /\ c.d.FB = d.FB /\ c.d.XFB = d.XFB /\ c.d.ACC = d.ACC
  BY DEF NewBlockchain, StoredTips, Buckets
<1> HIDE DEF c
<1>3. StoredTips(c.d)
  BY <1>2 DEF StoredTips
<1>4. Tips(c.m, own)
  BY <1>1, BoundAssumption DEF Tips, StoredTips, IsBalances, AccountsOf
<1> QED
  BY <1>1, <1>2, <1>3, <1>4, GenesisIs DEF Held, c

\* What a process that starts holds.
LEMMA NewRefHolds ==
  ASSUME NEW own
  PROVE  LET new == NewRef(CreateNewBlockchain) IN
         /\ Held(new.c.m, new.c.d, own)
         /\ IsBlock(new.TxB)
         /\ DOMAIN new.FB = Shards
         /\ \A s \in Shards : /\ FinalBlockOf(new.FB[s], s)
                              /\ new.FB[s].HashID = new.c.m.LastFB[s]
<1> DEFINE made == CreateNewBlockchain
           new == NewRef(made)
           m == new.c.m
           d == new.c.d
           fin(s) == NewGensisFinalTxBlock(s)
<1>1. /\ DOMAIN made.m = TipFields /\ DOMAIN made.d = Buckets
      /\ made.m.LastTB = NewGensisTxBlock.HashID /\ made.m.Height = 0
      /\ made.m.LastFB = [s \in Shards |-> GenesisHash({s})]
      /\ made.m.AccData = NoTxs
      /\ made.d.TB = {NewGensisTxBlock}
      /\ made.d.FB = [s \in Shards |-> {fin(s)}]
      /\ made.d.XFB = [s \in Shards |-> GenesisHash({s})]
      /\ made.d.ACC = NoTxs
  BY DEF CreateNewBlockchain, GenesisTips, TipFields, Buckets, NoTxs
<1> HIDE DEF made
<1>2. /\ DOMAIN m = TipFields /\ DOMAIN d = Buckets
      /\ m.LastTB = made.m.LastTB /\ m.Height = 0
      /\ m.LastFB = made.m.LastFB
      /\ m.AccData = Overwrite(Deposits, NoTxs)
      /\ d.TB = made.d.TB /\ d.FB = made.d.FB /\ d.XFB = made.d.XFB
      /\ d.ACC = Overwrite(Deposits, NoTxs)
      /\ new.TxB = LatestTxBlock(made.m, made.d)
      /\ new.FB = [s \in Shards |-> LatestFinalTxBlock(made.m, made.d, s)]
  BY <1>1 DEF NewRef, LedOpened, TipFields, Buckets
<1> HIDE DEF new, m, d
<1>3. new.TxB = NewGensisTxBlock
  BY <1>1, <1>2 DEF LatestTxBlock
<1>4. \A s \in Shards : new.FB[s] = fin(s)
  BY <1>1, <1>2, GenesisIs DEF LatestFinalTxBlock
<1>5. Overwrite(Deposits, NoTxs) \in [Accounts -> Value]
      /\ DOMAIN Overwrite(Deposits, NoTxs) = Accounts
  BY NoBalances, DepositsAssumption DEF Overwrite
<1>6. Tips(m, own)
  BY <1>1, <1>2, <1>5, BoundAssumption DEF Tips, IsBalances, AccountsOf
<1>7. \A s \in Shards : Listed(fin(s), d.ACC)
  <2>1. \A s \in Shards : fin(s).TxArray = NoTxs
    BY DEF NewGensisFinalTxBlock, Genesis
  <2> QED
    BY <2>1, NoBalances DEF Listed
<1> HIDE DEF fin
<1>8. StoredTips(d)
  <2>1. \A s \in Shards : /\ d.FB[s] = {fin(s)} /\ FinalBlockOf(fin(s), s)
                          /\ d.XFB[s] = fin(s).HashID
    BY <1>1, <1>2, GenesisIs DEF fin
  <2>2. /\ d.FB = [s \in Shards |-> d.FB[s]]
        /\ d.XFB = [s \in Shards |-> d.XFB[s]]
    BY <1>1, <1>2
  <2>3. /\ \A s \in Shards : \A b \in d.FB[s] : FinalBlockOf(b, s)
        /\ \A s \in Shards : \E b \in d.FB[s] : b.HashID = d.XFB[s]
        /\ \A s \in Shards : \A b \in d.FB[s] : Listed(b, d.ACC)
    BY <1>7, <2>1
  <2>4. DOMAIN d = Buckets /\ d.ACC \in [Accounts -> Value]
    BY <1>2, <1>5
  <2> QED
    BY <2>2, <2>3, <2>4 DEF StoredTips
<1>9. Held(m, d, own)
  <2>1. m.LastFB = d.XFB /\ d.TB = {NewGensisTxBlock}
        /\ m.LastTB = NewGensisTxBlock.HashID
    BY <1>1, <1>2
  <2> QED
    BY <1>2, <1>6, <1>8, <2>1, GenesisIs DEF Held
<1>10. \A s \in Shards : /\ FinalBlockOf(new.FB[s], s)
                         /\ new.FB[s].HashID = m.LastFB[s]
  BY <1>1, <1>2, <1>4, GenesisIs DEF fin
<1>11. DOMAIN new.FB = Shards /\ IsBlock(new.TxB)
  BY <1>2, <1>3, GenesisIs
<1> QED
  BY <1>9, <1>10, <1>11 DEF new, m, d, made

----------------------------------------------------------------------------
(* The invariant. *)

LEMMA LedgerInit == LedInit => LedgerInv
<1> SUFFICES ASSUME LedInit PROVE LedgerInv
  OBVIOUS
<1> DEFINE new == NewRef(CreateNewBlockchain)
<1>1. /\ life = [n \in Nodes |-> 0] /\ sent = {}
      /\ disk = [n \in Nodes |-> new.c.d] /\ db = [n \in Nodes |-> new.c.m]
      /\ TxB = [n \in Nodes |-> new.TxB] /\ FB = [n \in Nodes |-> new.FB]
  BY DEF LedInit
<1>2. ASSUME NEW own
      PROVE  /\ Held(new.c.m, new.c.d, own) /\ IsBlock(new.TxB)
             /\ DOMAIN new.FB = Shards
             /\ \A s \in Shards : /\ FinalBlockOf(new.FB[s], s)
                                  /\ new.FB[s].HashID = new.c.m.LastFB[s]
  BY NewRefHolds
<1> HIDE DEF new
<1>3. \A n \in Nodes : ShardNum[n] \in Shards
  BY ShardAssumption
<1> QED
  BY <1>1, <1>2, <1>3 DEF LedgerInv

\* A step of one process that keeps the invariant for that process, and
\* sends nothing but blocks, keeps it.
LEMMA StepOf ==
  ASSUME LedgerInv, NEW n \in Nodes,
         life' \in [Nodes -> Nat],
         \A b \in sent' : SentBlock(b),
         NEW m, NEW d, NEW tx, NEW fb,
         db' = [db EXCEPT ![n] = m], disk' = [disk EXCEPT ![n] = d],
         TxB' = [TxB EXCEPT ![n] = tx], FB' = [FB EXCEPT ![n] = fb],
         Held(m, d, ShardNum[n]), IsBlock(tx), DOMAIN fb = Shards,
         \A s \in Shards : FinalBlockOf(fb[s], s),
         fb[ShardNum[n]].HashID = m.LastFB[ShardNum[n]]
  PROVE  LedgerInv'
<1>1. /\ DOMAIN disk' = Nodes /\ DOMAIN db' = Nodes
      /\ DOMAIN TxB' = Nodes /\ DOMAIN FB' = Nodes
      /\ db'[n] = m /\ disk'[n] = d /\ TxB'[n] = tx /\ FB'[n] = fb
      /\ \A i \in Nodes \ {n} : /\ db'[i] = db[i] /\ disk'[i] = disk[i]
                               /\ TxB'[i] = TxB[i] /\ FB'[i] = FB[i]
  BY DEF LedgerInv
<1>2. \A i \in Nodes :
        /\ Held(db'[i], disk'[i], ShardNum[i])
        /\ IsBlock(TxB'[i])
        /\ DOMAIN FB'[i] = Shards
        /\ \A s \in Shards : FinalBlockOf(FB'[i][s], s)
        /\ FB'[i][ShardNum[i]].HashID = db'[i].LastFB[ShardNum[i]]
  BY <1>1 DEF LedgerInv
<1>3. /\ disk' = [i \in Nodes |-> disk'[i]] /\ db' = [i \in Nodes |-> db'[i]]
      /\ TxB' = [i \in Nodes |-> TxB'[i]] /\ FB' = [i \in Nodes |-> FB'[i]]
  BY <1>1
<1> QED
  BY <1>2, <1>3 DEF LedgerInv

\* What a step of process n may use.
LEMMA OfProcess ==
  ASSUME LedgerInv, NEW n \in Nodes
  PROVE  /\ ShardNum[n] \in Shards
         /\ Held(db[n], disk[n], ShardNum[n])
         /\ Tips(db[n], ShardNum[n]) /\ StoredTips(disk[n])
         /\ db[n].LastFB = disk[n].XFB /\ DOMAIN db[n].LastFB = Shards
         /\ IsBlock(TxB[n]) /\ TxB[n].Height \in Int
         /\ DOMAIN FB[n] = Shards
         /\ \A s \in Shards : /\ FinalBlockOf(FB[n][s], s)
                              /\ FB[n][s].Height \in Int
         /\ FB[n][ShardNum[n]].HashID = db[n].LastFB[ShardNum[n]]
         /\ db = [db EXCEPT ![n] = db[n]]
         /\ disk = [disk EXCEPT ![n] = disk[n]]
         /\ TxB = [TxB EXCEPT ![n] = TxB[n]]
         /\ FB = [FB EXCEPT ![n] = FB[n]]
         /\ life \in [Nodes -> Nat] /\ \A b \in sent : SentBlock(b)
<1>1. ShardNum[n] \in Shards
  BY ShardAssumption
<1>2. /\ Held(db[n], disk[n], ShardNum[n])
      /\ IsBlock(TxB[n]) /\ DOMAIN FB[n] = Shards
      /\ \A s \in Shards : FinalBlockOf(FB[n][s], s)
      /\ FB[n][ShardNum[n]].HashID = db[n].LastFB[ShardNum[n]]
  BY DEF LedgerInv
<1>3. Tips(db[n], ShardNum[n]) /\ StoredTips(disk[n]) /\ db[n].LastFB = disk[n].XFB
  BY <1>2 DEF Held
<1>4. DOMAIN db[n].LastFB = Shards
  BY <1>3 DEF Tips
<1>5. TxB[n].Height \in Int /\ \A s \in Shards : FB[n][s].Height \in Int
  <2>1. \A b : IsBlock(b) => b.Height \in Int
    BY BoundAssumption DEF IsBlock
  <2> QED
    BY <1>2, <2>1 DEF FinalBlockOf
<1> QED
  BY <1>1, <1>2, <1>3, <1>4, <1>5 DEF LedgerInv

\* A process that starts again.
LEMMA RestartKeeps ==
  ASSUME LedgerInv, NEW n \in Nodes, Restart(n)
  PROVE  LedgerInv'
<1> DEFINE new == NewRef(CreateNewBlockchain)
<1>1. life' \in [Nodes -> Nat] /\ \A b \in sent' : SentBlock(b)
  BY DEF LedgerInv, Restart
<1>2. /\ db' = [db EXCEPT ![n] = new.c.m] /\ disk' = [disk EXCEPT ![n] = new.c.d]
      /\ TxB' = [TxB EXCEPT ![n] = new.TxB] /\ FB' = [FB EXCEPT ![n] = new.FB]
  BY DEF Restart
<1>3. /\ Held(new.c.m, new.c.d, ShardNum[n]) /\ IsBlock(new.TxB)
      /\ DOMAIN new.FB = Shards
      /\ \A s \in Shards : /\ FinalBlockOf(new.FB[s], s)
                           /\ new.FB[s].HashID = new.c.m.LastFB[s]
  BY NewRefHolds
<1> HIDE DEF new
<1> QED
  BY <1>1, <1>2, <1>3, StepOf, ShardAssumption

\* A step that leaves the final blocks in hand alone.
LEMMA StepSameFB ==
  ASSUME LedgerInv, NEW n \in Nodes,
         life' \in [Nodes -> Nat],
         \A b \in sent' : SentBlock(b),
         NEW m, NEW d, NEW tx,
         db' = [db EXCEPT ![n] = m], disk' = [disk EXCEPT ![n] = d],
         TxB' = [TxB EXCEPT ![n] = tx], FB' = FB,
         Held(m, d, ShardNum[n]), IsBlock(tx), m.LastFB = db[n].LastFB
  PROVE  LedgerInv'
<1>1. /\ FB' = [FB EXCEPT ![n] = FB[n]] /\ DOMAIN FB[n] = Shards
      /\ \A s \in Shards : FinalBlockOf(FB[n][s], s)
      /\ FB[n][ShardNum[n]].HashID = m.LastFB[ShardNum[n]]
  BY OfProcess
<1> QED
  BY <1>1, StepOf

LEMMA ReopenKeeps ==
  ASSUME LedgerInv, NEW n \in Nodes, Reopen(n)
  PROVE  LedgerInv'
<1> DEFINE c == NewBlockchain(disk[n])
<1>1. life' \in [Nodes -> Nat] /\ \A b \in sent' : SentBlock(b)
  BY DEF LedgerInv, Reopen
<1>2. /\ db' = [db EXCEPT ![n] = c.m] /\ disk' = [disk EXCEPT ![n] = c.d]
      /\ TxB' = TxB /\ FB' = FB
  BY DEF Reopen, Store, refVars
<1>3. Held(c.m, c.d, ShardNum[n]) /\ c.m.LastFB = db[n].LastFB
  BY OfProcess, NewBlockchainKeeps
<1> HIDE DEF c
<1>4. TxB = [TxB EXCEPT ![n] = TxB[n]] /\ IsBlock(TxB[n])
  BY OfProcess
<1> QED
  BY <1>1, <1>2, <1>3, <1>4, StepSameFB

LEMMA ShardBeginKeeps ==
  ASSUME LedgerInv, NEW n \in Nodes, ShardBegin(n)
  PROVE  LedgerInv'
<1>1. ClearTx(disk[n]) = disk[n]
  BY OfProcess, ClearTxKeeps
<1>2. UNCHANGED ledVars
  BY <1>1, OfProcess DEF ShardBegin, ledVars, refVars
<1> QED
  BY <1>2 DEF ledVars, refVars, LedgerInv

LEMMA UpdateBalancesKeeps ==
  ASSUME LedgerInv, NEW n \in Nodes, NEW t \in BlockTxs, UpdateBalances(n, t)
  PROVE  LedgerInv'
<1> DEFINE m == UpdateUTXO(db[n], t, ShardNum[n])
<1>1. t \in Tx
  BY DepositsAssumption
<1>2. /\ Tips(m, ShardNum[n]) /\ m.LastFB = db[n].LastFB
      /\ m.LastTB = db[n].LastTB /\ m.Height = db[n].Height
  BY <1>1, OfProcess, UpdateUTXOKeeps
<1>3. /\ db' = [db EXCEPT ![n] = m] /\ disk' = disk /\ TxB' = TxB /\ FB' = FB
      /\ life' = life /\ sent' = sent
  BY DEF UpdateBalances, refVars
<1> HIDE DEF m
<1>4. Held(m, disk[n], ShardNum[n])
  BY <1>2, OfProcess DEF Held
<1>5. /\ TxB = [TxB EXCEPT ![n] = TxB[n]] /\ IsBlock(TxB[n])
      /\ disk = [disk EXCEPT ![n] = disk[n]]
      /\ life' \in [Nodes -> Nat] /\ \A b \in sent' : SentBlock(b)
  BY <1>3, OfProcess
<1> QED
  BY <1>2, <1>3, <1>4, <1>5, StepSameFB

LEMMA GenerateTxBlockKeeps ==
  ASSUME LedgerInv, NEW n \in Nodes, NEW good \in {0, 1, 2},
         GenerateTxBlock(n, good)
  PROVE  LedgerInv'
<1> DEFINE made == MakeTxBlock(n, NoTxs, db[n].LastTB, TxB[n].Height + 1,
                               IF good = 0 THEN 3 ELSE 0, NoShard)
           block == IF good = 2 THEN [TxB[n] EXCEPT !.Kind = 0] ELSE made
           c == AddBlock(db[n], disk[n], block)
<1>1. /\ TxB' = [TxB EXCEPT ![n] = block] /\ FB' = FB
      /\ life' = life /\ sent' = sent /\ block.Height <= MaxHeight
      /\ \/ db' = db /\ disk' = disk
         \/ db' = [db EXCEPT ![n] = c.m] /\ disk' = [disk EXCEPT ![n] = c.d]
  BY DEF GenerateTxBlock, Store
<1>2. IsBlock(block)
  <2>1. CASE good = 2
    BY <2>1, OfProcess DEF IsBlock, BlockFields, Kinds
  <2>2. CASE good # 2
    <3>1. made.Height = TxB[n].Height + 1
      BY DEF MakeTxBlock, WithHash
    <3>2. TxB[n].Height + 1 \in 0..MaxHeight
      BY <1>1, <2>2, <3>1, OfProcess, BoundAssumption DEF IsBlock
    <3> QED
      BY <2>2, <3>2, MakeTxBlockIs DEF Kinds
  <2> QED
    BY <2>1, <2>2
<1> HIDE DEF block, made
<1>3. Held(c.m, c.d, ShardNum[n]) /\ c.m.LastFB = db[n].LastFB
  BY <1>2, OfProcess, AddBlockKeeps
<1> HIDE DEF c
<1>4. /\ db = [db EXCEPT ![n] = db[n]] /\ disk = [disk EXCEPT ![n] = disk[n]]
      /\ Held(db[n], disk[n], ShardNum[n])
      /\ life' \in [Nodes -> Nat] /\ \A b \in sent' : SentBlock(b)
  BY <1>1, OfProcess
<1>5. CASE db' = db /\ disk' = disk
  BY <1>1, <1>2, <1>4, <1>5, StepSameFB
<1>6. CASE db' = [db EXCEPT ![n] = c.m] /\ disk' = [disk EXCEPT ![n] = c.d]
  BY <1>1, <1>2, <1>3, <1>4, <1>6, StepSameFB
<1> QED
  BY <1>1, <1>5, <1>6

LEMMA GenerateFinalBlockKeeps ==
  ASSUME LedgerInv, NEW n \in Nodes, GenerateFinalBlock(n)
  PROVE  LedgerInv'
<1> DEFINE s == ShardNum[n]
           txs == MakeFinalTx(db[n], s)
           block == MakeTxBlock(n, txs, db[n].LastFB[s], TxB[n].Height + 1, 1, s)
           c == AddFinalBlock(db[n], disk[n], block)
<1>1. /\ TxB' = [TxB EXCEPT ![n] = block] /\ FB' = [FB EXCEPT ![n][s] = block]
      /\ db' = [db EXCEPT ![n] = c.m] /\ disk' = [disk EXCEPT ![n] = c.d]
      /\ life' = life /\ sent' = sent \cup {Serial(block)}
      /\ block.Height <= MaxHeight
  BY DEF GenerateFinalBlock, Store
<1>2. s \in Shards /\ txs \in [AccountsOf(s) -> Value]
  BY OfProcess, MakeFinalTxIs
<1>3. block.Height = TxB[n].Height + 1
  BY DEF MakeTxBlock, WithHash
<1>4. TxB[n].Height + 1 \in 0..MaxHeight
  BY <1>1, <1>3, OfProcess, BoundAssumption DEF IsBlock
<1> HIDE DEF s, txs
<1>5. /\ IsBlock(block) /\ block.Kind = 1 /\ block.ShardID = s
      /\ block.TxArray = txs /\ block.HashID = Hash(block)
  BY <1>4, MakeTxBlockIs DEF Kinds
<1> HIDE DEF block
<1>6. FinalBlockOf(block, s) /\ SentBlock(Serial(block))
  BY <1>2, <1>5, SerialKeeps DEF FinalBlockOf, SentBlock
<1>7. Held(c.m, c.d, ShardNum[n])
      /\ c.m.LastFB = [db[n].LastFB EXCEPT ![s] = block.HashID]
  BY <1>2, <1>6, OfProcess, AddFinalBlockKeeps
<1> HIDE DEF c
<1> DEFINE fb == [FB[n] EXCEPT ![s] = block]
<1>8. /\ FB' = [FB EXCEPT ![n] = fb] /\ DOMAIN fb = Shards
      /\ \A i \in Shards : FinalBlockOf(fb[i], i)
      /\ fb[s].HashID = c.m.LastFB[s]
      /\ life' \in [Nodes -> Nat] /\ \A b \in sent' : SentBlock(b)
  BY <1>1, <1>2, <1>6, <1>7, OfProcess
<1> HIDE DEF fb
<1> QED
  BY <1>1, <1>5, <1>7, <1>8, StepOf DEF s

LEMMA GenerateStartBlockKeeps ==
  ASSUME LedgerInv, NEW n \in Nodes, GenerateStartBlock(n)
  PROVE  LedgerInv'
<1> DEFINE s == ShardNum[n]
           hashes == [k \in Shards |-> FB[n][k].HashID]
           block == MakeStartBlock(n, hashes, db[n].LastFB[s], FB[n][s].Height + 1)
           c == AddStartBlock(db[n], disk[n], block)
<1>1. /\ TxB' = [TxB EXCEPT ![n] = block] /\ FB' = FB
      /\ db' = [db EXCEPT ![n] = c.m] /\ disk' = [disk EXCEPT ![n] = c.d]
      /\ life' = life /\ sent' = sent \cup {Serial(block)}
      /\ block.Height <= MaxHeight
  BY DEF GenerateStartBlock, Store
<1>2. block.Height = FB[n][s].Height + 1
  BY DEF MakeStartBlock, WithHash
<1>3. FB[n][s].Height + 1 \in 0..MaxHeight
  <2>1. FB[n][s].Height \in 0..MaxHeight
    BY OfProcess DEF FinalBlockOf, IsBlock
  <2> QED
    BY <1>1, <1>2, <2>1, BoundAssumption
<1> HIDE DEF s, hashes
<1>4. IsBlock(block) /\ block.Kind = 2 /\ block.HashID = Hash(block)
  BY <1>3, MakeStartBlockIs
<1> HIDE DEF block
<1>5. SentBlock(Serial(block))
  BY <1>4, SerialKeeps DEF SentBlock
<1>6. Held(c.m, c.d, ShardNum[n]) /\ c.m.LastFB = db[n].LastFB
  BY <1>4, OfProcess, AddStartBlockKeeps
<1> HIDE DEF c
<1>7. life' \in [Nodes -> Nat] /\ \A b \in sent' : SentBlock(b)
  BY <1>1, <1>5, OfProcess
<1> QED
  BY <1>1, <1>4, <1>6, <1>7, StepSameFB

\* A final block that is taken over or dropped.
LEMMA GetFinalTxBlockKeeps ==
  ASSUME LedgerInv, NEW n \in Nodes, NEW s \in Shards,
         NEW b, FinalBlockOf(b, s),
         GetFinalTxBlock(n, b), UNCHANGED <<life, sent>>
  PROVE  LedgerInv'
<1> DEFINE c == AddFinalBlock(db[n], disk[n], b)
           fb == [FB[n] EXCEPT ![s] = b]
<1>1. b.ShardID = s /\ IsBlock(b)
  BY DEF FinalBlockOf
<1>2. CASE UNCHANGED <<disk, db, refVars>>
  BY <1>2 DEF refVars, LedgerInv
<1>3. CASE /\ FB' = [FB EXCEPT ![n] = fb] /\ TxB' = [TxB EXCEPT ![n] = b]
           /\ db' = [db EXCEPT ![n] = c.m] /\ disk' = [disk EXCEPT ![n] = c.d]
  <2>1. Held(c.m, c.d, ShardNum[n])
        /\ c.m.LastFB = [db[n].LastFB EXCEPT ![s] = b.HashID]
    BY OfProcess, AddFinalBlockKeeps
  <2> HIDE DEF c
  <2>2. /\ DOMAIN fb = Shards /\ \A i \in Shards : FinalBlockOf(fb[i], i)
        /\ fb[ShardNum[n]].HashID = c.m.LastFB[ShardNum[n]]
        /\ life' \in [Nodes -> Nat] /\ \A x \in sent' : SentBlock(x)
    BY <2>1, OfProcess
  <2> HIDE DEF fb
  <2> QED
    BY <1>1, <1>3, <2>1, <2>2, StepOf
<1> QED
  BY <1>1, <1>2, <1>3 DEF GetFinalTxBlock, Store

\* A final block on its way is one of the shard it names.
LEMMA SentIsFinal ==
  ASSUME LedgerInv, NEW b \in sent, b.Kind = 1
  PROVE  b.ShardID \in Shards /\ FinalBlockOf(b, b.ShardID)
BY DEF LedgerInv, SentBlock, FinalBlockOf

LEMMA WaitForFinalBlockKeeps ==
  ASSUME LedgerInv, NEW n \in Nodes, NEW b \in sent, WaitForFinalBlock(n, b)
  PROVE  LedgerInv'
BY SentIsFinal, GetFinalTxBlockKeeps DEF WaitForFinalBlock

LEMMA SyncDoneKeeps ==
  ASSUME LedgerInv, NEW n \in Nodes, NEW s \in Shards, SyncDone(n, s)
  PROVE  LedgerInv'
BY OfProcess, GetFinalTxBlockKeeps DEF SyncDone

\* The block of another shard does not touch the own one.
LEMMA SyncTBKeeps ==
  ASSUME LedgerInv, NEW n \in Nodes, NEW b \in sent, SyncTB(n, b)
  PROVE  LedgerInv'
<1> DEFINE fb == [FB[n] EXCEPT ![b.ShardID] = b]
<1>1. b.ShardID \in Shards /\ FinalBlockOf(b, b.ShardID) /\ b.ShardID # ShardNum[n]
  BY SentIsFinal DEF SyncTB
<1>2. /\ FB' = [FB EXCEPT ![n] = fb] /\ UNCHANGED <<life, disk, db, TxB, sent>>
  BY DEF SyncTB
<1>3. /\ DOMAIN fb = Shards /\ \A i \in Shards : FinalBlockOf(fb[i], i)
      /\ fb[ShardNum[n]].HashID = db[n].LastFB[ShardNum[n]]
  BY <1>1, OfProcess
<1> HIDE DEF fb
<1>4. /\ db = [db EXCEPT ![n] = db[n]] /\ disk = [disk EXCEPT ![n] = disk[n]]
      /\ TxB = [TxB EXCEPT ![n] = TxB[n]] /\ IsBlock(TxB[n])
      /\ Held(db[n], disk[n], ShardNum[n])
      /\ life' \in [Nodes -> Nat] /\ \A x \in sent' : SentBlock(x)
  BY <1>2, OfProcess
<1> QED
  BY <1>2, <1>3, <1>4, StepOf

\* The balances of the new epoch, of the final block the start block names.
LEMMA GetStartTxBlockKeeps ==
  ASSUME LedgerInv, NEW n \in Nodes, NEW b \in sent, GetStartTxBlock(n, b)
  PROVE  /\ LedgerInv'
         /\ \A f \in sent : f.Kind = 1 /\ f.HashID = b.TxHash[ShardNum[n]]
                           => db'[n].AccData = f.TxArray
<1> DEFINE s == ShardNum[n]
           c == AddStartBlock(db[n], disk[n], b)
           acc == UploadAcc(c.d.ACC, s)
           e == [c EXCEPT !.m.AccData = acc]
<1>1. /\ TxB' = [TxB EXCEPT ![n] = b] /\ FB' = FB
      /\ db' = [db EXCEPT ![n] = e.m] /\ disk' = [disk EXCEPT ![n] = e.d]
      /\ life' = life /\ sent' = sent
  BY DEF GetStartTxBlock, Store
<1>2. b.TxHash[s] = FB[n][s].HashID
  BY OfProcess DEF GetStartTxBlock
<1>3. SentBlock(b) /\ IsBlock(b)
  BY DEF LedgerInv, SentBlock
<1>4. /\ Held(c.m, c.d, s) /\ c.m.LastFB = db[n].LastFB
      /\ DOMAIN c = {"m", "d"} /\ c.d.ACC = disk[n].ACC
  BY <1>3, OfProcess, AddStartBlockKeeps
<1> HIDE DEF c
<1>5. Tips(c.m, s) /\ disk[n].ACC \in [Accounts -> Value]
  BY <1>4, OfProcess DEF Held, StoredTips
<1>6. /\ acc = [a \in AccountsOf(s) |-> disk[n].ACC[a]]
      /\ IsBalances(acc) /\ DOMAIN acc = AccountsOf(s)
  BY <1>4, <1>5, UploadAccIs
<1> HIDE DEF acc
<1>7. /\ e.d = c.d /\ DOMAIN e.m = TipFields /\ e.m.AccData = acc
      /\ e.m.LastTB = c.m.LastTB /\ e.m.Height = c.m.Height
      /\ e.m.LastFB = c.m.LastFB
  BY <1>4, <1>5 DEF Tips, TipFields
<1> HIDE DEF e
<1>8. Tips(e.m, s)
  BY <1>5, <1>6, <1>7 DEF Tips
<1>9. Held(e.m, e.d, s)
  BY <1>4, <1>7, <1>8 DEF Held
<1>10. LedgerInv'
  <2>1. life' \in [Nodes -> Nat] /\ \A x \in sent' : SentBlock(x)
    BY <1>1, OfProcess
  <2> QED
    BY <1>1, <1>3, <1>4, <1>7, <1>9, <2>1, StepSameFB
<1>11. ASSUME NEW f \in sent, f.Kind = 1, f.HashID = b.TxHash[s]
       PROVE  db'[n].AccData = f.TxArray
  <2>1. f.HashID = Hash(f) /\ f.TxArray \in [AccountsOf(f.ShardID) -> Value]
    BY <1>11 DEF LedgerInv, SentBlock
  <2>2. f.HashID = disk[n].XFB[s] /\ s \in Shards
    BY <1>2, <1>11, OfProcess
  <2>3. PICK g \in disk[n].FB[s] : g.HashID = disk[n].XFB[s]
    BY <2>2, OfProcess DEF StoredTips
  <2>4. FinalBlockOf(g, s) /\ Listed(g, disk[n].ACC)
    BY <2>2, <2>3, OfProcess DEF StoredTips
  <2>5. g.TxArray = f.TxArray /\ g.TxArray \in [AccountsOf(s) -> Value]
    BY <1>11, <2>1, <2>2, <2>3, <2>4 DEF FinalBlockOf, Hash, GenesisHash
  <2>6. acc = f.TxArray
    BY <1>6, <2>4, <2>5 DEF Listed
  <2>7. db'[n] = e.m
    BY <1>1 DEF LedgerInv
  <2> QED
    BY <1>7, <2>6, <2>7
<1> QED
  BY <1>10, <1>11

\* Every step keeps the invariant.
LEMMA LedgerNext ==
  ASSUME LedgerInv, [LedNext]_ledVars
  PROVE  LedgerInv'
<1>1. ASSUME NEW n \in Nodes, Reopen(n) PROVE LedgerInv'
  BY <1>1, ReopenKeeps
<1>2. ASSUME NEW n \in Nodes, ShardBegin(n) PROVE LedgerInv'
  BY <1>2, ShardBeginKeeps
<1>3. ASSUME NEW n \in Nodes, RequestTxB(n) PROVE LedgerInv'
  BY <1>3, RestartKeeps DEF RequestTxB
<1>4. ASSUME NEW n \in Nodes, NEW t \in BlockTxs, UpdateBalances(n, t)
      PROVE  LedgerInv'
  BY <1>4, UpdateBalancesKeeps
<1>5. ASSUME NEW n \in Nodes, NEW good \in {0, 1, 2}, GenerateTxBlock(n, good)
      PROVE  LedgerInv'
  BY <1>5, GenerateTxBlockKeeps
<1>6. ASSUME NEW n \in Nodes, GenerateFinalBlock(n) PROVE LedgerInv'
  BY <1>6, GenerateFinalBlockKeeps
<1>7. ASSUME NEW n \in Nodes, GenerateStartBlock(n) PROVE LedgerInv'
  BY <1>7, GenerateStartBlockKeeps
<1>8. ASSUME NEW n \in Nodes, NEW b \in sent, WaitForFinalBlock(n, b)
      PROVE  LedgerInv'
  BY <1>8, WaitForFinalBlockKeeps
<1>9. ASSUME NEW n \in Nodes, NEW b \in sent, SyncTB(n, b) PROVE LedgerInv'
  BY <1>9, SyncTBKeeps
<1>10. ASSUME NEW n \in Nodes, NEW b \in sent, GetStartTxBlock(n, b)
       PROVE  LedgerInv'
  BY <1>10, GetStartTxBlockKeeps
<1>11. ASSUME NEW n \in Nodes, NEW s \in Shards, SyncDone(n, s)
       PROVE  LedgerInv'
  BY <1>11, SyncDoneKeeps
<1>12. CASE UNCHANGED ledVars
  BY <1>12 DEF ledVars, refVars, LedgerInv
<1> QED
  BY <1>1, <1>2, <1>3, <1>4, <1>5, <1>6, <1>7, <1>8, <1>9, <1>10, <1>11, <1>12
     DEF LedNext

LEMMA LedgerInvariant == LedSpec => []LedgerInv
<1>1. LedgerInv /\ [LedNext]_ledVars => LedgerInv'
  BY LedgerNext
<1> QED
  BY <1>1, LedgerInit, PTL DEF LedSpec

----------------------------------------------------------------------------
(* Theorems. *)

\* The balances in memory and in the database are values of accounts, the
\* heights stay below their bound, and FB[i] is a final block of shard i.
THEOREM LedTypeCorrect == LedSpec => []LedTypeOK
<1>1. LedgerInv => LedTypeOK
  <2> SUFFICES ASSUME LedgerInv PROVE LedTypeOK
    OBVIOUS
  <2>1. ASSUME NEW n \in Nodes
        PROVE  /\ disk[n].ACC \in Balances /\ db[n].AccData \in Balances
               /\ db[n].Height \in 0..MaxHeight
    <3>1. IsBalances(disk[n].ACC) /\ IsBalances(db[n].AccData)
      BY OfProcess DEF Tips, StoredTips, IsBalances
    <3> QED
      BY <3>1, BalancesAre, OfProcess DEF Tips
  <2>2. ASSUME NEW n \in Nodes
        PROVE  /\ TxB[n].Kind \in Kinds /\ TxB[n].Height \in 0..MaxHeight
               /\ \A s \in Shards : FB[n][s].Kind = 1 /\ FB[n][s].ShardID = s
    <3>1. IsBlock(TxB[n]) /\ \A s \in Shards : FinalBlockOf(FB[n][s], s)
      BY OfProcess
    <3> QED
      BY <3>1 DEF IsBlock, FinalBlockOf
  <2> QED
    BY <2>1, <2>2 DEF LedTypeOK, LedgerInv
<1> QED
  BY <1>1, LedgerInvariant, PTL

\* LatestTxBlock and LatestFinalTxBlock always find the blocks the tips of a
\* process name.
THEOREM TipsAreStored == LedSpec => []TipsStored
<1>1. LedgerInv => TipsStored
  <2> SUFFICES ASSUME LedgerInv, NEW n \in Nodes
               PROVE  /\ \E b \in disk[n].TB : /\ b.HashID = db[n].LastTB
                                              /\ b.Height = db[n].Height
                      /\ \A s \in Shards : \E b \in disk[n].FB[s] :
                           b.HashID = db[n].LastFB[s]
    BY DEF TipsStored
  <2>1. /\ Held(db[n], disk[n], ShardNum[n]) /\ StoredTips(disk[n])
        /\ db[n].LastFB = disk[n].XFB
    BY OfProcess
  <2> QED
    BY <2>1 DEF Held, StoredTips
<1> QED
  BY <1>1, LedgerInvariant, PTL

\* The final block a process holds for its own shard is the last one its
\* database has of that shard.
THEOREM OwnFinalIsStored == LedSpec => []OwnFinalStored
<1>1. LedgerInv => OwnFinalStored
  BY DEF LedgerInv, OwnFinalStored
<1> QED
  BY <1>1, LedgerInvariant, PTL

\* The balances in the database are those the last final block of their
\* shard lists.
THEOREM BalancesAreFinal == LedSpec => []BalancesOfFinal
<1>1. LedgerInv => BalancesOfFinal
  <2> SUFFICES ASSUME LedgerInv, NEW n \in Nodes, NEW s \in Shards,
                      NEW b \in disk[n].FB[s], b.HashID = db[n].LastFB[s]
               PROVE  Listed(b, disk[n].ACC)
    BY DEF BalancesOfFinal, Listed
  <2>1. StoredTips(disk[n]) /\ db[n].LastFB = disk[n].XFB
    BY OfProcess
  <2> QED
    BY <2>1 DEF StoredTips
<1> QED
  BY <1>1, LedgerInvariant, PTL

\* A miner begins the epoch of a start block with the balances of the final
\* block of its shard that the start block names.
THEOREM EpochsAgree == LedSpec => StartAgrees
<1>1. LedgerInv /\ [LedNext]_ledVars =>
        [\A n \in Nodes : \A b \in sent :
           GetStartTxBlock(n, b) =>
             \A f \in sent :
               f.Kind = 1 /\ f.HashID = b.TxHash[ShardNum[n]]
                 => db'[n].AccData = f.TxArray]_ledVars
  BY GetStartTxBlockKeeps
<1> QED
  BY <1>1, LedgerInvariant, PTL DEF LedSpec, StartAgrees
=============================================================================
