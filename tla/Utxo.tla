-------------------------------- MODULE Utxo --------------------------------
(***************************************************************************)
(* The account operations of TxBlockChain (txBlockChain.go) as functions   *)
(* of an account table.  A table c has the balances c.AccData, a function  *)
(* on the accounts that have one, and the transactions c.TXCache that are  *)
(* locked or were.  A transaction takes from the accounts of its inputs    *)
(* and gives to those of its outputs, to one account as often as it is     *)
(* named: the loops over the inputs and the outputs add up per account.    *)
(***************************************************************************)
EXTENDS Integers, Sequences, FiniteSets, FiniteSetsExt, Functions, TLC

CONSTANTS Word,      \* values are numbers modulo Word (uint32)
          TxHashes,
          Accounts,
          Shards,
          AccShard   \* AccShard[a]: the first byte of a modulo ShardCnt

ASSUME WordAssumption == Word \in Nat \ {0}
ASSUME AccountAssumption == AccShard \in [Accounts -> Shards]

Value == 0..(Word - 1)
Balances == UNION {[D -> Value] : D \in SUBSET Accounts}

InType == [PrevTx : Accounts, Index : Value]
OutType == [Address : Accounts, Value : Value]
Tx == [Hash : TxHashes, In : Seq(InType), Out : Seq(OutType)]

ShardIndex(a) == AccShard[a]

\* AccData[a] of a Go map: zero where there is no entry.
Balance(acc, a) == IF a \in DOMAIN acc THEN acc[a] ELSE 0

\* The entries of new, and those of acc for the other accounts.
Overwrite(new, acc) ==
  [a \in DOMAIN new \cup DOMAIN acc |->
     IF a \in DOMAIN new THEN new[a] ELSE acc[a]]

Put(acc, a, v) == Overwrite([i \in {a} |-> v], acc)

Delete(acc, a) == Restrict(acc, DOMAIN acc \ {a})

----------------------------------------------------------------------------
\* What the inputs of the transactions ts take from account a and what their
\* outputs give to it, one entry each.
From(a, ts) ==
  UNION {{[tx |-> t, at |-> i, v |-> t.In[i].Index] :
            i \in {j \in DOMAIN t.In : t.In[j].PrevTx = a}} : t \in ts}

To(a, ts) ==
  UNION {{[tx |-> t, at |-> i, v |-> t.Out[i].Value] :
            i \in {j \in DOMAIN t.Out : t.Out[j].Address = a}} : t \in ts}

Sum(es) == MapThenSumSet(LAMBDA e : e.v, es)

\* The accounts of the shard a transaction takes from, and gives to.
Payers(t, shard) ==
  {a \in {t.In[i].PrevTx : i \in DOMAIN t.In} : ShardIndex(a) = shard}

Payees(t, shard) ==
  {a \in {t.Out[i].Address : i \in DOMAIN t.Out} : ShardIndex(a) = shard}

\* Mistake: any balance will do.
CheckUTXOSome(c, x) == Balance(c.AccData, x.PrevTx) > 0

\* Every input names an account: Acc() is constantly TRUE.
CheckUTXO(c, x) == Balance(c.AccData, x.PrevTx) >= x.Index

\* LockUTXO, UnlockUTXO of every input that takes from one of the accounts as.
LockUTXO(acc, t, as) ==
  Overwrite([a \in as |-> (Balance(acc, a) - Sum(From(a, {t}))) % Word], acc)

UnlockUTXO(acc, t, as) ==
  Overwrite([a \in as |-> (Balance(acc, a) + Sum(From(a, {t}))) % Word], acc)

\* The outputs that give to one of the accounts as.
Give(acc, t, as) ==
  Overwrite([a \in as |-> (Balance(acc, a) + Sum(To(a, {t}))) % Word], acc)

\* The three operations of DbRef leave the inputs of other shards alone.
\* Every input is checked for itself.
VerifyTx(c, t, shard) ==
  \A i \in DOMAIN t.In :
    ShardIndex(t.In[i].PrevTx) = shard => CheckUTXO(c, t.In[i])

LockTx(c, t, shard) ==
  LET d == [c EXCEPT !.TXCache = @ \cup {t}]
  IN  [d EXCEPT !.AccData = LockUTXO(@, t, Payers(t, shard))]

UnlockTx(c, t, shard) ==
  LET d == [c EXCEPT !.TXCache = @ \ {t}]
  IN  [d EXCEPT !.AccData = UnlockUTXO(@, t, Payers(t, shard))]

\* Mistake: the lock is forgotten and the inputs taken again.
UpdateUTXOTwice(c, t, shard) ==
  [c EXCEPT !.AccData =
     Give(LockUTXO(@, t, Payers(t, shard) \cap DOMAIN @), t, Payees(t, shard))]

\* A transaction of a block: an input is taken unless its lock took it already
\* or the account is unknown, the outputs are always given.
UpdateUTXO(c, t, shard) ==
  LET taken == IF t \in c.TXCache THEN {}
               ELSE Payers(t, shard) \cap DOMAIN c.AccData
  IN  [c EXCEPT !.AccData = Give(LockUTXO(@, t, taken), t, Payees(t, shard))]

----------------------------------------------------------------------------
\* The balances and the ACC bucket.

\* AddAccount: the new balances and the new bucket; zero deletes the account.
AddAccount(acc, a, v) == IF v = 0 THEN Delete(acc, a) ELSE Put(acc, a, v)

\* UpdateAccount saves the balances and deletes the empty ones; an
\* account without a balance stays.
SaveAcc(bucket, acc) ==
  Overwrite(Restrict(acc, {a \in DOMAIN acc : acc[a] # 0}),
            Restrict(bucket, DOMAIN bucket \ DOMAIN acc))

\* UploadAcc: the balances are the accounts of the shard in the bucket.
UploadAcc(bucket, shard) ==
  Restrict(bucket, {a \in DOMAIN bucket : ShardIndex(a) = shard})
=============================================================================
