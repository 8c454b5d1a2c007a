------------------------------ MODULE Accounts ------------------------------
(***************************************************************************)
(* The balances of one process of the shard Me while transactions are      *)
(* checked, locked, given up and put into blocks (VerifyTx, LockTx,        *)
(* UnlockTx, UpdateUTXO), and saved to the database and read back.  A      *)
(* process locks a transaction it has just verified, gives up what it has  *)
(* locked, and applies a transaction of a block once, when it has locked   *)
(* it or its inputs still allow it.  Nothing ties what is read back to     *)
(* what has changed since it was saved: the history variables saved and    *)
(* lost, which only the properties read, remember that.                    *)
(***************************************************************************)
EXTENDS Utxo

CONSTANTS Me, Wallet, Txs

ASSUME WalletAssumption ==
  /\ Me \in Shards
  /\ IsFiniteSet(Accounts) /\ Wallet \in [Accounts -> Value]
  /\ IsFiniteSet(Txs) /\ Txs \subseteq Tx

VARIABLES
  book,     \* [AccData, TXCache]
  accs,     \* the ACC bucket
  applied,  \* transactions of the blocks so far
  saved,    \* what was applied, locked and lost when accs was written last
  lost      \* the balances in memory are of an earlier time than TXCache

accVars == <<book, accs, applied, saved, lost>>

\* AddAccount of every wallet (InitializeProtocol.go).
Opened ==
  FoldSet(LAMBDA a, m : AddAccount(m, a, Wallet[a]), << >>, Accounts)

Memory == [applied |-> applied, locked |-> book.TXCache, lost |-> lost]

AccInit ==
  /\ book = [AccData |-> Opened, TXCache |-> {}]
  /\ accs = Opened
  /\ applied = {}
  /\ lost = FALSE
  /\ saved = [applied |-> {}, locked |-> {}, lost |-> FALSE]

Lock(t) ==
  /\ t \notin applied \cup book.TXCache
  /\ VerifyTx(book, t, Me)
  /\ book' = LockTx(book, t, Me)
  /\ UNCHANGED <<accs, applied, saved, lost>>

Unlock(t) ==
  /\ t \in book.TXCache \ applied
  /\ book' = UnlockTx(book, t, Me)
  /\ UNCHANGED <<accs, applied, saved, lost>>

Apply(t) ==
  /\ t \notin applied
  /\ t \in book.TXCache \/ VerifyTx(book, t, Me)
  /\ book' = UpdateUTXO(book, t, Me)
  /\ applied' = applied \cup {t}
  /\ UNCHANGED <<accs, saved, lost>>

UpdateAccount ==
  /\ accs' = SaveAcc(accs, book.AccData)
  /\ saved' = Memory
  /\ UNCHANGED <<book, applied, lost>>

\* GetStartTxBlock: the balances in memory are replaced by what was saved
\* last, whatever it was; TXCache stays.
Reload ==
  /\ book' = [book EXCEPT !.AccData = UploadAcc(accs, Me)]
  /\ lost' = (saved # [Memory EXCEPT !.lost = FALSE])
  /\ UNCHANGED <<accs, applied, saved>>

AccNext ==
  \/ \E t \in Txs : Lock(t) \/ Unlock(t) \/ Apply(t)
  \/ UpdateAccount
  \/ Reload

AccSpec == AccInit /\ [][AccNext]_accVars

----------------------------------------------------------------------------
Own == {a \in Accounts : ShardIndex(a) = Me}

\* The balances acc, when the transactions `taken' have taken their inputs and
\* `given' their outputs: nothing was taken or given twice, modulo the word.
Fits(acc, taken, given) ==
  \A a \in Own :
    (Balance(acc, a) + Sum(From(a, taken))) % Word
      = (Wallet[a] + Sum(To(a, given))) % Word

\* No transaction takes from the account by two of its inputs.
SingleUse(a) ==
  \A t \in Txs : \A i, j \in DOMAIN t.In :
    t.In[i].PrevTx = a /\ t.In[j].PrevTx = a => i = j

\* Nothing more was taken from such an account than there was.
Covers(acc, taken, given) ==
  \A a \in Own : SingleUse(a) =>
    Balance(acc, a) + Sum(From(a, taken)) <= Wallet[a] + Sum(To(a, given))

\* TypeOK of the accounts: an account that is empty is not in the database.
AccTypeOK ==
  /\ book \in [AccData : Balances, TXCache : SUBSET Txs]
  /\ accs \in Balances /\ \A a \in DOMAIN accs : accs[a] # 0
  /\ applied \subseteq Txs
  /\ lost \in BOOLEAN
  /\ saved \in [applied : SUBSET Txs, locked : SUBSET Txs, lost : BOOLEAN]

\* Every balance of the shard is what the account had, less what it paid in
\* blocks, less what is locked for transactions not in a block yet, plus what
\* it received: in memory until balances older than the locks and the blocks
\* are read back, again once the two agree, and in the database for the time
\* it was written.  No order of locks, unlocks, blocks and saves takes a value
\* twice or gives it twice (the TXCache test of UpdateUTXO; UpdateAccount
\* deletes what is empty).  It follows that two processes of a shard with the
\* same blocks and no transaction pending have the same balances.
Accounted ==
  /\ ~lost => Fits(book.AccData, applied \cup book.TXCache, applied)
  /\ ~saved.lost => Fits(accs, saved.applied \cup saved.locked, saved.applied)

\* No account that no transaction names twice spends more than it has: what
\* is left of it, what it paid and what is locked are together never more than
\* what it had and what it received, whatever happens to the accounts that are
\* overdrawn by two inputs of one transaction (VerifyTx looks at each input for
\* itself).  A credit that wraps around loses a word; a balance that wraps
\* around below zero would gain one (CheckUTXO before LockUTXO).
NoOverdraft ==
  /\ ~lost => Covers(book.AccData, applied \cup book.TXCache, applied)
  /\ ~saved.lost => Covers(accs, saved.applied \cup saved.locked, saved.applied)
=============================================================================
