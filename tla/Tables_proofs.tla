--------------------------- MODULE Tables_proofs ---------------------------
(***************************************************************************)
(* What is proved of the accounts, the record of a cross-shard decision,   *)
(* the cosigners, the reputation chain, the leader's votes and shard       *)
(* formation, for every value of their constants, and of the composition   *)
(* of these parts and the ledger (Ledger_proofs).  Each part has an        *)
(* invariant of its own:                                                   *)
(*                                                                         *)
(* - The balances of an account agree with the transactions that took from *)
(*   it and gave to it (Sound), those in memory with the ones there are    *)
(*   now and those in the database with the ones there were.  No account   *)
(*   comes back with an old balance because none is in the database that   *)
(*   memory has not (NothingForgotten).                                    *)
(* - The record of a decision keeps the promise of CrossVote for every     *)
(*   number of shards and every order in which the transaction and the     *)
(*   decisions come.  A verdict is made from InCheckSum, so that the       *)
(*   refinement needs the meaning of the count (SumCounts), and the count  *)
(*   needs to know which values InCheck may have before and after the      *)
(*   transaction is there (Entries).                                       *)
(* - The sum of the public keys that the cosigners keep is right for any   *)
(*   number of keys and any sequence of masks and bits: the sum of a key   *)
(*   can only leave 0..1 if it and the bit of the key disagreed before.    *)
(* - A walk down the reputation chain ends at the start block of the epoch *)
(*   because the blocks under a block are of smaller depth (Descending).   *)
(* - A vote is counted once because the signals of a round stand for the   *)
(*   votes in the decision set, and it is readable because the lists of a  *)
(*   set are the ones its bits were written for.                           *)
(* - SortRep sorts although its inner loops are not bounded by the part    *)
(*   they sort: the elements an exchange has moved stop the next pass.     *)
(*   The shards are judged by the table as it was dealt, with what         *)
(*   LeaderSort has made of it so far (ShaInv).                            *)
(***************************************************************************)
EXTENDS MCTables, Ledger_proofs, SequenceTheorems

----------------------------------------------------------------------------
(***************************************************************************)
(* The accounts.                                                           *)
(***************************************************************************)

Funded(as) == {a \in as : Wallet[a] # 0}
Table(as) == [a \in Funded(as) |-> Wallet[a]]

\* The equation of the tables made of the subsets of Accounts.
OpensOf(f) ==
  f = [as \in SUBSET Accounts |->
         IF as = {} THEN << >>
         ELSE AddAccount(f[as \ {OneOf(as)}], OneOf(as), Wallet[OneOf(as)])]

LEMMA OpenedIsChosen == Opened = (CHOOSE f : OpensOf(f))[Accounts]
BY DEF Opened, FoldSet, MapThenFoldSet, OpensOf, OneOf

LEMMA OneTableMore ==
  ASSUME NEW as \in SUBSET Accounts, NEW a \in as
  PROVE  AddAccount(Table(as \ {a}), a, Wallet[a]) = Table(as)
<1>1. CASE Wallet[a] = 0
  <2>1. Funded(as) = Funded(as \ {a}) /\ Funded(as) \ {a} = Funded(as)
    BY <1>1 DEF Funded
  <2>2. AddAccount(Table(as \ {a}), a, Wallet[a]) = Delete(Table(as \ {a}), a)
    BY <1>1 DEF AddAccount
  <2> QED
    BY <2>1, <2>2, DeleteIs DEF Table
<1>2. CASE Wallet[a] # 0
  <2>1. Funded(as) = {a} \cup Funded(as \ {a}) /\ a \notin Funded(as \ {a})
    BY <1>2 DEF Funded
  <2>2. AddAccount(Table(as \ {a}), a, Wallet[a]) = Put(Table(as \ {a}), a, Wallet[a])
    BY <1>2 DEF AddAccount
  <2>3. Put(Table(as \ {a}), a, Wallet[a])
          = [x \in {a} \cup Funded(as \ {a}) |->
               IF x = a THEN Wallet[a] ELSE Wallet[x]]
    BY DEF Put, Overwrite, Table
  <2> QED
    BY <2>1, <2>2, <2>3 DEF Table
<1> QED
  BY <1>1, <1>2

\* The tables that are opened have the accounts that are not empty.
LEMMA OpenedIs == Opened = Table(Accounts)
<1> DEFINE g == [as \in SUBSET Accounts |-> Table(as)]
           f == CHOOSE h : OpensOf(h)
<1>1. Table({}) = << >>
  <2>1. Funded({}) = {}
    BY DEF Funded
  <2> QED BY <2>1 DEF Table
<1>2. OpensOf(g)
  <2>1. ASSUME NEW as \in SUBSET Accounts, as # {}
        PROVE  g[as] = AddAccount(g[as \ {OneOf(as)}], OneOf(as), Wallet[OneOf(as)])
    <3>1. OneOf(as) \in as /\ as \ {OneOf(as)} \in SUBSET Accounts
      BY <2>1, OneOfThem
    <3> QED
      BY <3>1, OneTableMore
  <2> QED
    BY <1>1, <2>1 DEF OpensOf
<1>3. OpensOf(f)
  <2> HIDE DEF g
  <2> QED BY <1>2
<1> HIDE DEF f
<1> DEFINE C == {as \in SUBSET Accounts : f[as] = Table(as)}
<1>4. ASSUME NEW as \in SUBSET Accounts, \A a \in as : as \ {a} \in C PROVE as \in C
  <2>1. f[as] = IF as = {} THEN << >>
                ELSE AddAccount(f[as \ {OneOf(as)}], OneOf(as), Wallet[OneOf(as)])
    BY <1>3 DEF OpensOf
  <2>2. CASE as = {}
    BY <1>1, <2>1, <2>2
  <2>3. CASE as # {}
    BY <1>4, <2>1, <2>3, OneOfThem, OneTableMore
  <2> QED
    BY <2>2, <2>3
<1>5. C = SUBSET Accounts
  <2>1. C \in SUBSET SUBSET Accounts
    OBVIOUS
  <2> HIDE DEF C
  <2> QED BY <1>4, <2>1, SubsetsByInduction, WalletAssumption
<1>6. f[Accounts] = Table(Accounts)
  BY <1>5
<1> QED
  BY <1>6, OpenedIsChosen DEF f

LEMMA OpenedType ==
  /\ Opened \in Balances /\ \A a \in DOMAIN Opened : Opened[a] # 0
  /\ \A a \in Accounts : Balance(Opened, a) = Wallet[a]
<1>1. Opened = [a \in Funded(Accounts) |-> Wallet[a]]
  BY OpenedIs DEF Table
<1>2. Funded(Accounts) \in SUBSET Accounts
  BY DEF Funded
<1>3. Opened \in [Funded(Accounts) -> Value]
  BY <1>1, <1>2, WalletAssumption
<1> QED
  BY <1>1, <1>2, <1>3 DEF Balances, Balance, Funded

----------------------------------------------------------------------------
(* The invariant.                                                          *)

Books == [AccData : Balances, TXCache : SUBSET Txs]

\* An account that has no balance has none in the bucket: what Reload reads
\* back is nothing that was given up.
NothingForgotten == Own \cap DOMAIN accs \subseteq DOMAIN book.AccData

\* The balances acc agree with the transactions that took and gave.
Sound(acc, taken, given) ==
  Fits(acc, taken, given) /\ Covers(acc, taken, given)

AccInv ==
  /\ AccTypeOK /\ NothingForgotten
  /\ ~lost => Sound(book.AccData, applied \cup book.TXCache, applied)
  /\ ~saved.lost => Sound(accs, saved.applied \cup saved.locked, saved.applied)

LEMMA AccInvProperties == AccInv => Accounted /\ NoOverdraft
BY DEF AccInv, Sound, Accounted, NoOverdraft

LEMMA TxsAre ==
  ASSUME NEW ts \in SUBSET Txs
  PROVE  ts \in SUBSET Tx /\ IsFiniteSet(ts)
BY FS_Subset, WalletAssumption

\* The numbers of an account.
LEMMA NumbersAre ==
  ASSUME NEW acc \in Balances, NEW a \in Own, NEW ts \in SUBSET Txs
  PROVE  /\ Balance(acc, a) \in Value /\ Balance(acc, a) \in Nat
         /\ Wallet[a] \in Nat
         /\ Sum(From(a, ts)) \in Nat /\ Sum(To(a, ts)) \in Nat
<1>1. Balance(acc, a) \in Value /\ Wallet[a] \in Value
  BY BalanceType, WalletAssumption DEF Own
<1>2. Sum(From(a, ts)) \in Nat /\ Sum(To(a, ts)) \in Nat
  BY TxsAre, SumsType
<1> QED
  BY <1>1, <1>2, WordAssumption DEF Value

\* A remainder may be taken before something is added.
LEMMA RemainderAdded ==
  ASSUME NEW z \in Int, NEW e \in Int
  PROVE  /\ z % Word \in Value /\ z % Word \in Nat
         /\ ((z % Word) + e) % Word = (z + e) % Word
<1>1. Word \in Nat \ {0} /\ z % Word \in Value /\ z % Word \in Nat
  BY Modulo, WordAssumption DEF Value
<1> DEFINE r == z % Word
<1>2. r % Word = z % Word
  BY <1>1 DEF Value
<1> HIDE DEF r
<1>3. r \in Int
  BY <1>1 DEF r
<1>4. (r + e) % Word = (z + e) % Word
  BY ONLY <1>1, <1>2, <1>3, z \in Int, e \in Int, SameRemainder
<1> QED
  BY <1>1, <1>4 DEF r

LEMMA SmallRemainder ==
  ASSUME NEW z \in Nat
  PROVE  z % Word <= z
BY WordAssumption

LEMMA ValueRemainder ==
  ASSUME NEW z \in Value
  PROVE  z % Word = z
BY WordAssumption DEF Value

\* What stays sound: an account that gains i, taken or given.
LEMMA StaysSound ==
  ASSUME NEW acc \in Balances, NEW p \in SUBSET Txs, NEW q \in SUBSET Txs,
         NEW acd \in Balances, NEW pp \in SUBSET Txs, NEW qq \in SUBSET Txs,
         Sound(acc, p, q),
         \A a \in Own : \E i \in Nat :
           LET x == Balance(acc, a) + Sum(From(a, p))
               z == Balance(acd, a) + Sum(From(a, pp))
           IN  /\ Sum(To(a, qq)) = Sum(To(a, q)) + i
               /\ z % Word = (x + i) % Word
               /\ SingleUse(a) => z <= x + i
  PROVE  Sound(acd, pp, qq)
<1> SUFFICES ASSUME NEW a \in Own
             PROVE  LET z == Balance(acd, a) + Sum(From(a, pp))
                        y == Wallet[a] + Sum(To(a, qq))
                    IN  z % Word = y % Word /\ (SingleUse(a) => z <= y)
  BY DEF Sound, Fits, Covers
<1> DEFINE x == Balance(acc, a) + Sum(From(a, p))
           y == Wallet[a] + Sum(To(a, q))
           z == Balance(acd, a) + Sum(From(a, pp))
           g == Sum(To(a, q))
           gg == Sum(To(a, qq))
           w == Wallet[a]
<1>1. PICK i \in Nat : /\ gg = g + i /\ z % Word = (x + i) % Word
                       /\ SingleUse(a) => z <= x + i
  OBVIOUS
<1>2. x \in Nat /\ z \in Nat /\ g \in Nat /\ gg \in Nat /\ w \in Nat
  BY NumbersAre
<1>3. x % Word = (w + g) % Word /\ (SingleUse(a) => x <= w + g)
  BY DEF Sound, Fits, Covers
<1> HIDE DEF x, y, z, g, gg, w
<1>4. (x + i) % Word = ((w + g) + i) % Word
  <2>1. Word \in Nat \ {0} /\ x \in Int /\ w + g \in Int /\ i \in Int
    BY <1>2, WordAssumption
  <2> QED
    BY ONLY <1>3, <2>1, SameRemainder
<1>5. w + gg = (w + g) + i
  BY <1>1, <1>2
<1>6. z % Word = (w + gg) % Word /\ (SingleUse(a) => z <= w + gg)
  BY <1>1, <1>2, <1>3, <1>4, <1>5
<1> QED
  BY <1>6 DEF z, w, gg

\* The same balances are as sound.
LEMMA SoundAlike ==
  ASSUME NEW acc, NEW acd, NEW p, NEW q, Sound(acc, p, q),
         \A a \in Own : Balance(acd, a) = Balance(acc, a)
  PROVE  Sound(acd, p, q)
BY DEF Sound, Fits, Covers

----------------------------------------------------------------------------
(* What the operations do to the balance of an account.                    *)

\* A transaction takes what there is if it takes it by one input, and nothing
\* where there is nothing.
LEMMA VerifiedTakes ==
  ASSUME NEW c \in Books, NEW t \in Txs, VerifyTx(c, t, Me), NEW a \in Own
  PROVE  /\ SingleUse(a) => Sum(From(a, {t})) <= Balance(c.AccData, a)
         /\ Balance(c.AccData, a) = 0 => Sum(From(a, {t})) = 0
<1>1. t \in Tx
  BY WalletAssumption
<1>2. /\ Balance(c.AccData, a) \in Nat
      /\ Priced(From(a, {t}))
  BY <1>1, OnePriced, NumbersAre DEF Books
<1>3. \A e \in From(a, {t}) : e.v \in Nat /\ e.v <= Balance(c.AccData, a)
  BY <1>2 DEF VerifyTx, CheckUTXO, From, Own, Priced
<1>4. ASSUME SingleUse(a) PROVE Sum(From(a, {t})) <= Balance(c.AccData, a)
  <2>1. CASE From(a, {t}) = {}
    BY <1>2, <2>1, SumOfNone
  <2>2. CASE From(a, {t}) # {}
    <3>1. PICK e \in From(a, {t}) : TRUE
      BY <2>2
    <3>2. From(a, {t}) = {e}
      BY <1>4, <3>1 DEF From, SingleUse
    <3>3. Sum({e}) = e.v
      BY <1>3, SumOfOne
    <3> QED
      BY <1>3, <3>2, <3>3
  <2> QED
    BY <2>1, <2>2
<1>5. ASSUME Balance(c.AccData, a) = 0 PROVE Sum(From(a, {t})) = 0
  <2>1. \A e \in From(a, {t}) : e.v = 0
    BY <1>3, <1>5
  <2> QED
    BY <1>2, <2>1, SumOfZeros DEF Priced
<1> QED
  BY <1>4, <1>5

LEMMA LockSound ==
  ASSUME NEW c \in Books, NEW t \in Txs, NEW q \in SUBSET Txs,
         t \notin q \cup c.TXCache, VerifyTx(c, t, Me)
  PROVE  LET d == LockTx(c, t, Me) IN
           /\ d \in Books /\ DOMAIN c.AccData \subseteq DOMAIN d.AccData
           /\ Sound(c.AccData, q \cup c.TXCache, q)
                => Sound(d.AccData, q \cup d.TXCache, q)
<1> DEFINE acc == c.AccData
           as == Payers(t, Me)
           acd == LockUTXO(acc, t, as)
           p == q \cup c.TXCache
<1>1. /\ t \in Tx /\ acc \in Balances /\ p \in SUBSET Txs /\ p \cup {t} \in SUBSET Txs
      /\ as \in SUBSET Accounts
  BY WalletAssumption, PartiesAre DEF Books
<1>2. LockTx(c, t, Me) = [AccData |-> acd, TXCache |-> c.TXCache \cup {t}]
  <2>1. c = [AccData |-> acc, TXCache |-> c.TXCache]
    BY DEF Books
  <2> DEFINE d == [c EXCEPT !.TXCache = @ \cup {t}]
  <2>2. LockTx(c, t, Me) = [d EXCEPT !.AccData = LockUTXO(@, t, as)]
    BY DEF LockTx
  <2> HIDE DEF acc
  <2>3. d = [AccData |-> acc, TXCache |-> c.TXCache \cup {t}]
    BY <2>1
  <2> HIDE DEF d
  <2>4. d.AccData = acc
    BY <2>3
  <2> HIDE DEF as
  <2> QED
    BY <2>2, <2>3, <2>4
<1>3. /\ acd \in Balances /\ DOMAIN acd = as \cup DOMAIN acc
      /\ \A a \in as : Balance(acd, a) = (Balance(acc, a) - Sum(From(a, {t}))) % Word
      /\ \A a : a \notin as => Balance(acd, a) = Balance(acc, a)
  <2> HIDE DEF acc, as
  <2> QED
    BY <1>1, LockIs
<1>4. ASSUME NEW a \in Own
      PROVE  LET x == Balance(acc, a) + Sum(From(a, p))
                 z == Balance(acd, a) + Sum(From(a, p \cup {t}))
             IN  /\ Sum(To(a, q)) = Sum(To(a, q)) + 0
                 /\ z % Word = (x + 0) % Word
                 /\ SingleUse(a) => z <= x + 0
  <2> DEFINE b == Balance(acc, a)
             d == Sum(From(a, {t}))
             f == Sum(From(a, p))
             bb == Balance(acd, a)
  <2>1. b \in Value /\ b \in Nat /\ f \in Nat /\ d \in Nat /\ Sum(To(a, q)) \in Nat
    BY <1>1, NumbersAre, OneType
  <2>2. Sum(From(a, p \cup {t})) = f + d
    BY <1>1, SumsWith, TxsAre
  <2>3. bb = (b - d) % Word
    <3>1. CASE a \in as
      BY <1>3, <3>1
    <3>2. CASE a \notin as
      <4>1. d = 0
        BY <1>1, <3>2, PartiesAre DEF Own
      <4>2. bb = b /\ b - d = b
        BY <1>3, <2>1, <3>2, <4>1
      <4> HIDE DEF b, d, bb
      <4> QED
        BY <2>1, <4>2, ValueRemainder
    <3> QED
      BY <3>1, <3>2
  <2>4. SingleUse(a) => d <= b
    BY VerifiedTakes
  <2> HIDE DEF b, d, f, bb
  <2>5. b - d \in Int /\ f + d \in Int /\ (b - d) + (f + d) = b + f
    BY <2>1
  <2>6. (bb + (f + d)) % Word = (b + f) % Word
    BY <2>3, <2>5, RemainderAdded
  <2>7. ASSUME SingleUse(a) PROVE bb + (f + d) <= b + f
    <3>1. b - d \in Nat
      BY <2>1, <2>4, <2>7
    <3>2. bb <= b - d /\ bb \in Nat
      BY <2>3, <3>1, SmallRemainder, RemainderAdded
    <3> QED
      BY <2>1, <3>2
  <2> QED
    BY <2>1, <2>2, <2>6, <2>7 DEF b, d, f, bb
<1>5. Sound(acc, p, q) => Sound(acd, p \cup {t}, q)
  <2> HIDE DEF acc, acd, p
  <2>1. \A a \in Own : \E i \in Nat :
          LET x == Balance(acc, a) + Sum(From(a, p))
              z == Balance(acd, a) + Sum(From(a, p \cup {t}))
          IN  /\ Sum(To(a, q)) = Sum(To(a, q)) + i
              /\ z % Word = (x + i) % Word
              /\ SingleUse(a) => z <= x + i
    BY <1>4
  <2> QED
    BY <1>1, <1>3, <2>1, StaysSound
<1>6. /\ q \cup c.TXCache = p /\ q \cup (c.TXCache \cup {t}) = p \cup {t}
      /\ c.AccData = acc
  OBVIOUS
<1>7. DOMAIN acc \subseteq DOMAIN acd
  BY <1>3
<1> HIDE DEF acd, acc, as, p
<1>8. c.TXCache \cup {t} \in SUBSET Txs
  BY DEF Books
<1> DEFINE d == LockTx(c, t, Me)
<1>9. d.AccData = acd /\ d.TXCache = c.TXCache \cup {t} /\ d \in Books
  BY <1>2, <1>3, <1>5, <1>6, <1>7, <1>8 DEF Books
<1> HIDE DEF d
<1>10. /\ DOMAIN c.AccData \subseteq DOMAIN d.AccData
       /\ Sound(c.AccData, q \cup c.TXCache, q) => Sound(d.AccData, q \cup d.TXCache, q)
  BY <1>5, <1>6, <1>7, <1>8, <1>9
<1> QED
  BY <1>9, <1>10 DEF d

LEMMA UnlockSound ==
  ASSUME NEW c \in Books, NEW t \in Txs, NEW q \in SUBSET Txs,
         t \in c.TXCache, t \notin q
  PROVE  LET d == UnlockTx(c, t, Me) IN
           /\ d \in Books /\ DOMAIN c.AccData \subseteq DOMAIN d.AccData
           /\ Sound(c.AccData, q \cup c.TXCache, q)
                => Sound(d.AccData, q \cup d.TXCache, q)
<1> DEFINE acc == c.AccData
           as == Payers(t, Me)
           acd == UnlockUTXO(acc, t, as)
           p == q \cup (c.TXCache \ {t})
<1>1. /\ t \in Tx /\ acc \in Balances /\ p \in SUBSET Txs /\ p \cup {t} \in SUBSET Txs
      /\ as \in SUBSET Accounts /\ t \notin p
  BY WalletAssumption, PartiesAre DEF Books
<1>2. UnlockTx(c, t, Me) = [AccData |-> acd, TXCache |-> c.TXCache \ {t}]
  <2>1. c = [AccData |-> acc, TXCache |-> c.TXCache]
    BY DEF Books
  <2> DEFINE d == [c EXCEPT !.TXCache = @ \ {t}]
  <2>2. UnlockTx(c, t, Me) = [d EXCEPT !.AccData = UnlockUTXO(@, t, as)]
    BY DEF UnlockTx
  <2> HIDE DEF acc
  <2>3. d = [AccData |-> acc, TXCache |-> c.TXCache \ {t}]
    BY <2>1
  <2> HIDE DEF d
  <2>4. d.AccData = acc
    BY <2>3
  <2> HIDE DEF as
  <2> QED
    BY <2>2, <2>3, <2>4
<1>3. /\ acd \in Balances /\ DOMAIN acd = as \cup DOMAIN acc
      /\ \A a \in as : Balance(acd, a) = (Balance(acc, a) + Sum(From(a, {t}))) % Word
      /\ \A a : a \notin as => Balance(acd, a) = Balance(acc, a)
  <2> HIDE DEF acc, as
  <2> QED
    BY <1>1, UnlockIs
<1>4. ASSUME NEW a \in Own
      PROVE  LET x == Balance(acc, a) + Sum(From(a, p \cup {t}))
                 z == Balance(acd, a) + Sum(From(a, p))
             IN  /\ Sum(To(a, q)) = Sum(To(a, q)) + 0
                 /\ z % Word = (x + 0) % Word
                 /\ SingleUse(a) => z <= x + 0
  <2> DEFINE b == Balance(acc, a)
             d == Sum(From(a, {t}))
             f == Sum(From(a, p))
             bb == Balance(acd, a)
  <2>1. b \in Value /\ b \in Nat /\ f \in Nat /\ d \in Nat /\ Sum(To(a, q)) \in Nat
    BY <1>1, NumbersAre, OneType
  <2>2. Sum(From(a, p \cup {t})) = f + d
    BY <1>1, SumsWith, TxsAre
  <2>3. bb = (b + d) % Word
    <3>1. CASE a \in as
      BY <1>3, <3>1
    <3>2. CASE a \notin as
      <4>1. d = 0
        BY <1>1, <3>2, PartiesAre DEF Own
      <4>2. bb = b /\ b + d = b
        BY <1>3, <2>1, <3>2, <4>1
      <4> HIDE DEF b, d, bb
      <4> QED
        BY <2>1, <4>2, ValueRemainder
    <3> QED
      BY <3>1, <3>2
  <2> HIDE DEF b, d, f, bb
  <2>4. b + d \in Int /\ b + d \in Nat /\ (b + d) + f = b + (f + d)
    BY <2>1
  <2>5. (bb + f) % Word = (b + (f + d)) % Word
    BY <2>1, <2>3, <2>4, RemainderAdded
  <2>6. bb <= b + d /\ bb \in Nat
    BY <2>3, <2>4, SmallRemainder, RemainderAdded
  <2>7. bb + f <= b + (f + d)
    BY <2>1, <2>6
  <2> QED
    BY <2>1, <2>2, <2>5, <2>7 DEF b, d, f, bb
<1>5. Sound(acc, p \cup {t}, q) => Sound(acd, p, q)
  <2> HIDE DEF acc, acd, p
  <2>1. \A a \in Own : \E i \in Nat :
          LET x == Balance(acc, a) + Sum(From(a, p \cup {t}))
              z == Balance(acd, a) + Sum(From(a, p))
          IN  /\ Sum(To(a, q)) = Sum(To(a, q)) + i
              /\ z % Word = (x + i) % Word
              /\ SingleUse(a) => z <= x + i
    BY <1>4
  <2> QED
    BY <1>1, <1>3, <2>1, StaysSound
<1>6. /\ q \cup c.TXCache = p \cup {t} /\ q \cup (c.TXCache \ {t}) = p
      /\ c.AccData = acc
  OBVIOUS
<1>7. DOMAIN acc \subseteq DOMAIN acd
  BY <1>3
<1> HIDE DEF acd, acc, as, p
<1>8. c.TXCache \ {t} \in SUBSET Txs
  BY DEF Books
<1> DEFINE d == UnlockTx(c, t, Me)
<1>9. d.AccData = acd /\ d.TXCache = c.TXCache \ {t} /\ d \in Books
  BY <1>2, <1>3, <1>5, <1>6, <1>7, <1>8 DEF Books
<1> HIDE DEF d
<1>10. /\ DOMAIN c.AccData \subseteq DOMAIN d.AccData
       /\ Sound(c.AccData, q \cup c.TXCache, q) => Sound(d.AccData, q \cup d.TXCache, q)
  BY <1>5, <1>6, <1>7, <1>8, <1>9
<1> QED
  BY <1>9, <1>10 DEF d

\* A transaction of a block: what its lock did not take already is taken now.
LEMMA ApplySound ==
  ASSUME NEW c \in Books, NEW t \in Txs, NEW q \in SUBSET Txs,
         t \notin q, t \in c.TXCache \/ VerifyTx(c, t, Me)
  PROVE  LET d == UpdateUTXO(c, t, Me) IN
           /\ d \in Books /\ d.TXCache = c.TXCache
           /\ DOMAIN c.AccData \subseteq DOMAIN d.AccData
           /\ Sound(c.AccData, q \cup c.TXCache, q)
                => Sound(d.AccData, (q \cup {t}) \cup d.TXCache, q \cup {t})
<1> DEFINE acc == c.AccData
           as == IF t \in c.TXCache THEN {} ELSE Payers(t, Me) \cap DOMAIN acc
           bs == Payees(t, Me)
           mid == LockUTXO(acc, t, as)
           acd == Give(mid, t, bs)
           p == q \cup c.TXCache
           pp == (q \cup {t}) \cup c.TXCache
<1>1. /\ t \in Tx /\ acc \in Balances /\ p \in SUBSET Txs /\ pp \in SUBSET Txs
      /\ as \in SUBSET Accounts /\ bs \in SUBSET Accounts /\ q \cup {t} \in SUBSET Txs
  BY WalletAssumption, PartiesAre DEF Books
<1>2. UpdateUTXO(c, t, Me) = [AccData |-> acd, TXCache |-> c.TXCache]
  <2>1. c = [AccData |-> acc, TXCache |-> c.TXCache]
    BY DEF Books
  <2> QED
    BY <2>1 DEF UpdateUTXO
<1>3. /\ mid \in Balances /\ DOMAIN mid = as \cup DOMAIN acc
      /\ \A a \in as : Balance(mid, a) = (Balance(acc, a) - Sum(From(a, {t}))) % Word
      /\ \A a : a \notin as => Balance(mid, a) = Balance(acc, a)
  <2> HIDE DEF acc, as
  <2> QED
    BY <1>1, LockIs
<1>4. /\ acd \in Balances /\ DOMAIN acd = bs \cup DOMAIN mid
      /\ \A a \in bs : Balance(acd, a) = (Balance(mid, a) + Sum(To(a, {t}))) % Word
      /\ \A a : a \notin bs => Balance(acd, a) = Balance(mid, a)
  <2> HIDE DEF mid, bs
  <2> QED
    BY <1>1, <1>3, GiveIs
<1>5. ASSUME NEW a \in Own
      PROVE  LET x == Balance(acc, a) + Sum(From(a, p))
                 z == Balance(acd, a) + Sum(From(a, pp))
                 i == Sum(To(a, {t}))
             IN  /\ i \in Nat /\ Sum(To(a, q \cup {t})) = Sum(To(a, q)) + i
                 /\ z % Word = (x + i) % Word
                 /\ SingleUse(a) => z <= x + i
  <2> DEFINE b == Balance(acc, a)
             d == IF t \in c.TXCache THEN 0 ELSE Sum(From(a, {t}))
             f == Sum(From(a, p))
             ff == Sum(From(a, pp))
             m == Balance(mid, a)
             i == Sum(To(a, {t}))
             bb == Balance(acd, a)
  <2>1. /\ b \in Value /\ b \in Nat /\ f \in Nat /\ d \in Nat /\ i \in Nat
        /\ m \in Value /\ m \in Nat /\ Sum(From(a, {t})) \in Nat
    BY <1>1, <1>3, NumbersAre, OneType
  <2>2. Sum(To(a, q \cup {t})) = Sum(To(a, q)) + i
    BY <1>1, SumsWith, TxsAre
  <2>3. ff = f + d
    <3>1. CASE t \in c.TXCache
      <4>1. pp = p /\ d = 0
        BY <3>1
      <4> HIDE DEF p, pp, d
      <4> QED
        BY <2>1, <4>1
    <3>2. CASE t \notin c.TXCache
      <4>1. pp = p \cup {t} /\ t \notin p /\ d = Sum(From(a, {t}))
        BY <3>2
      <4> HIDE DEF p, pp
      <4>2. Sum(From(a, p \cup {t})) = Sum(From(a, p)) + Sum(From(a, {t}))
        BY <1>1, <4>1, SumsWith, TxsAre
      <4> HIDE DEF d
      <4> QED
        BY <4>1, <4>2
    <3> QED
      BY <3>1, <3>2
  <2>4. d = 0 \/ (a \in as /\ d = Sum(From(a, {t})))
    <3>1. CASE t \notin c.TXCache /\ a \notin Payers(t, Me)
      <4>1. Sum(From(a, {t})) = 0
        BY <1>1, <3>1, PartiesAre DEF Own
      <4> QED
        BY <3>1, <4>1
    <3>2. CASE t \notin c.TXCache /\ a \notin DOMAIN acc
      <4>1. b = 0
        BY <3>2 DEF Balance
      <4>2. Sum(From(a, {t})) = 0
        BY <3>2, <4>1, VerifiedTakes
      <4> QED
        BY <3>2, <4>2
    <3>3. CASE t \in c.TXCache
      BY <3>3
    <3>4. CASE t \notin c.TXCache /\ a \in Payers(t, Me) /\ a \in DOMAIN acc
      BY <3>4
    <3> HIDE DEF d, as
    <3> QED
      BY <3>1, <3>2, <3>3, <3>4
  <2>5. a \in as => d = Sum(From(a, {t}))
    OBVIOUS
  <2>6. m = (b - d) % Word
    <3>1. CASE a \in as
      BY <1>3, <2>5, <3>1
    <3>2. CASE a \notin as
      <4>1. m = b
        <5> HIDE DEF mid, as, acc
        <5> QED
          BY <1>3, <3>2
      <4>2. d = 0
        BY <2>4, <3>2, Zenon
      <4> HIDE DEF b, d, m, as
      <4>3. b - d = b
        BY <2>1, <4>2
      <4> QED
        BY <2>1, <4>1, <4>3, ValueRemainder
    <3> QED
      BY <3>1, <3>2
  <2>7. bb = (m + i) % Word
    <3>1. CASE a \in bs
      BY <1>4, <3>1
    <3>2. CASE a \notin bs
      <4>1. i = 0
        BY <1>1, <3>2, PartiesAre DEF Own
      <4>2. bb = m
        <5> HIDE DEF acd, mid, bs
        <5> QED
          BY <1>4, <3>2
      <4> HIDE DEF m, i, bb
      <4>3. m + i = m
        BY <2>1, <4>1
      <4> QED
        BY <2>1, <4>2, <4>3, ValueRemainder
    <3> QED
      BY <3>1, <3>2
  <2>8. SingleUse(a) => d <= b
    <3>1. CASE t \in c.TXCache
      BY <2>1, <3>1
    <3>2. CASE t \notin c.TXCache
      BY <3>2, VerifiedTakes
    <3> QED
      BY <3>1, <3>2
  <2> HIDE DEF b, d, f, ff, m, i, bb
  <2>9. (bb + (f + d)) % Word = ((b + f) + i) % Word
    <3>1. /\ b - d \in Int /\ m + i \in Int /\ f + d \in Int /\ i + (f + d) \in Int
          /\ (m + i) + (f + d) = m + (i + (f + d))
          /\ (b - d) + (i + (f + d)) = (b + f) + i
      BY <2>1
    <3>2. (bb + (f + d)) % Word = ((m + i) + (f + d)) % Word
      BY <2>7, <3>1, RemainderAdded
    <3>3. (m + (i + (f + d))) % Word = ((b - d) + (i + (f + d))) % Word
      BY <2>6, <3>1, RemainderAdded
    <3> QED
      BY <3>1, <3>2, <3>3
  <2>10. ASSUME SingleUse(a) PROVE bb + (f + d) <= (b + f) + i
    <3>1. b - d \in Nat /\ m + i \in Nat
      BY <2>1, <2>8, <2>10
    <3>2. m <= b - d
      BY <2>6, <3>1, SmallRemainder
    <3>3. bb <= m + i /\ bb \in Nat
      BY <2>7, <3>1, SmallRemainder, RemainderAdded
    <3> QED
      BY <2>1, <3>2, <3>3
  <2> QED
    BY <2>1, <2>2, <2>3, <2>9, <2>10 DEF b, d, f, ff, m, i, bb
<1>6. Sound(acc, p, q) => Sound(acd, pp, q \cup {t})
  <2> HIDE DEF acc, acd, p, pp
  <2>1. \A a \in Own : \E i \in Nat :
          LET x == Balance(acc, a) + Sum(From(a, p))
              z == Balance(acd, a) + Sum(From(a, pp))
          IN  /\ Sum(To(a, q \cup {t})) = Sum(To(a, q)) + i
              /\ z % Word = (x + i) % Word
              /\ SingleUse(a) => z <= x + i
    BY <1>5
  <2> QED
    BY <1>1, <1>4, <2>1, StaysSound
<1>7. DOMAIN acc \subseteq DOMAIN acd
  BY <1>3, <1>4
<1>8. /\ q \cup c.TXCache = p /\ (q \cup {t}) \cup c.TXCache = pp
      /\ c.AccData = acc
  OBVIOUS
<1> HIDE DEF acd, acc, mid, as, bs, p, pp
<1>9. c.TXCache \in SUBSET Txs
  BY DEF Books
<1> DEFINE d == UpdateUTXO(c, t, Me)
<1>10. d.AccData = acd /\ d.TXCache = c.TXCache /\ d \in Books
  BY <1>2, <1>4, <1>6, <1>7, <1>8, <1>9 DEF Books
<1> HIDE DEF d
<1>11. /\ DOMAIN c.AccData \subseteq DOMAIN d.AccData
       /\ Sound(c.AccData, q \cup c.TXCache, q) => Sound(d.AccData, (q \cup {t}) \cup d.TXCache, q \cup {t})
  BY <1>5, <1>6, <1>7, <1>8, <1>10
<1> QED
  BY <1>10, <1>11 DEF d

----------------------------------------------------------------------------
(* The steps.                                                              *)

LEMMA AccInitial == AccInit => AccInv
<1> SUFFICES ASSUME AccInit PROVE AccInv
  OBVIOUS
<1>1. /\ book = [AccData |-> Opened, TXCache |-> {}] /\ accs = Opened
      /\ applied = {} /\ lost = FALSE
      /\ saved = [applied |-> {}, locked |-> {}, lost |-> FALSE]
  BY DEF AccInit
<1>2. AccTypeOK /\ NothingForgotten
  BY <1>1, OpenedType DEF AccTypeOK, NothingForgotten
<1>3. Sound(Opened, {}, {})
  <2>1. ASSUME NEW a \in Own
        PROVE  /\ Balance(Opened, a) = Wallet[a] /\ Wallet[a] \in Nat
               /\ Sum(From(a, {})) = 0 /\ Sum(To(a, {})) = 0
    <3>1. From(a, {}) = {} /\ To(a, {}) = {}
      BY DEF From, To
    <3> QED
      BY <3>1, OpenedType, SumOfNone, WalletAssumption, WordAssumption DEF Own, Value
  <2>2. \A a \in Own :
          LET x == Balance(Opened, a) + Sum(From(a, {}))
              y == Wallet[a] + Sum(To(a, {}))
          IN  x = y /\ x <= y
    BY <2>1
  <2> QED
    BY <2>2 DEF Sound, Fits, Covers
<1>4. {} \cup {} = {}
  OBVIOUS
<1> QED
  BY <1>1, <1>2, <1>3, <1>4 DEF AccInv

\* A step that leaves what was saved alone.
LEMMA BookStep ==
  ASSUME AccInv, book' \in Books, DOMAIN book.AccData \subseteq DOMAIN book'.AccData,
         UNCHANGED <<accs, saved, lost>>, applied' \in SUBSET Txs,
         Sound(book.AccData, applied \cup book.TXCache, applied)
           => Sound(book'.AccData, applied' \cup book'.TXCache, applied')
  PROVE  AccInv'
<1>1. AccTypeOK' /\ NothingForgotten'
  BY DEF AccInv, AccTypeOK, NothingForgotten, Books, Own, ShardIndex
<1>2. ~lost' => Sound(book'.AccData, applied' \cup book'.TXCache, applied')
  BY DEF AccInv
<1>3. ~saved'.lost
        => Sound(accs', saved'.applied \cup saved'.locked, saved'.applied)
  BY DEF AccInv
<1> QED
  BY <1>1, <1>2, <1>3 DEF AccInv

LEMMA LockStep ==
  ASSUME AccInv, NEW t \in Txs, Lock(t)
  PROVE  AccInv'
<1>1. /\ book \in Books /\ applied \in SUBSET Txs /\ book' = LockTx(book, t, Me)
      /\ applied' = applied /\ UNCHANGED <<accs, saved, lost>>
      /\ t \notin applied \cup book.TXCache /\ VerifyTx(book, t, Me)
  BY DEF AccInv, AccTypeOK, Books, Lock
<1>2. /\ book' \in Books /\ DOMAIN book.AccData \subseteq DOMAIN book'.AccData
      /\ Sound(book.AccData, applied \cup book.TXCache, applied)
           => Sound(book'.AccData, applied \cup book'.TXCache, applied)
  BY <1>1, LockSound
<1> QED
  BY <1>1, <1>2, BookStep

LEMMA UnlockStep ==
  ASSUME AccInv, NEW t \in Txs, Unlock(t)
  PROVE  AccInv'
<1>1. /\ book \in Books /\ applied \in SUBSET Txs /\ book' = UnlockTx(book, t, Me)
      /\ applied' = applied /\ UNCHANGED <<accs, saved, lost>>
      /\ t \in book.TXCache /\ t \notin applied
  BY DEF AccInv, AccTypeOK, Books, Unlock
<1>2. /\ book' \in Books /\ DOMAIN book.AccData \subseteq DOMAIN book'.AccData
      /\ Sound(book.AccData, applied \cup book.TXCache, applied)
           => Sound(book'.AccData, applied \cup book'.TXCache, applied)
  BY <1>1, UnlockSound
<1> QED
  BY <1>1, <1>2, BookStep

LEMMA ApplyStep ==
  ASSUME AccInv, NEW t \in Txs, Apply(t)
  PROVE  AccInv'
<1>1. /\ book \in Books /\ applied \in SUBSET Txs /\ book' = UpdateUTXO(book, t, Me)
      /\ applied' = applied \cup {t} /\ UNCHANGED <<accs, saved, lost>>
      /\ t \notin applied /\ (t \in book.TXCache \/ VerifyTx(book, t, Me))
  BY DEF AccInv, AccTypeOK, Books, Apply
<1>2. /\ book' \in Books /\ DOMAIN book.AccData \subseteq DOMAIN book'.AccData
      /\ Sound(book.AccData, applied \cup book.TXCache, applied)
           => Sound(book'.AccData, applied' \cup book'.TXCache, applied')
  BY <1>1, ApplySound
<1> QED
  BY <1>1, <1>2, BookStep

\* What is saved: the balances that are not zero, and the entries of the
\* accounts that have no balance.
LEMMA SaveAccIs ==
  ASSUME NEW stored \in Balances, NEW acc \in Balances,
         \A a \in DOMAIN stored : stored[a] # 0
  PROVE  LET s == SaveAcc(stored, acc) IN
           /\ s \in Balances /\ \A a \in DOMAIN s : s[a] # 0
           /\ DOMAIN s \subseteq DOMAIN stored \cup DOMAIN acc
           /\ \A a \in DOMAIN acc : Balance(s, a) = acc[a]
<1> DEFINE new == [a \in {x \in DOMAIN acc : acc[x] # 0} |-> acc[a]]
           old == [a \in DOMAIN stored \ DOMAIN acc |-> stored[a]]
           s == SaveAcc(stored, acc)
<1>1. s = [a \in DOMAIN new \cup DOMAIN old |->
             IF a \in DOMAIN new THEN new[a] ELSE old[a]]
  <2>1. s = Overwrite(new, old)
    BY DEF SaveAcc, Restrict
  <2> HIDE DEF new, old, s
  <2> QED
    BY <2>1 DEF Overwrite
<1>2. /\ DOMAIN acc \in SUBSET Accounts /\ DOMAIN stored \in SUBSET Accounts
      /\ \A a \in DOMAIN acc : acc[a] \in Value
      /\ \A a \in DOMAIN stored : stored[a] \in Value
  BY DEF Balances
<1>3. /\ DOMAIN s = {x \in DOMAIN acc : acc[x] # 0} \cup (DOMAIN stored \ DOMAIN acc)
      /\ \A a \in DOMAIN s : s[a] = IF a \in DOMAIN acc THEN acc[a] ELSE stored[a]
      /\ s \in [DOMAIN s -> Value]
  <2>1. DOMAIN s = {x \in DOMAIN acc : acc[x] # 0} \cup (DOMAIN stored \ DOMAIN acc)
    BY <1>1
  <2>2. \A a \in DOMAIN s : s[a] = IF a \in DOMAIN acc THEN acc[a] ELSE stored[a]
    BY <1>1, <2>1
  <2>3. \A a \in DOMAIN s : s[a] \in Value
    BY <1>2, <2>1, <2>2
  <2>4. s = [a \in DOMAIN s |-> s[a]]
    BY <1>1
  <2> HIDE DEF s
  <2> QED
    BY <2>1, <2>2, <2>3, <2>4
<1>4. s \in Balances
  <2>1. DOMAIN s \in SUBSET Accounts
    BY <1>2, <1>3
  <2> HIDE DEF s
  <2> QED
    BY <1>3, <2>1 DEF Balances
<1>5. \A a \in DOMAIN acc : Balance(s, a) = acc[a]
  <2> HIDE DEF s
  <2> QED
    BY <1>3 DEF Balance
<1> HIDE DEF s
<1> QED
  BY <1>3, <1>4, <1>5 DEF s

LEMMA UpdateAccountStep ==
  ASSUME AccInv, UpdateAccount
  PROVE  AccInv'
<1>1. /\ AccTypeOK /\ NothingForgotten /\ book' = book /\ applied' = applied
      /\ lost' = lost /\ accs' = SaveAcc(accs, book.AccData)
      /\ saved' = [applied |-> applied, locked |-> book.TXCache, lost |-> lost]
      /\ book.AccData \in Balances /\ accs \in Balances
      /\ \A a \in DOMAIN accs : accs[a] # 0
  BY DEF AccInv, AccTypeOK, UpdateAccount, Memory
<1>2. /\ accs' \in Balances /\ \A a \in DOMAIN accs' : accs'[a] # 0
      /\ DOMAIN accs' \subseteq DOMAIN accs \cup DOMAIN book.AccData
      /\ \A a \in DOMAIN book.AccData : Balance(accs', a) = book.AccData[a]
  BY <1>1, SaveAccIs
<1>3. AccTypeOK' /\ NothingForgotten'
  BY <1>1, <1>2 DEF AccTypeOK, NothingForgotten, Own, ShardIndex
<1>4. \A a \in Own : Balance(accs', a) = Balance(book.AccData, a)
  BY <1>1, <1>2 DEF Balance, NothingForgotten
<1>5. ~lost' => Sound(book'.AccData, applied' \cup book'.TXCache, applied')
  BY <1>1 DEF AccInv
<1>6. ~saved'.lost
        => Sound(accs', saved'.applied \cup saved'.locked, saved'.applied)
  <2>1. ~lost => Sound(accs', applied \cup book.TXCache, applied)
    BY <1>4, SoundAlike DEF AccInv
  <2> QED
    BY <1>1, <2>1
<1> QED
  BY <1>3, <1>5, <1>6 DEF AccInv

\* Every account of the shard has the balance it had when it was saved.
LEMMA ReloadStep ==
  ASSUME AccInv, Reload
  PROVE  AccInv'
<1> DEFINE own == {a \in DOMAIN accs : ShardIndex(a) = Me}
<1>1. /\ AccTypeOK /\ NothingForgotten /\ UNCHANGED <<accs, applied, saved>>
      /\ book' = [AccData |-> [a \in own |-> accs[a]], TXCache |-> book.TXCache]
      /\ lost' = (saved # [applied |-> applied, locked |-> book.TXCache, lost |-> FALSE])
      /\ accs \in Balances /\ book.TXCache \in SUBSET Txs
      /\ \A a \in DOMAIN accs : accs[a] # 0
  BY DEF AccInv, AccTypeOK, Reload, Memory, UploadAcc, Restrict
<1>2. book'.AccData \in Balances
  <2>1. book'.AccData = [a \in own |-> accs[a]]
    BY <1>1
  <2>2. own \in SUBSET Accounts /\ \A a \in own : accs[a] \in Value
    BY <1>1 DEF Balances
  <2>3. book'.AccData \in [own -> Value]
    BY <2>1, <2>2
  <2> HIDE DEF own
  <2> QED
    BY <2>2, <2>3 DEF Balances
<1>3. \A a \in Own : Balance(book'.AccData, a) = Balance(accs, a)
  BY <1>1 DEF Balance, Own
<1>4. AccTypeOK' /\ NothingForgotten'
  <2>1. book' \in [AccData : Balances, TXCache : SUBSET Txs]
    BY <1>1, <1>2
  <2>2. DOMAIN book'.AccData = own
    BY <1>1
  <2> QED
    BY <1>1, <2>1, <2>2 DEF AccTypeOK, NothingForgotten, Own, ShardIndex
<1>5. ~lost' => Sound(book'.AccData, applied' \cup book'.TXCache, applied')
  <2> SUFFICES ASSUME ~lost' PROVE Sound(book'.AccData, applied \cup book.TXCache, applied)
    BY <1>1
  <2>1. ~saved.lost /\ saved.applied = applied /\ saved.locked = book.TXCache
    <3>1. saved = [applied |-> applied, locked |-> book.TXCache, lost |-> FALSE]
      BY <1>1
    <3> QED
      BY <3>1
  <2>2. Sound(accs, applied \cup book.TXCache, applied)
    BY <2>1 DEF AccInv
  <2> QED
    BY <1>3, <2>2, SoundAlike
<1>6. ~saved'.lost
        => Sound(accs', saved'.applied \cup saved'.locked, saved'.applied)
  BY <1>1 DEF AccInv
<1> QED
  BY <1>4, <1>5, <1>6 DEF AccInv

LEMMA AccStep == AccInv /\ [AccNext]_accVars => AccInv'
<1> SUFFICES ASSUME AccInv, [AccNext]_accVars PROVE AccInv'
  OBVIOUS
<1>1. CASE UNCHANGED accVars
  <2>1. /\ UNCHANGED <<accs, saved, lost>> /\ book' = book /\ applied' = applied
        /\ book \in Books /\ applied \in SUBSET Txs
    BY <1>1 DEF accVars, AccInv, AccTypeOK, Books
  <2> QED
    BY <2>1, BookStep
<1>2. ASSUME NEW t \in Txs, Lock(t) PROVE AccInv'
  BY <1>2, LockStep
<1>3. ASSUME NEW t \in Txs, Unlock(t) PROVE AccInv'
  BY <1>3, UnlockStep
<1>4. ASSUME NEW t \in Txs, Apply(t) PROVE AccInv'
  BY <1>4, ApplyStep
<1>5. CASE UpdateAccount
  BY <1>5, UpdateAccountStep
<1>6. CASE Reload
  BY <1>6, ReloadStep
<1> QED
  BY <1>1, <1>2, <1>3, <1>4, <1>5, <1>6 DEF AccNext

\* The inductive invariant of the accounts.
THEOREM AccInvariant == AccSpec => []AccInv
BY AccInitial, AccStep, PTL DEF AccSpec

\* The balances, the bucket and the transactions stay what they are.
THEOREM AccTypeCorrect == AccSpec => []AccTypeOK
<1>1. AccInv => AccTypeOK
  BY DEF AccInv
<1> QED
  BY <1>1, AccInvariant, PTL

\* Locks, unlocks, blocks and saves in any order leave every account of the
\* shard with what it had, less what it paid and has locked, plus what it
\* received, modulo the word, until balances from before the locks and the
\* blocks are read back (LockTx, UnlockTx, UpdateUTXO, UpdateAccount,
\* UploadAcc); and the database with that of the time it was written.
THEOREM BalancesAccounted == AccSpec => []Accounted
BY AccInvariant, AccInvProperties, PTL

\* No account that no transaction takes from by two inputs spends what it has
\* not, whatever becomes of the others: a balance that wraps around below zero
\* would make the left side larger by a word (CheckUTXO before LockUTXO).
THEOREM BalancesCovered == AccSpec => []NoOverdraft
BY AccInvariant, AccInvProperties, PTL

----------------------------------------------------------------------------
(***************************************************************************)
(* The record of a cross-shard decision.                                   *)
(***************************************************************************)

\* What a shard has said is what it decides, only shards of inputs say
\* anything, and what is not heard of is Waiting with the transaction and
\* Nothing without.
Entries ==
  /\ \A s \in Deciders :
       /\ InCheck[s] = Yes => s \in ins /\ vote[s]
       /\ InCheck[s] = No => s \in ins /\ ~vote[s]
  /\ \A s \in ins : InCheck[s] \in {Yes, No, IF Data THEN Waiting ELSE Nothing}
  /\ ~present => ~Data /\ Heard = {}

\* The verdict is the one CrossVote makes of what has been heard.
VerdictOfHeard == Res = Promise!Verdict(Data, Heard)

DecInv == DecTypeOK /\ Entries /\ SumCounts /\ VerdictOfHeard

\* Any set of shards can be counted.
LEMMA Counted ==
  ASSUME NEW S \in SUBSET Deciders
  PROVE  /\ IsFiniteSet(S) /\ Cardinality(S) \in 0..ShardCnt
         /\ Cardinality(S) = 0 <=> S = {}
<1>1. IsFiniteSet(S) /\ Cardinality(S) <= ShardCnt
  BY SeveralShards, FS_Subset DEF ShardCnt
<1> QED
  BY <1>1, SeveralShards, FS_CardinalityType, FS_EmptySet DEF ShardCnt

\* One shard more says yes.
LEMMA OneLess ==
  ASSUME NEW S \in SUBSET Deciders, NEW s \in S
  PROVE  Cardinality(S \ {s}) = Cardinality(S) - 1
BY Counted, FS_RemoveElement

\* One shard is not all of them.
LEMMA NotAlone ==
  ASSUME NEW s \in Deciders
  PROVE  ~(Deciders \subseteq {s})
<1> SUFFICES ASSUME Deciders \subseteq {s} PROVE FALSE
  OBVIOUS
<1>1. Deciders = {s}
  OBVIOUS
<1> QED
  BY <1>1, SeveralShards, FS_Singleton

LEMMA DecInitial == DecInit => DecInv /\ Promise!VoteInit
<1> SUFFICES ASSUME DecInit PROVE DecInv /\ Promise!VoteInit
  OBVIOUS
<1> USE DEF DecInit
<1>1. Heard = {}
  BY DEF Heard, Said, Nothing, Yes, No
<1>2. Deciders # {} /\ 0 \in 0..ShardCnt
  BY SeveralShards, FS_EmptySet, Counted DEF ShardCnt
<1>3. DecTypeOK
  BY <1>2 DEF DecTypeOK, CheckValues
<1>4. Entries
  BY <1>1 DEF Entries, Nothing, Yes, No
<1>5. VerdictOfHeard
  BY <1>1, <1>2 DEF VerdictOfHeard, Promise!Verdict, Promise!Needed
<1> QED
  BY <1>1, <1>3, <1>4, <1>5 DEF DecInv, SumCounts, Promise!VoteInit

\* The transaction comes first.
LEMMA NewStep ==
  ASSUME DecInv, New
  PROVE  DecInv' /\ Promise!Learn
<1> USE DEF DecInv, New
<1>1. /\ InCheck' \in [Deciders -> CheckValues]
      /\ \A s \in Deciders : InCheck'[s] = Waiting <=> s \in ins
      /\ \A s \in Deciders : InCheck'[s] # Yes /\ InCheck'[s] # No
  BY DEF CheckValues, Nothing, Yes, No, Waiting, Output
<1>2. ins \subseteq Deciders /\ ins # {} /\ vote \in [ins -> BOOLEAN]
  BY DEF DecTypeOK
<1>3. {s \in Deciders : InCheck'[s] = Waiting} = ins
  BY <1>1, <1>2
<1>4. Said(Yes)' = {} /\ Said(No)' = {} /\ Heard' = {}
  BY <1>1 DEF Said, Heard
<1>5. InCheckSum' = Cardinality(ins)
  BY <1>3
<1>6. DecTypeOK'
  BY <1>1, <1>2, <1>5, Counted DEF DecTypeOK
<1>7. Entries'
  BY <1>1, <1>2, <1>4 DEF Entries
<1>8. SumCounts'
  BY <1>4, <1>5 DEF SumCounts
<1>9. Res' = Promise!Verdict(TRUE, {})
  BY <1>2 DEF Promise!Verdict, Promise!Needed
<1>10. VerdictOfHeard'
  BY <1>4, <1>9, <1>2 DEF VerdictOfHeard, Promise!Verdict, Promise!Needed
<1>11. Heard = {}
  BY DEF Entries
<1> QED
  BY <1>4, <1>6, <1>7, <1>8, <1>9, <1>10, <1>11
  DEF Promise!Learn, Promise!VoteStep

\* The transaction comes after decisions, or once more.
LEMMA UpdateStep ==
  ASSUME DecInv, Update
  PROVE  DecInv' /\ Promise!Learn
<1> USE DEF DecInv, Update
<1>1. ins \subseteq Deciders /\ ins # {} /\ vote \in [ins -> BOOLEAN]
  BY DEF DecTypeOK
<1>2. \A s \in Deciders : InCheck[s] \in CheckValues
  BY DEF DecTypeOK
<1>3. \A s \in ins : InCheck'[s] = IF InCheck[s] = Nothing THEN Waiting ELSE InCheck[s]
  BY <1>1
<1>4. \A s \in ins : InCheck'[s] \in {Yes, No, Waiting}
  BY <1>3 DEF Entries
<1>5. \A s \in Deciders \ ins :
        InCheck'[s] = (IF s \in outs THEN Output ELSE InCheck[s])
  OBVIOUS
<1>6. InCheck' \in [Deciders -> CheckValues]
  BY <1>1, <1>2 DEF CheckValues, Waiting, Output
<1>7. \A s \in Deciders : /\ InCheck'[s] = Yes <=> InCheck[s] = Yes
                          /\ InCheck'[s] = No <=> InCheck[s] = No
  BY <1>3, <1>5 DEF Entries, Nothing, Yes, No, Waiting, Output
<1>8. Said(Yes)' = Said(Yes) /\ Said(No)' = Said(No) /\ Heard' = Heard
  BY <1>7 DEF Said, Heard
<1>9. {s \in ins : InCheck'[s] > 1} = ins \ Said(Yes)
  BY <1>1, <1>4, <1>7 DEF Said, Yes, No, Waiting
<1>10. InCheckSum' = Cardinality(ins \ Said(Yes))
  BY <1>9
<1>11. InCheckSum' \in 0..ShardCnt /\ (InCheckSum' = 0 <=> ins \subseteq Said(Yes))
  BY <1>1, <1>10, Counted
<1>12. DecTypeOK'
  BY <1>1, <1>6, <1>11 DEF DecTypeOK
<1>13. Entries'
  BY <1>4, <1>7, <1>8 DEF Entries
<1>14. SumCounts'
  BY <1>8, <1>10 DEF SumCounts
<1>15. Res' = Promise!Verdict(TRUE, Heard)
  <2>1. \A s \in Heard : s \in ins /\ (~vote[s] <=> InCheck[s] = No)
    BY DEF Heard, Said, Entries, Yes, No
  <2>2. CASE ins \subseteq Said(Yes)
    <3>1. \A s \in Heard : vote[s]
      BY <2>1, <2>2 DEF Said, Yes, No
    <3>2. Res' = 1
      BY <1>11, <2>2
    <3> QED
      BY <2>2, <3>1, <3>2 DEF Promise!Verdict, Promise!Needed, Heard
  <2>3. CASE ~(ins \subseteq Said(Yes)) /\ \E s \in ins : InCheck[s] = No
    <3>1. \E s \in Heard : ~vote[s]
      BY <1>1, <2>1, <2>3 DEF Heard, Said
    <3>2. Res' = -1
      BY <1>1, <1>7, <1>11, <2>3
    <3> QED
      BY <3>1, <3>2 DEF Promise!Verdict
  <2>4. CASE ~(ins \subseteq Said(Yes)) /\ ~\E s \in ins : InCheck[s] = No
    <3>1. Heard = Said(Yes) /\ \A s \in Heard : vote[s]
      BY <2>1, <2>4 DEF Heard, Said
    <3>2. Res = 0
      BY <1>1, <2>4, <3>1 DEF VerdictOfHeard, Promise!Verdict, Promise!Needed
    <3>3. Res' = Res
      BY <1>1, <1>7, <1>11, <2>4
    <3> QED
      BY <2>4, <3>1, <3>2, <3>3 DEF Promise!Verdict, Promise!Needed
  <2> QED
    BY <2>2, <2>3, <2>4
<1>16. VerdictOfHeard'
  BY <1>8, <1>15 DEF VerdictOfHeard, Promise!Verdict, Promise!Needed
<1> QED
  BY <1>8, <1>12, <1>13, <1>14, <1>15, <1>16 DEF Promise!Learn, Promise!VoteStep

\* A decision comes first.
LEMMA FirstDecision ==
  ASSUME DecInv, NEW s \in Deciders, s \in ins, NewFromOther(s, vote[s])
  PROVE  DecInv' /\ Promise!Hear(s)
<1> USE DEF DecInv, NewFromOther
<1>1. ins \subseteq Deciders /\ ins # {} /\ vote \in [ins -> BOOLEAN] /\ vote[s] \in BOOLEAN
  BY DEF DecTypeOK
<1>2. Data = FALSE /\ Heard = {} /\ Data' = FALSE
  BY DEF Entries, DecTypeOK
<1>3. /\ InCheck' \in [Deciders -> CheckValues]
      /\ InCheck'[s] = IF vote[s] THEN Yes ELSE No
      /\ \A t \in Deciders : t # s => InCheck'[t] = Nothing
  BY DEF CheckValues
<1>4. Said(Yes)' = (IF vote[s] THEN {s} ELSE {}) /\ Heard' = {s}
  BY <1>1, <1>3 DEF Said, Heard, Yes, No, Nothing
<1>5. /\ Cardinality(Deciders \ {s}) = ShardCnt - 1
      /\ ShardCnt \in Nat /\ ShardCnt - 1 \in 0..ShardCnt /\ ShardCnt \in 0..ShardCnt
  BY OneLess, Counted, SeveralShards DEF ShardCnt
<1>6. Deciders \ {} = Deciders
  OBVIOUS
<1>7. InCheckSum' = Cardinality(Deciders \ Said(Yes)')
  BY <1>1, <1>4, <1>5, <1>6 DEF ShardCnt
<1>8. DecTypeOK'
  BY <1>1, <1>2, <1>3, <1>5 DEF DecTypeOK
<1>9. Entries'
  BY <1>1, <1>2, <1>3 DEF Entries, Yes, No, Nothing
<1>10. SumCounts'
  BY <1>2, <1>7 DEF SumCounts
<1>11. Res' = Promise!Verdict(FALSE, {s})
  BY <1>1, NotAlone DEF Promise!Verdict, Promise!Needed
<1>12. VerdictOfHeard'
  BY <1>1, <1>2, <1>4, NotAlone DEF VerdictOfHeard, Promise!Verdict, Promise!Needed
<1>13. Heard \cup {s} = {s}
  BY <1>2
<1> QED
  BY <1>2, <1>4, <1>13, <1>8, <1>9, <1>10, <1>11, <1>12 DEF Promise!Hear, Promise!VoteStep

\* A decision comes that has been heard.
LEMMA SameDecision ==
  ASSUME DecInv, NEW s \in Deciders, s \in ins, UpdateFromOther(s, vote[s]),
         ~Undecided(s)
  PROVE  DecInv' /\ Promise!Hear(s)
<1> USE DEF DecInv, UpdateFromOther
<1>1. vote[s] \in BOOLEAN /\ InCheck \in [Deciders -> CheckValues]
  BY DEF DecTypeOK
<1>2. InCheck' = InCheck /\ InCheckSum' = InCheckSum
  BY <1>1
<1>3. InCheck[s] = (IF vote[s] THEN Yes ELSE No)
  BY <1>1 DEF Entries, Undecided, Yes, No
<1>4. s \in Heard
  BY <1>3 DEF Heard, Said
<1>5. Res' = Res
  <2>1. CASE vote[s]
    BY <2>1
  <2>2. CASE ~vote[s]
    BY <1>4, <2>2 DEF VerdictOfHeard, Promise!Verdict
  <2> QED
    BY <1>1, <2>1, <2>2
<1>6. Heard' = Heard /\ Said(Yes)' = Said(Yes)
  BY <1>2 DEF Heard, Said
<1>7. DecTypeOK'
  BY <1>2, <1>5 DEF DecTypeOK
<1>8. Entries'
  BY <1>2, <1>6 DEF Entries
<1>9. SumCounts'
  BY <1>2, <1>6 DEF SumCounts
<1>10. Res' = Promise!Verdict(Data, Heard)
  BY <1>5 DEF VerdictOfHeard
<1>11. VerdictOfHeard'
  BY <1>6, <1>10 DEF VerdictOfHeard, Promise!Verdict, Promise!Needed
<1>12. Heard \cup {s} = Heard
  BY <1>4
<1> QED
  BY <1>6, <1>7, <1>8, <1>9, <1>10, <1>11, <1>12 DEF Promise!Hear, Promise!VoteStep

\* A decision comes that has not been heard.
LEMMA NextDecision ==
  ASSUME DecInv, NEW s \in Deciders, s \in ins, UpdateFromOther(s, vote[s]),
         Undecided(s)
  PROVE  DecInv' /\ Promise!Hear(s)
<1> USE DEF DecInv, UpdateFromOther
<1> DEFINE N == IF Data THEN ins ELSE Deciders
<1>1. /\ vote[s] \in BOOLEAN /\ InCheck \in [Deciders -> CheckValues]
      /\ ins \subseteq Deciders /\ ins # {} /\ vote \in [ins -> BOOLEAN] /\ Data \in BOOLEAN
  BY DEF DecTypeOK
<1>2. InCheck' = [InCheck EXCEPT ![s] = IF vote[s] THEN Yes ELSE No]
  OBVIOUS
<1>3. InCheck[s] # Yes /\ InCheck[s] # No
  BY DEF Undecided, Yes, No, Waiting, Nothing
<1>4. /\ Said(Yes)' = IF vote[s] THEN Said(Yes) \cup {s} ELSE Said(Yes)
      /\ Heard' = Heard \cup {s} /\ s \notin Said(Yes) /\ s \notin Heard
  BY <1>1, <1>2, <1>3 DEF Heard, Said, Yes, No
<1>5. s \in N \ Said(Yes) /\ N \ Said(Yes) \in SUBSET Deciders
  BY <1>1, <1>4
<1>6. InCheckSum = Cardinality(N \ Said(Yes))
  BY DEF SumCounts
<1>7. InCheckSum' = Cardinality(N \ Said(Yes)')
  <2>1. CASE vote[s]
    <3>1. N \ Said(Yes)' = (N \ Said(Yes)) \ {s}
      BY <1>4, <2>1
    <3> QED
      BY <1>5, <1>6, <2>1, <3>1, OneLess
  <2>2. CASE ~vote[s]
    BY <1>4, <1>6, <2>2
  <2> QED
    BY <1>1, <2>1, <2>2
<1>8. N \ Said(Yes)' \in SUBSET Deciders
  BY <1>1
<1>9. InCheckSum' \in 0..ShardCnt /\ (InCheckSum' = 0 <=> N \subseteq Said(Yes)')
  <2> DEFINE M == N \ Said(Yes)'
  <2>1. InCheckSum' = Cardinality(M) /\ M \in SUBSET Deciders
    BY <1>7, <1>8
  <2>2. M = {} <=> N \subseteq Said(Yes)'
    OBVIOUS
  <2> HIDE DEF M, DecInv, UpdateFromOther
  <2>3. Cardinality(M) \in 0..ShardCnt /\ (Cardinality(M) = 0 <=> M = {})
    BY <2>1, Counted
  <2> QED
    BY <2>1, <2>2, <2>3
<1>10. /\ InCheck' \in [Deciders -> CheckValues]
       /\ InCheck'[s] = IF vote[s] THEN Yes ELSE No
       /\ \A t \in Deciders : t # s => InCheck'[t] = InCheck[t]
  BY <1>1, <1>2 DEF CheckValues
<1>11. DecTypeOK'
  BY <1>1, <1>9, <1>10 DEF DecTypeOK
<1>12. Entries'
  BY <1>1, <1>10 DEF Entries, Yes, No
<1>13. SumCounts'
  BY <1>7 DEF SumCounts
<1>14. Res' = Promise!Verdict(Data, Heard \cup {s})
  <2>1. CASE ~vote[s]
    BY <2>1 DEF Promise!Verdict
  <2>2. CASE vote[s] /\ InCheckSum' = 0
    <3>1. Said(Yes)' = Said(Yes) \cup {s} /\ N \subseteq Said(Yes) \cup {s}
      BY <1>4, <1>9, <2>2
    <3>2. \A t \in Heard \cup {s} : vote[t]
      BY <1>1, <2>2, <3>1 DEF Heard, Said, Entries, Yes, No
    <3>3. N \subseteq Heard \cup {s}
      BY <3>1 DEF Heard
    <3> QED
      BY <2>2, <3>2, <3>3 DEF Promise!Verdict, Promise!Needed
  <2>3. CASE vote[s] /\ InCheckSum' # 0
    <3>1. Res' = Res
      BY <2>3
    <3>2. CASE \E t \in Heard : ~vote[t]
      BY <3>1, <3>2 DEF VerdictOfHeard, Promise!Verdict
    <3>3. CASE \A t \in Heard : vote[t]
      <4>1. Heard = Said(Yes)
        BY <3>3 DEF Heard, Said, Entries
      <4>2. ~(N \subseteq Heard \cup {s})
        BY <1>4, <1>9, <2>3, <4>1
      <4>3. ~(N \subseteq Heard)
        BY <4>2
      <4>4. Res = 0
        BY <3>3, <4>3 DEF VerdictOfHeard, Promise!Verdict, Promise!Needed
      <4> QED
        BY <2>3, <3>1, <3>3, <4>2, <4>4 DEF Promise!Verdict, Promise!Needed
    <3> QED
      BY <3>2, <3>3
  <2> QED
    BY <1>1, <2>1, <2>2, <2>3
<1>15. VerdictOfHeard'
  BY <1>4, <1>14 DEF VerdictOfHeard, Promise!Verdict, Promise!Needed
<1> QED
  BY <1>4, <1>11, <1>12, <1>13, <1>14, <1>15 DEF Promise!Hear, Promise!VoteStep

LEMMA DecStep ==
  DecInv /\ [DecNext]_decVars => DecInv' /\ [Promise!VoteNext]_(Promise!voteVars)
<1> SUFFICES ASSUME DecInv, [DecNext]_decVars
             PROVE  DecInv' /\ [Promise!VoteNext]_(Promise!voteVars)
  OBVIOUS
<1>1. CASE New
  BY <1>1, NewStep DEF Promise!VoteNext
<1>2. CASE Update
  BY <1>2, UpdateStep DEF Promise!VoteNext
<1>3. ASSUME NEW s \in Deciders, Decide(s)
      PROVE  DecInv' /\ [Promise!VoteNext]_(Promise!voteVars)
  <2>1. DecInv' /\ Promise!Hear(s)
    BY <1>3, FirstDecision, SameDecision, NextDecision DEF Decide
  <2> QED
    BY <2>1 DEF Promise!VoteNext
<1>4. CASE UNCHANGED decVars
  <2>1. Heard' = Heard /\ Said(Yes)' = Said(Yes)
    BY <1>4 DEF decVars, Heard, Said
  <2>2. DecTypeOK' /\ Entries' /\ SumCounts'
    BY <1>4, <2>1 DEF decVars, DecInv, DecTypeOK, Entries, SumCounts
  <2>3. VerdictOfHeard'
    BY <1>4, <2>1 DEF decVars, DecInv, VerdictOfHeard, Promise!Verdict, Promise!Needed
  <2> QED
    BY <1>4, <2>1, <2>2, <2>3 DEF decVars, DecInv, Promise!voteVars
<1> QED
  BY <1>1, <1>2, <1>3, <1>4 DEF DecNext

THEOREM DecInvariant == DecSpec => []DecInv
BY DecInitial, DecStep, PTL DEF DecSpec

\* The record keeps its types: the count of missing answers stays within the
\* number of shards (Update, UpdateFromOther).
THEOREM DecTypeCorrect == DecSpec => []DecTypeOK
BY DecInvariant, PTL DEF DecInv

\* InCheckSum is the number of shards whose yes is missing: of those of the
\* inputs once the transaction is known, of all before (Update,
\* UpdateFromOther).
THEOREM SumIsMissing == DecSpec => []SumCounts
BY DecInvariant, PTL DEF DecInv

\* The record implements CrossVote: the verdict is that of the decisions
\* heard, in whatever order they and the transaction come.
THEOREM RecordKeepsPromise == DecSpec => DecisionSound
BY DecInitial, DecStep, DecInvariant, PTL DEF DecSpec, DecisionSound, Promise!VoteSpec

----------------------------------------------------------------------------
(***************************************************************************)
(* The cosigners.                                                          *)
(***************************************************************************)

CosInv == CosTypeOK /\ AggrIsEnabled /\ MaskCanonical

\* Every key has a bit: MaskLen rounds up.
LEMMA KeysAreBits == Keys \subseteq Bits
<1> DEFINE L == MaskLen
<1>1. KeyCnt \in Nat \ {0} /\ ByteBits \in Nat \ {0}
  BY KeyAssumption
<1>2. KeyCnt + ByteBits - 1 \in Nat
  BY <1>1
<1>3. L \in Nat /\ L * ByteBits > KeyCnt - 1
  BY <1>1, <1>2 DEF MaskLen
<1> QED
  BY <1>1, <1>3 DEF Keys, Bits

\* What SetMask makes of a consistent pair is consistent, whatever is given.
LEMMA SetMaskKeeps ==
  ASSUME NEW m \in GivenMasks, NEW old \in Masks, NEW sum \in [Keys -> 0..1],
         \A i \in Keys : sum[i] = IF old[i] THEN 0 ELSE 1,
         \A i \in Bits \ Keys : old[i]
  PROVE  LET c == SetMask(m, old, sum) IN
           /\ c.mask \in Masks /\ c.aggr \in [Keys -> 0..1]
           /\ \A i \in Keys : c.aggr[i] = IF c.mask[i] THEN 0 ELSE 1
           /\ \A i \in Bits \ Keys : c.mask[i]
<1> DEFINE off(i) == i \in DOMAIN m /\ m[i]
           c == SetMask(m, old, sum)
<1>1. \A i \in Keys : off(i) \in BOOLEAN
  BY DEF GivenMasks
<1>2. c.mask = [i \in Bits |-> IF i \in Keys THEN off(i) ELSE old[i]]
  BY DEF SetMask
<1>3. c.aggr = [i \in Keys |-> sum[i] + Change(old[i], off(i))]
  BY DEF SetMask
<1>4. ASSUME NEW i \in Keys
      PROVE  /\ i \in Bits /\ old[i] \in BOOLEAN /\ c.mask[i] = off(i)
             /\ c.aggr[i] = IF off(i) THEN 0 ELSE 1
  <2>1. i \in Bits /\ old[i] \in BOOLEAN
    BY KeysAreBits DEF Masks
  <2>2. c.mask[i] = off(i)
    BY <1>2, <2>1
  <2>3. c.aggr[i] = sum[i] + Change(old[i], off(i))
    BY <1>3
  <2> QED
    BY <1>1, <2>1, <2>2, <2>3 DEF Change
<1>5. c.mask \in Masks
  BY <1>1, <1>2 DEF Masks
<1>6. c.aggr \in [Keys -> 0..1]
  BY <1>3, <1>4
<1>7. \A i \in Bits \ Keys : c.mask[i]
  BY <1>2
<1> QED
  BY <1>4, <1>5, <1>6, <1>7

LEMMA CosInitial == CosInit => CosInv
<1> SUFFICES ASSUME CosInit PROVE CosInv
  OBVIOUS
<1>1. PICK m \in GivenMasks : mask = NewCosigners(m).mask /\ aggr = NewCosigners(m).aggr
  BY DEF CosInit
<1>2. AllDisabled \in Masks /\ Zero \in [Keys -> 0..1]
  BY DEF AllDisabled, Masks, Zero
<1>3. /\ \A i \in Keys : Zero[i] = IF AllDisabled[i] THEN 0 ELSE 1
      /\ \A i \in Bits \ Keys : AllDisabled[i]
  BY KeysAreBits DEF AllDisabled, Zero
<1> QED
  BY <1>1, <1>2, <1>3, SetMaskKeeps
  DEF NewCosigners, CosInv, CosTypeOK, AggrIsEnabled, Enabled, MaskCanonical

LEMMA CosStep == CosInv /\ [CosNext]_cosVars => CosInv'
<1> SUFFICES ASSUME CosInv, [CosNext]_cosVars PROVE CosInv'
  OBVIOUS
<1> USE DEF CosInv, CosTypeOK, AggrIsEnabled, Enabled, MaskCanonical
<1>1. ASSUME NEW m \in GivenMasks, Become(SetMask(m, mask, aggr))
      PROVE  CosInv'
  BY <1>1, SetMaskKeeps DEF Become
<1>2. ASSUME NEW i \in Keys, NEW off \in BOOLEAN, SetMaskBit(i, off)
      PROVE  CosInv'
  <2>1. i \in Bits /\ mask[i] \in BOOLEAN
    BY KeysAreBits DEF Masks
  <2>2. aggr[i] + Change(mask[i], off) = IF off THEN 0 ELSE 1
    BY <2>1 DEF Change
  <2>3. mask' \in Masks /\ \A j \in Bits : mask'[j] = IF j = i THEN off ELSE mask[j]
    BY <1>2, <2>1 DEF SetMaskBit, Masks
  <2>4. /\ aggr' \in [Keys -> 0..1]
        /\ \A j \in Keys : aggr'[j] = IF j = i THEN (IF off THEN 0 ELSE 1) ELSE aggr[j]
    BY <1>2, <2>2 DEF SetMaskBit
  <2> QED
    BY <2>3, <2>4, KeysAreBits
<1>3. CASE UNCHANGED cosVars
  BY <1>3 DEF cosVars
<1> QED
  BY <1>1, <1>2, <1>3 DEF CosNext, Replace

THEOREM CosInvariant == CosSpec => []CosInv
BY CosInitial, CosStep, PTL DEF CosSpec

\* The mask and the sum keep their types: no key is ever in the sum twice or
\* a negative number of times.
THEOREM CosTypeCorrect == CosSpec => []CosTypeOK
BY CosInvariant, PTL DEF CosInv

\* The sum of the keys, kept up to date through any masks and bits, is the sum
\* of the keys of the cosigners that take part (SetMask, SetMaskBit).
THEOREM SumOfEnabled == CosSpec => []AggrIsEnabled
BY CosInvariant, PTL DEF CosInv

\* The bits that belong to no key stay disabled (NewCosigners, SetMask).
THEOREM MasksCanonical == CosSpec => []MaskCanonical
BY CosInvariant, PTL DEF CosInv

----------------------------------------------------------------------------
(***************************************************************************)
(* The reputation chain.                                                   *)
(***************************************************************************)

\* What the iterator is asked for.
Asked == Hashes \cup {<< >>}

\* How far down a hash is: the blocks a block is on come before it.
Depth(h) ==
  IF h \in RepHashes THEN h.no + 1
  ELSE IF h \in SyncHashes THEN LastBlock + 2 ELSE 0

Descending(b) ==
  /\ DOMAIN b \subseteq Hashes
  /\ \A h \in DOMAIN b :
       ~b[h].StartBlock => b[h].Prev \in Asked /\ Depth(b[h].Prev) < Depth(h)

\* The equation of NextToStart for the blocks b.
Walk(b, f, h) ==
  IF h \notin DOMAIN b THEN <<h, "missing">>
  ELSE IF b[h].StartBlock THEN <<h>>
  ELSE <<h>> \o f[b[h].Prev]

Walks(b, f) == f = [h \in Asked |-> Walk(b, f, h)]

WalkOf(b) == CHOOSE f : Walks(b, f)

LEMMA NextToStartIsWalk == NextToStart = WalkOf(bucket) /\ NextToStart' = WalkOf(bucket')
BY DEF NextToStart, WalkOf, Walks, Walk, Asked, Hashes, RepHashes, SyncHashes, RepHash, SyncHash

LEMMA HashKinds ==
  /\ \A h \in RepHashes : h.no \in 0..LastBlock /\ h = RepHash(h.no) /\ h \notin SyncHashes
                          /\ h.kind = "rep"
  /\ \A h \in SyncHashes : h = SyncHash(h.shard, h.epoch) /\ h \notin RepHashes
                           /\ h.shard \in Chains /\ h.epoch \in 0..LastEpoch
  /\ << >> \notin Hashes
BY DEF RepHashes, SyncHashes, RepHash, SyncHash, Hashes

LEMMA RankType ==
  \A h : Depth(h) \in 0..(LastBlock + 2)
BY ChainAssumption, HashKinds DEF Depth

\* The equation for the hashes of a rank below n.
WalksBelow(b, f, n) ==
  /\ f = [h \in Asked |-> f[h]]
  /\ \A h \in Asked : Depth(h) < n => f[h] = Walk(b, f, h)

LEMMA WalksBelowAny ==
  ASSUME NEW b, Descending(b), NEW n \in Nat
  PROVE  \E f : WalksBelow(b, f, n)
<1> DEFINE T == {k \in Nat : \E f : WalksBelow(b, f, k)}
<1>1. 0 \in T
  <2> DEFINE f == [h \in Asked |-> << >>]
  <2>1. WalksBelow(b, f, 0)
    BY RankType, ChainAssumption DEF WalksBelow
  <2> HIDE DEF f
  <2> QED
    BY <2>1
<1>2. ASSUME NEW k \in T PROVE k + 1 \in T
  <2>1. PICK f : WalksBelow(b, f, k)
    OBVIOUS
  <2> DEFINE g == [h \in Asked |-> Walk(b, f, h)]
  <2>2. g = [h \in Asked |-> g[h]]
    OBVIOUS
  <2>3. ASSUME NEW h \in Asked, Depth(h) < k PROVE g[h] = f[h]
    BY <2>1, <2>3 DEF WalksBelow
  <2>4. ASSUME NEW h \in Asked, Depth(h) < k + 1 PROVE g[h] = Walk(b, g, h)
    <3>1. CASE h \in DOMAIN b /\ ~b[h].StartBlock
      <4>1. b[h].Prev \in Asked /\ Depth(b[h].Prev) < Depth(h)
        BY <3>1 DEF Descending
      <4>2. Depth(b[h].Prev) < k
        BY <2>4, <4>1, RankType, ChainAssumption
      <4>3. g[b[h].Prev] = f[b[h].Prev]
        BY <2>3, <4>1, <4>2
      <4> HIDE DEF g
      <4>4. Walk(b, g, h) = Walk(b, f, h)
        BY <4>3 DEF Walk
      <4> QED
        BY <4>4 DEF g
    <3>2. CASE ~(h \in DOMAIN b /\ ~b[h].StartBlock)
      BY <3>2 DEF Walk
    <3> QED
      BY <3>1, <3>2
  <2>5. WalksBelow(b, g, k + 1)
    <3> HIDE DEF g
    <3> QED
      BY <2>2, <2>4 DEF WalksBelow
  <2>6. \E f1 : WalksBelow(b, f1, k + 1)
    <3> HIDE DEF g
    <3> QED
      BY <2>5
  <2>7. k + 1 \in Nat
    OBVIOUS
  <2> QED
    BY <2>6, <2>7, Zenon
<1>3. T = Nat
  <2>1. T \in SUBSET Nat
    OBVIOUS
  <2> HIDE DEF T
  <2> QED BY <1>1, <1>2, <2>1, NumbersByInduction
<1> QED
  BY <1>3

\* The iterator gives what its steps say.
LEMMA WalkOfIs ==
  ASSUME NEW b, Descending(b)
  PROVE  \A h \in Asked : WalkOf(b)[h] = Walk(b, WalkOf(b), h)
<1> DEFINE n == LastBlock + 3
<1>1. n \in Nat /\ \A h : Depth(h) < n
  BY RankType, ChainAssumption
<1>2. PICK f : WalksBelow(b, f, n)
  <2> HIDE DEF n
  <2> QED BY <1>1, WalksBelowAny
<1>3. \A h \in Asked : f[h] = Walk(b, f, h)
  <2> HIDE DEF n
  <2> QED BY <1>1, <1>2 DEF WalksBelow
<1>4. Walks(b, f)
  BY <1>2, <1>3 DEF WalksBelow, Walks
<1>5. Walks(b, WalkOf(b))
  BY <1>4 DEF WalkOf
<1> QED
  BY <1>5 DEF Walks

\* Where two sets of blocks agree, and lead nowhere else, so do the walks.
LEMMA SameWalks ==
  ASSUME NEW b, Descending(b), NEW c, Descending(c), NEW R \in SUBSET Asked,
         \A h \in R : /\ h \in DOMAIN b /\ h \in DOMAIN c /\ b[h] = c[h]
                      /\ ~b[h].StartBlock => b[h].Prev \in R
  PROVE  \A h \in R : WalkOf(b)[h] = WalkOf(c)[h]
<1> DEFINE T == {n \in Nat : \A h \in R : Depth(h) < n => WalkOf(b)[h] = WalkOf(c)[h]}
<1>1. 0 \in T
  BY RankType, ChainAssumption
<1>2. ASSUME NEW n \in T PROVE n + 1 \in T
  <2>1. ASSUME NEW h \in R, Depth(h) < n + 1
        PROVE  WalkOf(b)[h] = WalkOf(c)[h]
    <3>1. /\ WalkOf(b)[h] = Walk(b, WalkOf(b), h)
          /\ WalkOf(c)[h] = Walk(c, WalkOf(c), h)
      BY WalkOfIs
    <3>2. CASE b[h].StartBlock
      BY <3>1, <3>2 DEF Walk
    <3>3. CASE ~b[h].StartBlock
      <4>1. Depth(b[h].Prev) < Depth(h) /\ b[h].Prev \in R
        BY <3>3 DEF Descending
      <4>2. Depth(b[h].Prev) < n
        BY <2>1, <4>1, RankType, ChainAssumption
      <4>3. WalkOf(b)[b[h].Prev] = WalkOf(c)[b[h].Prev]
        BY <4>1, <4>2
      <4> QED
        BY <3>1, <3>3, <4>3 DEF Walk
    <3> QED
      BY <3>2, <3>3
  <2> QED
    BY <2>1
<1>3. T = Nat
  <2>1. T \in SUBSET Nat
    OBVIOUS
  <2> HIDE DEF T
  <2> QED BY <1>1, <1>2, <2>1, NumbersByInduction
<1>4. LastBlock + 3 \in T /\ \A h : Depth(h) < LastBlock + 3
  BY <1>3, RankType, ChainAssumption
<1> QED
  BY <1>4

----------------------------------------------------------------------------
(* The invariant of the reputation chain.                                  *)

RepsOf(b) == DOMAIN b \cap RepHashes

\* Every reputation block starts an epoch or is on an older one that is here,
\* and a sync block is on a reputation block or came from another shard.
LinkedIn(b) ==
  /\ DOMAIN b \subseteq Hashes
  /\ \A h \in RepsOf(b) :
       ~b[h].StartBlock => b[h].Prev \in RepsOf(b) /\ b[h].Prev.no < h.no
  /\ \A h \in DOMAIN b \cap SyncHashes :
       ~b[h].StartBlock /\ b[h].Prev \in RepsOf(b) \cup {<< >>}

\* The block that is mined is newer than all that are kept.
CurrentIsNew ==
  /\ current = Block(current.Hash, current.StartBlock, current.Prev, current.syncs)
  /\ current.StartBlock \in BOOLEAN /\ current.Prev \in Asked
  /\ \A h \in RepsOf(bucket) :
       IF sealed THEN h.no <= current.Hash.no ELSE h.no < current.Hash.no
  /\ sealed => current.Hash = lb
  /\ ~sealed => /\ stage = "rep" /\ ~StartFlag
                /\ current.StartBlock <=> signed.epoch # epoch
                /\ ~current.StartBlock => current.Prev = lb

\* The iterator gives from the last reputation block what was signed.
SignedIsRead ==
  /\ lb \in RepsOf(bucket)
  /\ signed = [epoch |-> signed.epoch, hashes |-> signed.hashes]
  /\ signed.epoch \in -1..epoch /\ signed.hashes \in Seq(RepHashes)
  /\ WalkOf(bucket)[lb] = signed.hashes
  /\ sealed => (StartFlag <=> signed.epoch # epoch)
  /\ \/ Tip = lb
     \/ /\ Tip \in DOMAIN bucket \cap SyncHashes /\ Tip.shard = MyChain
        /\ bucket[Tip].Prev = lb

LastSyncs(e) == IF e = 0 THEN FirstHashes ELSE [k \in Chains |-> SyncHash(k, e - 1)]

\* PreviousSyncBlockHash is what the next block is to name.
SyncsKept ==
  /\ stage = "rep" => PreviousSyncBlockHash = LastSyncs(epoch)
  /\ stage = "sync" =>
       /\ DOMAIN PreviousSyncBlockHash = Chains
       /\ \A k \in Chains : PreviousSyncBlockHash[k] \in {<< >>, SyncHash(k, epoch)}

ChainInv ==
  /\ ChainTypeOK /\ LinkedIn(bucket) /\ CurrentIsNew /\ SignedIsRead
  /\ SyncsKept /\ SyncLinks

LEMMA LinkedDescends ==
  ASSUME NEW b, LinkedIn(b)
  PROVE  Descending(b)
<1> SUFFICES ASSUME NEW h \in DOMAIN b, ~b[h].StartBlock
             PROVE  b[h].Prev \in Asked /\ Depth(b[h].Prev) < Depth(h)
  BY DEF Descending, LinkedIn
<1>1. h \in Hashes
  BY DEF LinkedIn
<1>2. CASE h \in RepHashes
  <2>1. b[h].Prev \in RepHashes /\ b[h].Prev.no < h.no
    BY <1>2 DEF LinkedIn, RepsOf
  <2> QED
    BY <1>2, <2>1, HashKinds, ChainAssumption DEF Depth, Asked, Hashes
<1>3. CASE h \in SyncHashes
  <2>1. b[h].Prev \in RepHashes \cup {<< >>}
    BY <1>3 DEF LinkedIn, RepsOf
  <2>2. Depth(h) = LastBlock + 2
    BY <1>3, HashKinds DEF Depth
  <2>3. Depth(b[h].Prev) <= LastBlock + 1
    <3>1. CASE b[h].Prev \in RepHashes
      BY <3>1, HashKinds, ChainAssumption DEF Depth
    <3>2. CASE b[h].Prev = << >>
      <4>1. Depth(<< >>) = 0
        BY HashKinds DEF Depth, Hashes
      <4> QED
        BY <3>2, <4>1, ChainAssumption
    <3> QED
      BY <2>1, <3>1, <3>2
  <2> QED
    BY <2>1, <2>2, <2>3, RankType, ChainAssumption DEF Asked, Hashes
<1> QED
  BY <1>1, <1>2, <1>3 DEF Hashes

LEMMA EpochIsRead == ChainInv => EpochReadable
<1> SUFFICES ASSUME ChainInv PROVE EpochReadable
  OBVIOUS
<1>1. NextToStart = WalkOf(bucket) /\ Descending(bucket)
  BY NextToStartIsWalk, LinkedDescends DEF ChainInv
<1>2. WalkOf(bucket)[lb] = signed.hashes /\ lb \in RepHashes /\ signed.hashes \in Seq(RepHashes)
  BY DEF ChainInv, SignedIsRead, RepsOf
<1>3. CASE Tip = lb
  <2>1. Tip \notin SyncHashes
    BY <1>2, <1>3, HashKinds
  <2>2. << >> \o signed.hashes = signed.hashes
    BY <1>2
  <2> QED
    BY <1>1, <1>2, <1>3, <2>1, <2>2 DEF EpochReadable
<1>4. CASE Tip # lb
  <2>1. /\ Tip \in DOMAIN bucket /\ Tip \in SyncHashes /\ bucket[Tip].Prev = lb
        /\ ~bucket[Tip].StartBlock
    BY <1>4 DEF ChainInv, SignedIsRead, LinkedIn
  <2>2. WalkOf(bucket)[Tip] = <<Tip>> \o WalkOf(bucket)[lb]
    <3>1. Tip \in Asked
      BY <2>1 DEF Asked, Hashes
    <3>2. WalkOf(bucket)[Tip] = Walk(bucket, WalkOf(bucket), Tip)
      BY <1>1, <3>1, WalkOfIs
    <3> QED
      BY <2>1, <3>2 DEF Walk
  <2> QED
    BY <1>1, <1>2, <2>1, <2>2 DEF EpochReadable
<1> QED
  BY <1>3, <1>4

LEMMA ChainInitial == ChainInit => ChainInv
<1> SUFFICES ASSUME ChainInit PROVE ChainInv
  OBVIOUS
<1>1. Magic \in RepHashes /\ Magic.no = 0 /\ Magic = RepHash(0)
  BY ChainAssumption DEF RepHashes, RepHash, Magic
<1>2. /\ DOMAIN bucket = {Magic} /\ bucket[Magic] = NewGenesisRepBlock
      /\ lb = Magic /\ Tip = Magic /\ current = NewGenesisRepBlock /\ sealed = TRUE
      /\ StartFlag = TRUE /\ PreviousSyncBlockHash = FirstHashes
      /\ epoch = 0 /\ stage = "rep" /\ signed = [epoch |-> -1, hashes |-> <<Magic>>]
  <2>1. bucket = [x \in DOMAIN << >> \cup {Magic} |->
                    IF x = Magic THEN NewGenesisRepBlock ELSE << >>[x]]
    BY DEF ChainInit, Stored, NewGenesisRepBlock, Block
  <2>2. DOMAIN << >> \cup {Magic} = {Magic}
    OBVIOUS
  <2> QED
    BY <2>1, <2>2 DEF ChainInit
<1>3. /\ NewGenesisRepBlock.Hash = Magic /\ NewGenesisRepBlock.StartBlock = TRUE
      /\ NewGenesisRepBlock.Prev = Magic /\ NewGenesisRepBlock.syncs = FirstHashes
      /\ NewGenesisRepBlock = Block(Magic, TRUE, Magic, FirstHashes)
  BY DEF NewGenesisRepBlock, Block
<1>4. ChainTypeOK
  <2>1. /\ DOMAIN bucket \subseteq Hashes /\ Tip \in Hashes /\ lb \in RepHashes
        /\ current.Hash \in RepHashes
    BY <1>1, <1>2, <1>3 DEF Hashes
  <2>2. \A h \in DOMAIN bucket :
          /\ bucket[h].Hash = h
          /\ bucket[h].StartBlock \in BOOLEAN /\ bucket[h].Prev \in Hashes \cup {<< >>}
    BY <1>1, <1>2, <1>3 DEF Hashes
  <2>3. /\ sealed \in BOOLEAN /\ StartFlag \in BOOLEAN /\ epoch \in 0..LastEpoch
        /\ stage \in {"rep", "sync"}
        /\ PreviousSyncBlockHash \in {FirstHashes} \cup [Chains -> Hash32]
    BY <1>2, ChainAssumption
  <2> QED
    BY <2>1, <2>2, <2>3 DEF ChainTypeOK
<1>5. LinkedIn(bucket) /\ RepsOf(bucket) = {Magic}
  BY <1>1, <1>2, <1>3, HashKinds DEF LinkedIn, RepsOf, Hashes
<1>6. CurrentIsNew
  <2>1. sealed /\ current.Hash = Magic /\ current.StartBlock \in BOOLEAN /\ current.Hash = lb
        /\ current.Prev \in Asked
        /\ current = Block(current.Hash, current.StartBlock, current.Prev, current.syncs)
    BY <1>1, <1>2, <1>3 DEF Asked, Hashes
  <2>2. \A h \in RepsOf(bucket) : h.no <= current.Hash.no
    BY <1>1, <1>5, <2>1
  <2> QED
    BY <2>1, <2>2 DEF CurrentIsNew
<1>7. SignedIsRead
  <2>1. WalkOf(bucket)[Magic] = <<Magic>>
    <3>1. WalkOf(bucket)[Magic] = Walk(bucket, WalkOf(bucket), Magic)
      BY <1>1, <1>5, LinkedDescends, WalkOfIs DEF Asked, Hashes
    <3> QED
      BY <1>2, <1>3, <3>1 DEF Walk
  <2>2. <<Magic>> \in Seq(RepHashes)
    BY <1>1
  <2>3. signed.epoch = -1 /\ signed.hashes = <<Magic>> /\ -1 \in -1..0
    BY <1>2
  <2> QED
    BY <1>2, <1>5, <2>1, <2>2, <2>3 DEF SignedIsRead
<1>8. SyncsKept /\ SyncLinks
  <2>1. \A e \in 0..LastEpoch : SyncHash(MyChain, e) \notin DOMAIN bucket
    BY <1>1, <1>2, ChainAssumption, HashKinds DEF SyncHashes
  <2> QED
    BY <1>2, <1>3, <2>1 DEF SyncsKept, SyncLinks, LastSyncs
<1> QED
  BY <1>4, <1>5, <1>6, <1>7, <1>8 DEF ChainInv

----------------------------------------------------------------------------
(* The steps of the reputation chain.                                      *)

\* What is so of the blocks d that are b and, on top of last, c.
OnTop(b, last, c, d) ==
  /\ LinkedIn(d) /\ RepsOf(d) = RepsOf(b) \cup {c.Hash}
  /\ DOMAIN d = DOMAIN b \cup {c.Hash} /\ d[c.Hash] = c
  /\ \A h \in DOMAIN b : d[h] = b[h]
  /\ c.StartBlock => WalkOf(d)[c.Hash] = <<c.Hash>>
  /\ ~c.StartBlock => WalkOf(d)[c.Hash] = <<c.Hash>> \o WalkOf(b)[last]

\* A reputation block that is newer than all of them is stored.
LEMMA StoreRep ==
  ASSUME NEW b, LinkedIn(b), NEW c, c.Hash \in RepHashes,
         \A h \in RepsOf(b) : h.no < c.Hash.no,
         NEW last \in RepsOf(b),
         c.StartBlock \in BOOLEAN, ~c.StartBlock => c.Prev = last,
         NEW d, d = Stored(b, c)
  PROVE  OnTop(b, last, c, d)
<1>1. c.Hash \notin DOMAIN b
  <2>1. c.Hash \notin RepsOf(b)
    BY HashKinds
  <2> QED
    BY <2>1 DEF RepsOf
<1>2. /\ DOMAIN d = DOMAIN b \cup {c.Hash} /\ d[c.Hash] = c
      /\ \A h \in DOMAIN b : d[h] = b[h]
  BY <1>1 DEF Stored
<1>3. RepsOf(d) = RepsOf(b) \cup {c.Hash}
  BY <1>2 DEF RepsOf
<1>4. LinkedIn(d)
  <2>1. DOMAIN d \subseteq Hashes
    BY <1>2 DEF LinkedIn, Hashes
  <2>2. \A h \in RepsOf(d) : ~d[h].StartBlock => d[h].Prev \in RepsOf(d) /\ d[h].Prev.no < h.no
    BY <1>2, <1>3 DEF LinkedIn, RepsOf
  <2>3. \A h \in DOMAIN d \cap SyncHashes :
          ~d[h].StartBlock /\ d[h].Prev \in RepsOf(d) \cup {<< >>}
    BY <1>2, <1>3, HashKinds DEF LinkedIn
  <2> QED
    BY <2>1, <2>2, <2>3 DEF LinkedIn
<1>5. Descending(b) /\ Descending(d)
  BY <1>4, LinkedDescends
<1>6. WalkOf(b)[last] = WalkOf(d)[last]
  <2>1. RepsOf(b) \in SUBSET Asked
    BY DEF RepsOf, Asked, Hashes
  <2>2. \A h \in RepsOf(b) : /\ h \in DOMAIN b /\ h \in DOMAIN d /\ b[h] = d[h]
                             /\ ~b[h].StartBlock => b[h].Prev \in RepsOf(b)
    BY <1>2 DEF RepsOf, LinkedIn
  <2> QED
    BY <1>5, <2>1, <2>2, SameWalks
<1>7. WalkOf(d)[c.Hash] = Walk(d, WalkOf(d), c.Hash)
  <2>1. c.Hash \in Asked
    BY DEF Asked, Hashes
  <2> QED
    BY <1>5, <2>1, WalkOfIs
<1>8. /\ c.StartBlock => WalkOf(d)[c.Hash] = <<c.Hash>>
      /\ ~c.StartBlock => WalkOf(d)[c.Hash] = <<c.Hash>> \o WalkOf(b)[last]
  BY <1>2, <1>6, <1>7 DEF Walk
<1> QED
  BY <1>2, <1>3, <1>4, <1>8 DEF OnTop

\* What is so of the blocks d that are b and the sync block c.
Beside(b, c, d) ==
  /\ LinkedIn(d) /\ RepsOf(d) = RepsOf(b)
  /\ DOMAIN d = DOMAIN b \cup {c.Hash} /\ d[c.Hash] = c
  /\ \A h \in DOMAIN b \ {c.Hash} : d[h] = b[h]
  /\ \A h \in RepsOf(b) : WalkOf(d)[h] = WalkOf(b)[h]

\* A sync block is stored: what is read from a reputation block is the same.
LEMMA StoreSync ==
  ASSUME NEW b, LinkedIn(b), NEW c, c.Hash \in SyncHashes, c.StartBlock = FALSE,
         c.Prev \in RepsOf(b) \cup {<< >>}, NEW d, d = Stored(b, c)
  PROVE  Beside(b, c, d)
<1>1. c.Hash \notin RepHashes
  BY HashKinds
<1>2. /\ DOMAIN d = DOMAIN b \cup {c.Hash} /\ d[c.Hash] = c
      /\ \A h \in DOMAIN b \ {c.Hash} : d[h] = b[h]
  BY DEF Stored
<1>3. RepsOf(d) = RepsOf(b) /\ \A h \in RepsOf(b) : d[h] = b[h]
  BY <1>1, <1>2 DEF RepsOf
<1>4. LinkedIn(d)
  <2>1. DOMAIN d \subseteq Hashes
    BY <1>2 DEF LinkedIn, Hashes
  <2>2. \A h \in RepsOf(d) : ~d[h].StartBlock => d[h].Prev \in RepsOf(d) /\ d[h].Prev.no < h.no
    BY <1>3 DEF LinkedIn
  <2>3. \A h \in DOMAIN d \cap SyncHashes :
          ~d[h].StartBlock /\ d[h].Prev \in RepsOf(d) \cup {<< >>}
    BY <1>2, <1>3 DEF LinkedIn
  <2> QED
    BY <2>1, <2>2, <2>3 DEF LinkedIn
<1>5. \A h \in RepsOf(b) : WalkOf(b)[h] = WalkOf(d)[h]
  <2>1. RepsOf(b) \in SUBSET Asked
    BY DEF RepsOf, Asked, Hashes
  <2>2. \A h \in RepsOf(b) : /\ h \in DOMAIN b /\ h \in DOMAIN d /\ b[h] = d[h]
                             /\ ~b[h].StartBlock => b[h].Prev \in RepsOf(b)
    BY <1>2, <1>3 DEF RepsOf, LinkedIn
  <2>3. Descending(b) /\ Descending(d)
    BY <1>4, LinkedDescends
  <2> QED
    BY <2>1, <2>2, <2>3, SameWalks
<1> QED
  BY <1>2, <1>3, <1>4, <1>5 DEF Beside

\* What MineRepBlock leaves alone.
LEMMA MineStep ==
  ASSUME ChainInv, MineRepBlock(Fresh), Fresh <= LastBlock
  PROVE  ChainInv'
<1>1. /\ stage = "rep" /\ sealed /\ sealed' = FALSE /\ StartFlag' = FALSE
      /\ current' = NewRepBlock(Fresh, StartFlag, current.Hash)
      /\ bucket' = bucket /\ lb' = lb /\ Tip' = Tip /\ epoch' = epoch /\ stage' = stage
      /\ PreviousSyncBlockHash' = PreviousSyncBlockHash /\ signed' = signed
  BY DEF MineRepBlock
<1>2. /\ current.Hash \in RepHashes /\ current.Hash = lb
      /\ current.Hash.no \in 0..LastBlock /\ Fresh = current.Hash.no + 1
      /\ lb \in RepsOf(bucket)
  BY <1>1, HashKinds DEF ChainInv, ChainTypeOK, CurrentIsNew, SignedIsRead, Fresh
<1>3. Fresh \in 0..LastBlock /\ RepHash(Fresh) \in RepHashes /\ RepHash(Fresh).no = Fresh
  BY <1>2, ChainAssumption DEF RepHashes, RepHash
<1>4. /\ current'.Hash = RepHash(Fresh)
      /\ current'.StartBlock \in BOOLEAN
      /\ current'.StartBlock <=> StartFlag
      /\ ~current'.StartBlock => current'.Prev = lb
      /\ current'.Prev \in Asked
      /\ current'.StartBlock => current'.syncs = PreviousSyncBlockHash
      /\ current' = Block(current'.Hash, current'.StartBlock, current'.Prev, current'.syncs)
  <2>1. CASE StartFlag
    <3>1. current' = Block(RepHash(Fresh), TRUE, Magic, PreviousSyncBlockHash)
      BY <1>1, <2>1 DEF NewRepBlock
    <3>2. Magic \in Asked
      BY ChainAssumption DEF Asked, Hashes, RepHashes, RepHash, Magic
    <3> QED
      BY <2>1, <3>1, <3>2 DEF Block
  <2>2. CASE ~StartFlag
    BY <1>1, <1>2, <2>2 DEF NewRepBlock, Block, Asked, Hashes
  <2> QED
    BY <2>1, <2>2
<1>5. ChainTypeOK' /\ LinkedIn(bucket)'
  BY <1>1, <1>3, <1>4 DEF ChainInv, ChainTypeOK, LinkedIn, RepsOf
<1>6. CurrentIsNew'
  <2>1. StartFlag <=> signed.epoch # epoch
    BY <1>1 DEF ChainInv, SignedIsRead
  <2>2. \A h \in RepsOf(bucket) : h.no < RepHash(Fresh).no
    BY <1>1, <1>2, <1>3, HashKinds DEF ChainInv, CurrentIsNew, RepsOf
  <2>3. RepsOf(bucket)' = RepsOf(bucket)
    BY <1>1 DEF RepsOf
  <2> QED
    BY <1>1, <1>4, <2>1, <2>2, <2>3 DEF CurrentIsNew
<1>7. SignedIsRead'
  BY <1>1 DEF ChainInv, SignedIsRead, RepsOf, WalkOf, Walks, Walk
<1>8. SyncsKept'
  BY <1>1 DEF ChainInv, SyncsKept
<1>9. SyncLinks'
  BY <1>1, <1>4 DEF ChainInv, SyncsKept, SyncLinks, LastSyncs
<1> QED
  BY <1>5, <1>6, <1>7, <1>8, <1>9 DEF ChainInv

\* A block is signed, the node's own or the one of another miner: c is it.
LEMMA SealStep ==
  ASSUME ChainInv, ~sealed, sealed' = TRUE, NEW c,
         c = Block(c.Hash, current.StartBlock, current.Prev, current.syncs),
         c.Hash \in RepHashes, c.Hash.no >= current.Hash.no, current' = c,
         bucket' = Stored(bucket, c), lb' = c.Hash, Tip' = c.Hash,
         signed' = Signed(c.Hash),
         UNCHANGED <<StartFlag, PreviousSyncBlockHash, epoch, stage>>
  PROVE  ChainInv'
<1>1. /\ c.StartBlock = current.StartBlock /\ c.Prev = current.Prev /\ c.syncs = current.syncs
  BY DEF Block
<1>2. /\ current.StartBlock \in BOOLEAN /\ stage = "rep" /\ ~StartFlag
      /\ current.StartBlock <=> signed.epoch # epoch
      /\ ~current.StartBlock => current.Prev = lb
      /\ \A h \in RepsOf(bucket) : h.no < current.Hash.no
      /\ current.Hash.no \in 0..LastBlock /\ c.Hash.no \in 0..LastBlock
  BY HashKinds DEF ChainInv, CurrentIsNew, ChainTypeOK
<1>3. /\ LinkedIn(bucket) /\ lb \in RepsOf(bucket) /\ WalkOf(bucket)[lb] = signed.hashes
      /\ signed.hashes \in Seq(RepHashes) /\ signed.epoch \in -1..epoch
      /\ epoch \in Nat
  BY ChainAssumption DEF ChainInv, SignedIsRead, ChainTypeOK
<1>4. \A h \in RepsOf(bucket) : h.no < c.Hash.no
  BY <1>2, HashKinds DEF RepsOf
<1>5. /\ LinkedIn(bucket') /\ RepsOf(bucket') = RepsOf(bucket) \cup {c.Hash}
      /\ DOMAIN bucket' = DOMAIN bucket \cup {c.Hash} /\ bucket'[c.Hash] = c
      /\ \A h \in DOMAIN bucket : bucket'[h] = bucket[h]
      /\ c.StartBlock => WalkOf(bucket')[c.Hash] = <<c.Hash>>
      /\ ~c.StartBlock => WalkOf(bucket')[c.Hash] = <<c.Hash>> \o WalkOf(bucket)[lb]
  <2>1. c.StartBlock \in BOOLEAN /\ (~c.StartBlock => c.Prev = lb)
    BY <1>1, <1>2
  <2>2. OnTop(bucket, lb, c, bucket')
    BY <1>3, <1>4, <2>1, StoreRep
  <2> QED
    BY <2>2 DEF OnTop
<1>6. ChainTypeOK'
  <2>1. c.Prev \in Hashes \cup {<< >>} /\ c.Hash \in Hashes
    BY <1>1 DEF ChainInv, CurrentIsNew, Asked, Hashes
  <2>2. DOMAIN bucket' \subseteq Hashes
    BY <1>5 DEF LinkedIn
  <2>3. \A h \in DOMAIN bucket' :
          /\ bucket'[h].Hash = h
          /\ bucket'[h].StartBlock \in BOOLEAN /\ bucket'[h].Prev \in Hashes \cup {<< >>}
    BY <1>1, <1>2, <1>5, <2>1 DEF ChainInv, ChainTypeOK
  <2> QED
    BY <2>1, <2>2, <2>3 DEF ChainInv, ChainTypeOK
<1>7. CurrentIsNew'
  <2>1. \A h \in RepsOf(bucket') : h.no <= c.Hash.no
    BY <1>2, <1>4, <1>5, HashKinds DEF RepsOf
  <2>2. current.Prev \in Asked
    BY DEF ChainInv, CurrentIsNew
  <2> QED
    BY <1>1, <1>2, <2>1, <2>2 DEF CurrentIsNew
<1>8. SignedIsRead'
  <2>1. /\ signed' = [epoch |-> epoch, hashes |-> signed'.hashes]
        /\ signed'.epoch = epoch /\ signed'.hashes \in Seq(RepHashes)
        /\ WalkOf(bucket')[c.Hash] = signed'.hashes
    <3>1. CASE signed.epoch = epoch
      <4>1. signed' = [epoch |-> epoch, hashes |-> <<c.Hash>> \o signed.hashes]
        BY <3>1 DEF Signed
      <4>2. WalkOf(bucket')[c.Hash] = <<c.Hash>> \o signed.hashes
        BY <1>1, <1>2, <1>3, <1>5, <3>1
      <4> QED
        BY <1>3, <4>1, <4>2
    <3>2. CASE signed.epoch # epoch
      <4>1. signed' = [epoch |-> epoch, hashes |-> <<c.Hash>>]
        BY <3>2 DEF Signed
      <4>2. WalkOf(bucket')[c.Hash] = <<c.Hash>>
        BY <1>1, <1>2, <1>5, <3>2
      <4> QED
        BY <4>1, <4>2
    <3> QED
      BY <3>1, <3>2
  <2>2. signed'.epoch \in -1..epoch /\ ~StartFlag'
    BY <1>2, <1>3, <2>1
  <2>3. lb' \in RepsOf(bucket')
    BY <1>5
  <2> QED
    BY <2>1, <2>2, <2>3 DEF SignedIsRead
<1>9. SyncsKept'
  BY DEF ChainInv, SyncsKept
<1>10. SyncLinks'
  <2>1. \A e \in 0..LastEpoch :
          SyncHash(MyChain, e) # c.Hash /\ (SyncHash(MyChain, e) \in DOMAIN bucket'
                                              => SyncHash(MyChain, e) \in DOMAIN bucket)
    BY <1>5, HashKinds, ChainAssumption DEF SyncHashes
  <2> QED
    BY <1>1, <1>5, <2>1 DEF ChainInv, SyncLinks
<1> QED
  BY <1>5, <1>6, <1>7, <1>8, <1>9, <1>10 DEF ChainInv

LEMMA AddRepSigStep ==
  ASSUME ChainInv, AddRepSig
  PROVE  ChainInv'
<1>1. current = Block(current.Hash, current.StartBlock, current.Prev, current.syncs)
      /\ current.Hash \in RepHashes /\ current.Hash.no >= current.Hash.no
  BY HashKinds DEF ChainInv, CurrentIsNew, ChainTypeOK
<1>2. /\ ~sealed /\ sealed' = TRUE /\ bucket' = Stored(bucket, current)
      /\ current' = current /\ lb' = current.Hash /\ Tip' = current.Hash
      /\ signed' = Signed(current.Hash)
      /\ UNCHANGED <<StartFlag, PreviousSyncBlockHash, epoch, stage>>
  BY DEF AddRepSig
<1> QED
  BY <1>1, <1>2, SealStep

LEMMA AddRepBlockFromOthersStep ==
  ASSUME ChainInv, AddRepBlockFromOthers(Fresh), Fresh <= LastBlock
  PROVE  ChainInv'
<1> DEFINE c == Block(RepHash(Fresh), current.StartBlock, current.Prev, current.syncs)
<1>1. current = Block(current.Hash, current.StartBlock, current.Prev, current.syncs)
      /\ current.Hash \in RepHashes /\ current.Hash.no \in 0..LastBlock
  BY HashKinds DEF ChainInv, CurrentIsNew, ChainTypeOK
<1>2. [current EXCEPT !.Hash = RepHash(Fresh)] = c
  BY <1>1 DEF Block
<1>3. c.Hash = RepHash(Fresh) /\ RepHash(Fresh) \in RepHashes /\ c.Hash.no >= current.Hash.no
      /\ c = Block(c.Hash, current.StartBlock, current.Prev, current.syncs)
  <2>1. Fresh \in 0..LastBlock /\ Fresh > current.Hash.no
    BY <1>1, ChainAssumption DEF Fresh
  <2>2. RepHash(Fresh).no = Fresh
    BY DEF RepHash
  <2> QED
    BY <1>1, <2>1, <2>2 DEF RepHashes, Block
<1>4. /\ ~sealed /\ sealed' = TRUE /\ bucket' = Stored(bucket, c)
      /\ current' = c /\ lb' = c.Hash /\ Tip' = c.Hash /\ signed' = Signed(c.Hash)
      /\ UNCHANGED <<StartFlag, PreviousSyncBlockHash, epoch, stage>>
  BY <1>2, <1>3 DEF AddRepBlockFromOthers
<1> HIDE DEF c
<1> QED
  BY <1>3, <1>4, SealStep

\* What is so of the blocks when a sync block is stored.
LEMMA SyncStored ==
  ASSUME ChainInv, NEW c, bucket' = Stored(bucket, c), c.Hash \in SyncHashes,
         c.StartBlock = FALSE, c.Prev \in {<< >>, lb}
  PROVE  Beside(bucket, c, bucket')
<1>1. LinkedIn(bucket) /\ lb \in RepsOf(bucket)
  BY DEF ChainInv, SignedIsRead
<1>2. c.Prev \in RepsOf(bucket) \cup {<< >>}
  BY <1>1
<1> QED
  BY <1>1, <1>2, StoreSync

\* The parts of the invariant that a sync block does not touch.
LEMMA SyncStoredTypes ==
  ASSUME ChainInv, NEW c, bucket' = Stored(bucket, c), c.Hash \in SyncHashes,
         c.StartBlock = FALSE, c.Prev \in {<< >>, lb}
  PROVE  /\ DOMAIN bucket' \subseteq Hashes
         /\ \A h \in DOMAIN bucket' :
              /\ bucket'[h].Hash = h
              /\ bucket'[h].StartBlock \in BOOLEAN
              /\ bucket'[h].Prev \in Hashes \cup {<< >>}
<1>1. Beside(bucket, c, bucket')
  BY SyncStored
<1>2. lb \in Hashes
  BY DEF ChainInv, ChainTypeOK, Hashes
<1>3. DOMAIN bucket' = DOMAIN bucket \cup {c.Hash} /\ bucket'[c.Hash] = c
      /\ \A h \in DOMAIN bucket \ {c.Hash} : bucket'[h] = bucket[h]
  BY <1>1 DEF Beside
<1>4. DOMAIN bucket' \subseteq Hashes
  BY <1>1 DEF Beside, LinkedIn
<1>5. \A h \in DOMAIN bucket :
        /\ bucket[h].Hash = h
        /\ bucket[h].StartBlock \in BOOLEAN
        /\ bucket[h].Prev \in Hashes \cup {<< >>}
  BY DEF ChainInv, ChainTypeOK
<1> SUFFICES ASSUME NEW h \in DOMAIN bucket'
             PROVE  /\ bucket'[h].Hash = h
                    /\ bucket'[h].StartBlock \in BOOLEAN
                    /\ bucket'[h].Prev \in Hashes \cup {<< >>}
  BY <1>4
<1>6. CASE h = c.Hash
  BY <1>2, <1>3, <1>6
<1>7. CASE h # c.Hash
  BY <1>3, <1>5, <1>7
<1> QED
  BY <1>6, <1>7

LEMMA AddSyncBlockStep ==
  ASSUME ChainInv, AddSyncBlock
  PROVE  ChainInv'
<1> DEFINE c == NewSynBlock(epoch, PreviousSyncBlockHash, current.Hash)
<1>1. /\ stage = "rep" /\ sealed /\ bucket' = Stored(bucket, c) /\ Tip' = c.Hash
      /\ PreviousSyncBlockHash' = OnlyHash(MyChain, c.Hash) /\ stage' = "sync"
      /\ lb' = lb /\ current' = current /\ sealed' = sealed /\ StartFlag' = StartFlag
      /\ epoch' = epoch /\ signed' = signed
  BY DEF AddSyncBlock
<1>2. /\ c.Hash = SyncHash(MyChain, epoch) /\ c.StartBlock = FALSE
      /\ c.Prev = lb /\ c.syncs = PreviousSyncBlockHash
  BY <1>1 DEF NewSynBlock, Block, ChainInv, CurrentIsNew
<1>3. epoch \in 0..LastEpoch /\ c.Hash \in SyncHashes /\ c.Hash.shard = MyChain
  <2>1. epoch \in 0..LastEpoch
    BY DEF ChainInv, ChainTypeOK
  <2>2. SyncHash(MyChain, epoch) \in SyncHashes /\ SyncHash(MyChain, epoch).shard = MyChain
    BY <2>1, ChainAssumption DEF SyncHashes, SyncHash
  <2> QED
    BY <1>2, <2>1, <2>2
<1> HIDE DEF c
<1>4. Beside(bucket, c, bucket')
  BY <1>1, <1>2, <1>3, SyncStored
<1>5. /\ LinkedIn(bucket') /\ RepsOf(bucket') = RepsOf(bucket)
      /\ DOMAIN bucket' = DOMAIN bucket \cup {c.Hash} /\ bucket'[c.Hash] = c
      /\ \A h \in DOMAIN bucket \ {c.Hash} : bucket'[h] = bucket[h]
      /\ \A h \in RepsOf(bucket) : WalkOf(bucket')[h] = WalkOf(bucket)[h]
  BY <1>4 DEF Beside
<1>6. ChainTypeOK'
  <2>1. /\ DOMAIN bucket' \subseteq Hashes
        /\ \A h \in DOMAIN bucket' :
              /\ bucket'[h].Hash = h
              /\ bucket'[h].StartBlock \in BOOLEAN
              /\ bucket'[h].Prev \in Hashes \cup {<< >>}
    BY <1>1, <1>2, <1>3, SyncStoredTypes
  <2>2. PreviousSyncBlockHash' \in [Chains -> Hash32]
    BY <1>1, <1>3 DEF OnlyHash, Hash32
  <2>3. Tip' \in Hashes
    BY <1>1, <1>3 DEF Hashes
  <2> QED
    BY <1>1, <2>1, <2>2, <2>3 DEF ChainInv, ChainTypeOK
<1>7. CurrentIsNew'
  BY <1>1, <1>5 DEF ChainInv, CurrentIsNew
<1>8. SignedIsRead'
  BY <1>1, <1>2, <1>3, <1>5 DEF ChainInv, SignedIsRead
<1>9. SyncsKept'
  BY <1>1, <1>2 DEF SyncsKept, OnlyHash
<1>10. SyncLinks'
  <2>1. c.syncs = LastSyncs(epoch)
    BY <1>1, <1>2 DEF ChainInv, SyncsKept
  <2>2. ASSUME NEW e \in 0..LastEpoch, SyncHash(MyChain, e) \in DOMAIN bucket'
        PROVE  bucket'[SyncHash(MyChain, e)].syncs = LastSyncs(e)
    <3>1. CASE SyncHash(MyChain, e) = c.Hash
      <4>1. e = epoch
        BY <1>2, <3>1 DEF SyncHash
      <4> QED
        BY <1>5, <2>1, <3>1, <4>1
    <3>2. CASE SyncHash(MyChain, e) # c.Hash
      <4>1. SyncHash(MyChain, e) \in DOMAIN bucket \ {c.Hash}
        BY <1>5, <2>2, <3>2
      <4> QED
        BY <1>5, <4>1 DEF ChainInv, SyncLinks, LastSyncs
    <3> QED
      BY <3>1, <3>2
  <2> QED
    BY <1>1, <2>2 DEF SyncLinks, LastSyncs
<1> QED
  BY <1>5, <1>6, <1>7, <1>8, <1>9, <1>10 DEF ChainInv

LEMMA FromOtherShardsStep ==
  ASSUME ChainInv, NEW k \in Chains, AddSyncBlockFromOtherShards(k)
  PROVE  ChainInv'
<1> DEFINE c == Foreign(k)
<1>1. /\ stage = "sync" /\ k # MyChain /\ bucket' = Stored(bucket, c)
      /\ PreviousSyncBlockHash'
           = [PreviousSyncBlockHash EXCEPT ![k] = SyncHash(k, epoch)]
      /\ lb' = lb /\ Tip' = Tip /\ current' = current /\ sealed' = sealed
      /\ StartFlag' = StartFlag /\ epoch' = epoch /\ stage' = stage /\ signed' = signed
  BY DEF AddSyncBlockFromOtherShards
<1>2. c.Hash = SyncHash(k, epoch) /\ c.StartBlock = FALSE /\ c.Prev = << >>
  BY DEF Foreign, Block
<1>3. epoch \in 0..LastEpoch /\ c.Hash \in SyncHashes /\ c.Hash.shard = k
  <2>1. epoch \in 0..LastEpoch
    BY DEF ChainInv, ChainTypeOK
  <2>2. SyncHash(k, epoch) \in SyncHashes /\ SyncHash(k, epoch).shard = k
    BY <2>1 DEF SyncHashes, SyncHash
  <2> QED
    BY <1>2, <2>1, <2>2
<1> HIDE DEF c
<1>4. /\ LinkedIn(bucket') /\ RepsOf(bucket') = RepsOf(bucket)
      /\ DOMAIN bucket' = DOMAIN bucket \cup {c.Hash} /\ bucket'[c.Hash] = c
      /\ \A h \in DOMAIN bucket \ {c.Hash} : bucket'[h] = bucket[h]
      /\ \A h \in RepsOf(bucket) : WalkOf(bucket')[h] = WalkOf(bucket)[h]
  <2>1. Beside(bucket, c, bucket')
    BY <1>1, <1>2, <1>3, SyncStored
  <2> QED
    BY <2>1 DEF Beside
<1>5. /\ PreviousSyncBlockHash \in [Chains -> Hash32]
      /\ DOMAIN PreviousSyncBlockHash = Chains
      /\ \A x \in Chains : PreviousSyncBlockHash[x] \in {<< >>, SyncHash(x, epoch)}
  <2>1. /\ DOMAIN PreviousSyncBlockHash = Chains
        /\ \A x \in Chains : PreviousSyncBlockHash[x] \in {<< >>, SyncHash(x, epoch)}
    BY <1>1 DEF ChainInv, SyncsKept
  <2>2. PreviousSyncBlockHash \in {FirstHashes} \cup [Chains -> Hash32]
    BY DEF ChainInv, ChainTypeOK
  <2>3. PreviousSyncBlockHash = [x \in Chains |-> PreviousSyncBlockHash[x]]
    <3>1. CASE PreviousSyncBlockHash = FirstHashes
      <4>1. FirstHashes = [x \in 1..1 |-> Magic]
        BY DEF FirstHashes
      <4>2. Chains = 1..1
        BY <2>1, <3>1, <4>1
      <4> QED
        BY <3>1, <4>1, <4>2
    <3>2. CASE PreviousSyncBlockHash \in [Chains -> Hash32]
      BY <3>2
    <3> QED
      BY <2>2, <3>1, <3>2
  <2>4. \A x \in Chains : SyncHash(x, epoch) \in SyncHashes
    BY <1>3 DEF SyncHashes
  <2> QED
    BY <2>1, <2>3, <2>4 DEF Hash32
<1>6. ChainTypeOK'
  <2>1. /\ DOMAIN bucket' \subseteq Hashes
        /\ \A h \in DOMAIN bucket' :
              /\ bucket'[h].Hash = h
              /\ bucket'[h].StartBlock \in BOOLEAN
              /\ bucket'[h].Prev \in Hashes \cup {<< >>}
    BY <1>1, <1>2, <1>3, SyncStoredTypes
  <2>2. PreviousSyncBlockHash' \in [Chains -> Hash32]
    BY <1>1, <1>2, <1>3, <1>5 DEF Hash32
  <2> QED
    BY <1>1, <2>1, <2>2 DEF ChainInv, ChainTypeOK
<1>7. CurrentIsNew'
  BY <1>1, <1>4 DEF ChainInv, CurrentIsNew
<1>8. SignedIsRead'
  <2>1. Tip \in SyncHashes /\ Tip.shard = MyChain => Tip # c.Hash
    BY <1>1, <1>3
  <2> QED
    BY <1>1, <1>4, <2>1 DEF ChainInv, SignedIsRead
<1>9. SyncsKept'
  BY <1>1, <1>5 DEF SyncsKept
<1>10. SyncLinks'
  <2>1. ASSUME NEW e \in 0..LastEpoch, SyncHash(MyChain, e) \in DOMAIN bucket'
        PROVE  bucket'[SyncHash(MyChain, e)].syncs = LastSyncs(e)
    <3>1. SyncHash(MyChain, e) # c.Hash
      BY <1>1, <1>3 DEF SyncHash
    <3>2. SyncHash(MyChain, e) \in DOMAIN bucket \ {c.Hash}
      BY <1>4, <2>1, <3>1
    <3> QED
      BY <1>4, <3>2 DEF ChainInv, SyncLinks, LastSyncs
  <2> QED
    BY <1>1, <2>1 DEF SyncLinks, LastSyncs
<1> QED
  BY <1>4, <1>6, <1>7, <1>8, <1>9, <1>10 DEF ChainInv

LEMMA BeginEpochStep ==
  ASSUME ChainInv, BeginEpoch
  PROVE  ChainInv'
<1>1. /\ stage = "sync" /\ epoch < LastEpoch /\ epoch' = epoch + 1 /\ stage' = "rep"
      /\ \A k \in Chains : PreviousSyncBlockHash[k] # << >>
      /\ StartFlag' = TRUE /\ bucket' = bucket /\ lb' = lb /\ Tip' = Tip
      /\ current' = current /\ sealed' = sealed /\ signed' = signed
      /\ PreviousSyncBlockHash' = PreviousSyncBlockHash
  BY DEF BeginEpoch
<1>2. epoch \in 0..LastEpoch /\ epoch \in Nat /\ epoch' \in 1..LastEpoch /\ sealed
  BY <1>1, ChainAssumption DEF ChainInv, ChainTypeOK, CurrentIsNew
<1>3. ChainTypeOK' /\ LinkedIn(bucket')
  BY <1>1, <1>2 DEF ChainInv, ChainTypeOK
<1>4. CurrentIsNew'
  BY <1>1, <1>2 DEF ChainInv, CurrentIsNew, RepsOf
<1>5. SignedIsRead'
  <2>1. signed.epoch \in -1..epoch /\ lb \in RepsOf(bucket)
    BY DEF ChainInv, SignedIsRead
  <2>2. signed.epoch \in -1..epoch' /\ signed.epoch # epoch'
    BY <1>1, <1>2, <2>1
  <2> QED
    BY <1>1, <2>1, <2>2 DEF ChainInv, SignedIsRead
<1>6. SyncsKept'
  <2>1. DOMAIN PreviousSyncBlockHash = Chains
        /\ \A k \in Chains : PreviousSyncBlockHash[k] = SyncHash(k, epoch)
    BY <1>1 DEF ChainInv, SyncsKept
  <2>2. PreviousSyncBlockHash = [k \in Chains |-> SyncHash(k, epoch)]
    <3>1. PreviousSyncBlockHash \in {FirstHashes} \cup [Chains -> Hash32]
      BY DEF ChainInv, ChainTypeOK
    <3>2. CASE PreviousSyncBlockHash = FirstHashes
      <4>1. FirstHashes = [x \in 1..1 |-> Magic]
        BY DEF FirstHashes
      <4>2. Chains = 1..1
        BY <2>1, <3>2, <4>1
      <4> QED
        BY <2>1, <3>2, <4>1, <4>2
    <3>3. CASE PreviousSyncBlockHash \in [Chains -> Hash32]
      BY <2>1, <3>3
    <3> QED
      BY <3>1, <3>2, <3>3
  <2>3. epoch' # 0 /\ epoch' - 1 = epoch
    BY <1>1, <1>2
  <2> QED
    BY <1>1, <2>2, <2>3 DEF SyncsKept, LastSyncs
<1>7. SyncLinks'
  BY <1>1 DEF ChainInv, SyncLinks
<1> QED
  BY <1>3, <1>4, <1>5, <1>6, <1>7 DEF ChainInv

LEMMA NewRepBlockchainStep ==
  ASSUME ChainInv, NewRepBlockchain
  PROVE  ChainInv'
<1>1. /\ Tip' = lb /\ bucket' = bucket /\ lb' = lb /\ current' = current
      /\ sealed' = sealed /\ StartFlag' = StartFlag /\ epoch' = epoch
      /\ stage' = stage /\ signed' = signed
      /\ PreviousSyncBlockHash' = PreviousSyncBlockHash
  BY DEF NewRepBlockchain
<1>2. ChainTypeOK'
  BY <1>1 DEF ChainInv, ChainTypeOK, Hashes
<1>3. CurrentIsNew' /\ LinkedIn(bucket')
  BY <1>1 DEF ChainInv, CurrentIsNew
<1>4. SignedIsRead'
  BY <1>1 DEF ChainInv, SignedIsRead
<1>5. SyncsKept' /\ SyncLinks'
  BY <1>1 DEF ChainInv, SyncsKept, SyncLinks
<1> QED
  BY <1>2, <1>3, <1>4, <1>5 DEF ChainInv

LEMMA ChainStep == ChainInv /\ [ChainNext]_chainVars => ChainInv'
<1> SUFFICES ASSUME ChainInv, [ChainNext]_chainVars PROVE ChainInv'
  OBVIOUS
<1>1. CASE UNCHANGED chainVars
  <2>1. /\ Tip' = Tip /\ bucket' = bucket /\ lb' = lb /\ current' = current
        /\ sealed' = sealed /\ StartFlag' = StartFlag /\ epoch' = epoch
        /\ stage' = stage /\ signed' = signed
        /\ PreviousSyncBlockHash' = PreviousSyncBlockHash
    BY <1>1 DEF chainVars
  <2> QED
    BY <2>1 DEF ChainInv, ChainTypeOK, CurrentIsNew, SignedIsRead, SyncsKept, SyncLinks
<1>2. CASE Fresh <= LastBlock /\ MineRepBlock(Fresh)
  BY <1>2, MineStep
<1>3. CASE AddRepSig
  BY <1>3, AddRepSigStep
<1>4. CASE Fresh <= LastBlock /\ AddRepBlockFromOthers(Fresh)
  BY <1>4, AddRepBlockFromOthersStep
<1>5. CASE AddSyncBlock
  BY <1>5, AddSyncBlockStep
<1>6. ASSUME NEW k \in Chains, AddSyncBlockFromOtherShards(k) PROVE ChainInv'
  BY <1>6, FromOtherShardsStep
<1>7. CASE BeginEpoch
  BY <1>7, BeginEpochStep
<1>8. CASE NewRepBlockchain
  BY <1>8, NewRepBlockchainStep
<1> QED
  BY <1>1, <1>2, <1>3, <1>4, <1>5, <1>6, <1>7, <1>8 DEF ChainNext

\* The inductive invariant of the reputation chain.
THEOREM ChainInvariant == ChainSpec => []ChainInv
BY ChainInitial, ChainStep, PTL DEF ChainSpec

\* The blocks, the tip and the hashes of the last sync blocks are what they are.
THEOREM ChainTypeCorrect == ChainSpec => []ChainTypeOK
<1>1. ChainInv => ChainTypeOK
  BY DEF ChainInv
<1> QED
  BY <1>1, ChainInvariant, PTL

\* Read from the tip, the chain gives the signed blocks of an epoch back to its
\* start block, whatever was mined, taken over, synced or opened anew before.
THEOREM EpochIsReadable == ChainSpec => []EpochReadable
BY EpochIsRead, ChainInvariant, PTL

\* A sync block and the start block after it name the sync blocks of all
\* shards of the epoch before.
THEOREM SyncBlocksLinked == ChainSpec => []SyncLinks
<1>1. ChainInv => SyncLinks
  BY DEF ChainInv
<1> QED
  BY <1>1, ChainInvariant, PTL

----------------------------------------------------------------------------
(***************************************************************************)
(* The leader's votes.                                                     *)
(***************************************************************************)

----------------------------------------------------------------------------
(* Bits of bytes.                                                          *)

LEMMA BitIsChosen ==
  Bit = CHOOSE f : f = [k \in Nat |-> IF k = 0 THEN 1 ELSE 2 * f[k - 1]]
BY DEF Bit

LEMMA BitObeys == Bit = [k \in Nat |-> IF k = 0 THEN 1 ELSE 2 * Bit[k - 1]]
<1> DEFINE G == [p \in Nat \X [Nat -> Nat] |->
                   IF p[1] = 0 THEN 1 ELSE 2 * p[2][p[1] - 1]]
           mu == [k \in Nat |-> k]
<1>1. G \in [Nat \X [Nat -> Nat] -> Nat] /\ mu \in [Nat -> Nat]
  OBVIOUS
<1>2. \A x \in Nat, f \in [Nat -> Nat] :
        G[<<x, f>>] = IF x = 0 THEN 1 ELSE 2 * f[x - 1]
  OBVIOUS
<1>3. \A x \in Nat : mu[x] = x
  OBVIOUS
<1> HIDE DEF G, mu
<1>4. LooksBelow(G, Nat, Nat, mu)
  <2> SUFFICES ASSUME NEW x \in Nat, NEW f \in [Nat -> Nat], NEW g \in [Nat -> Nat],
                      \A y \in Nat : mu[y] < mu[x] => f[y] = g[y]
               PROVE  G[<<x, f>>] = G[<<x, g>>]
    BY DEF LooksBelow
  <2>1. x # 0 => f[x - 1] = g[x - 1]
    BY <1>3
  <2> QED BY <1>2, <2>1
<1>5. PICK f \in [Nat -> Nat] : Obeys(f, G, Nat)
  <2>1. Nat # {}
    OBVIOUS
  <2> QED BY <1>1, <1>4, <2>1, Recursion, Zenon
<1>6. f = [k \in Nat |-> IF k = 0 THEN 1 ELSE 2 * f[k - 1]]
  BY <1>2, <1>5 DEF Obeys
<1> QED
  BY <1>6, BitIsChosen

LEMMA BitIs == Bit[0] = 1 /\ \A k \in Nat : Bit[k + 1] = 2 * Bit[k]
<1>1. \A k \in Nat : Bit[k] = IF k = 0 THEN 1 ELSE 2 * Bit[k - 1]
  BY BitObeys
<1> QED BY <1>1

LEMMA BitType == \A k \in Nat : Bit[k] \in Nat \ {0}
<1> DEFINE T == {k \in Nat : Bit[k] \in Nat \ {0}}
<1>1. 0 \in T
  BY BitIs
<1>2. ASSUME NEW k \in T PROVE k + 1 \in T
  BY BitIs
<1>3. T = Nat
  <2> HIDE DEF T
  <2>1. T \in SUBSET Nat
    BY DEF T
  <2> QED BY <1>1, <1>2, <2>1, NumbersByInduction
<1> QED BY <1>3

LEMMA BitOfSum ==
  ASSUME NEW i \in Nat, NEW k \in Nat
  PROVE  Bit[i + k] = Bit[i] * Bit[k]
<1> DEFINE T == {n \in Nat : Bit[i + n] = Bit[i] * Bit[n]}
<1>1. 0 \in T
  BY BitIs, BitType
<1>2. ASSUME NEW n \in T PROVE n + 1 \in T
  <2> DEFINE a == Bit[i]
             b == Bit[n]
  <2>1. a \in Nat /\ b \in Nat /\ Bit[i + n] = a * b
    BY BitType
  <2>2. Bit[(i + n) + 1] = 2 * (a * b) /\ Bit[n + 1] = 2 * b
    BY <2>1, BitIs
  <2>3. 2 * (a * b) = a * (2 * b)
    <3> HIDE DEF a, b
    <3> QED BY <2>1
  <2>4. i + (n + 1) = (i + n) + 1 /\ n + 1 \in Nat
    OBVIOUS
  <2> QED BY <2>2, <2>3, <2>4
<1>3. T = Nat
  <2> HIDE DEF T
  <2>1. T \in SUBSET Nat
    BY DEF T
  <2> QED BY <1>1, <1>2, <2>1, NumbersByInduction
<1> QED BY <1>3

\* A quotient is determined.
LEMMA OneQuotient ==
  ASSUME NEW w \in Nat \ {0}, NEW a \in Nat, NEW r \in Nat, r < w
  PROVE  (w * a + r) \div w = a /\ (w * a + r) % w = r
<1> DEFINE z == w * a + r
           q == z \div w
           s == z % w
<1>1. z \in Nat
  OBVIOUS
<1>2. q \in Int /\ s \in 0..(w - 1) /\ z = w * q + s
  <2> HIDE DEF z
  <2> QED BY <1>1, Remainder
<1>3. s = r
  <2> HIDE DEF q, s
  <2> QED BY <1>2, OneRemainder DEF z
<1>4. w * (q - a) = w * q - w * a
  <2> HIDE DEF q
  <2> QED BY <1>2, MultipleOfDifference
<1>5. w * (q - a) = 0
  BY <1>2, <1>3, <1>4
<1>6. q - a \in Int
  BY <1>2
<1>7. q - a = 0
  <2> DEFINE d == q - a
  <2> HIDE DEF q
  <2> HIDE DEF d
  <2>1. d \in Int /\ w * d = 0
    BY <1>5, <1>6 DEF d
  <2>2. d = 0
    BY <2>1
  <2> QED BY <2>2 DEF d
<1> QED
  BY <1>2, <1>3, <1>7

\* All bits of a byte of ones are set.
LEMMA BitsAreSet ==
  ASSUME NEW c \in Nat, NEW i \in 0..(c - 1)
  PROVE  ((Bit[c] - 1) \div Bit[i]) % 2 = 1
<1> DEFINE k == c - i - 1
           w == Bit[i]
           b == Bit[k]
<1>1. k \in Nat /\ c = i + (k + 1) /\ k + 1 \in Nat /\ i \in Nat
  OBVIOUS
<1>2. w \in Nat \ {0} /\ b \in Nat \ {0}
  BY <1>1, BitType
<1>3. Bit[c] = w * (2 * b)
  BY <1>1, BitIs, BitOfSum
<1> HIDE DEF w, b
<1>4. w * (2 * b) - 1 = w * (2 * b - 1) + (w - 1)
  <2>1. w * (2 * b - 1) = w * (2 * b) - w * 1
    BY <1>2, MultipleOfDifference
  <2> QED BY <1>2, <2>1
<1>5. (w * (2 * b - 1) + (w - 1)) \div w = 2 * b - 1
  <2>1. 2 * b - 1 \in Nat /\ w - 1 \in Nat /\ w - 1 < w
    BY <1>2
  <2> QED BY <1>2, <2>1, OneQuotient
<1>6. (2 * b - 1) % 2 = 1
  BY <1>2
<1>7. (Bit[c] - 1) \div w = 2 * b - 1
  BY <1>3, <1>4, <1>5
<1> QED
  BY <1>6, <1>7 DEF w

----------------------------------------------------------------------------
(* Decisions that say yes to everything.                                   *)

\* The number of bytes, and the bytes, of n ones.
OnesLen(n) == IF n % DecBits = 0 THEN n \div DecBits ELSE n \div DecBits + 1
Ones(n) ==
  [b \in 1..OnesLen(n) |->
     IF b <= n \div DecBits THEN Bit[DecBits] - 1 ELSE Bit[n % DecBits] - 1]

\* The decision of a member with that signature.
Yeses(id, target, single, hash, sig, n) ==
  [ID |-> id, TxCnt |-> n, Target |-> target, Single |-> single,
   HashID |-> hash, Decision |-> Ones(n), Sig |-> sig]

LEMMA ByteOfIndex ==
  ASSUME NEW n \in Nat
  PROVE  /\ n \div DecBits \in Nat /\ n % DecBits \in 0..(DecBits - 1)
         /\ n = DecBits * (n \div DecBits) + (n % DecBits)
<1>1. DecBits \in Nat \ {0}
  BY VotesAssumption
<1> QED
  BY <1>1

LEMMA NextIndex ==
  ASSUME NEW n \in Nat
  PROVE  IF n % DecBits = DecBits - 1
         THEN (n + 1) % DecBits = 0 /\ (n + 1) \div DecBits = n \div DecBits + 1
         ELSE /\ (n + 1) % DecBits = (n % DecBits) + 1
              /\ (n + 1) \div DecBits = n \div DecBits
<1> DEFINE w == DecBits
           q == n \div w
           r == n % w
<1>1. w \in Nat \ {0} /\ q \in Nat /\ r \in 0..(w - 1) /\ n = w * q + r
  BY VotesAssumption, ByteOfIndex
<1> HIDE DEF q, r, w
<1>2. CASE r = w - 1
  <2>1. n + 1 = w * (q + 1) + 0
    BY <1>1, <1>2
  <2>2. (n + 1) \div w = q + 1 /\ (n + 1) % w = 0
    <3>1. q + 1 \in Nat /\ 0 \in Nat /\ 0 < w
      BY <1>1
    <3> QED BY <1>1, <2>1, <3>1, OneQuotient
  <2> QED BY <1>2, <2>2 DEF w, q, r
<1>3. CASE r # w - 1
  <2>1. n + 1 = w * q + (r + 1) /\ r + 1 \in Nat /\ r + 1 < w
    BY <1>1, <1>3
  <2>2. (n + 1) \div w = q /\ (n + 1) % w = r + 1
    BY <1>1, <2>1, OneQuotient
  <2> QED BY <1>3, <2>2 DEF w, q, r
<1> QED
  BY <1>2, <1>3

\* Add of a one.
LEMMA AddOne ==
  ASSUME NEW n \in Nat, NEW id, NEW target, NEW single, NEW hash, NEW sig
  PROVE  Add(Yeses(id, target, single, hash, sig, n), 1)
           = Yeses(id, target, single, hash, sig, n + 1)
<1> DEFINE d == Yeses(id, target, single, hash, sig, n)
           q == n \div DecBits
           r == n % DecBits
           bytes == IF r = 0 THEN Append(Ones(n), 0) ELSE Ones(n)
           full == [bytes EXCEPT ![Len(bytes)] = @ + 1 * Bit[r]]
<1>1. /\ DecBits \in Nat \ {0} /\ q \in Nat /\ r \in 0..(DecBits - 1)
  BY VotesAssumption, ByteOfIndex
<1>2. IF r = DecBits - 1
      THEN (n + 1) % DecBits = 0 /\ (n + 1) \div DecBits = q + 1
      ELSE (n + 1) % DecBits = r + 1 /\ (n + 1) \div DecBits = q
  BY NextIndex
<1>3. OnesLen(n) = (IF r = 0 THEN q ELSE q + 1) /\ OnesLen(n + 1) = q + 1
  BY <1>1, <1>2 DEF OnesLen
<1>4. Bit[0] = 1 /\ Bit[r] \in Nat /\ Bit[r + 1] = 2 * Bit[r] /\ Bit[DecBits] \in Nat
  BY <1>1, BitIs, BitType
<1>5. Ones(n) = [b \in 1..OnesLen(n) |-> IF b <= q THEN Bit[DecBits] - 1
                                                   ELSE Bit[r] - 1]
  BY DEF Ones
<1>6. Ones(n + 1) = [b \in 1..(q + 1) |-> IF b <= q THEN Bit[DecBits] - 1
                                                   ELSE Bit[r + 1] - 1]
  <2>1. Ones(n + 1) = [b \in 1..(q + 1) |->
                         IF b <= (n + 1) \div DecBits THEN Bit[DecBits] - 1
                         ELSE Bit[(n + 1) % DecBits] - 1]
    BY <1>3 DEF Ones
  <2>2. CASE r = DecBits - 1
    <3>1. Bit[r + 1] = Bit[DecBits] /\ (n + 1) \div DecBits = q + 1
      BY <1>1, <1>2, <2>2
    <3> HIDE DEF q, r
    <3> QED BY <1>1, <2>1, <3>1
  <2>3. CASE r # DecBits - 1
    <3>1. (n + 1) % DecBits = r + 1 /\ (n + 1) \div DecBits = q
      BY <1>2, <2>3
    <3> HIDE DEF q, r
    <3> QED BY <1>1, <2>1, <3>1
  <2> QED BY <2>2, <2>3
<1>7. bytes = [b \in 1..(q + 1) |-> IF b <= q THEN Bit[DecBits] - 1
                                    ELSE IF r = 0 THEN 0 ELSE Bit[r] - 1]
  <2> HIDE DEF q, r
  <2>1. CASE r = 0
    <3>1. Ones(n) = [b \in 1..q |-> Bit[DecBits] - 1]
      BY <1>1, <1>3, <1>5, <2>1
    <3>2. Ones(n) \in Seq(Int) /\ Len(Ones(n)) = q
      BY <1>1, <1>4, <3>1
    <3> HIDE DEF bytes
    <3>3. bytes = Append(Ones(n), 0)
      BY <2>1 DEF bytes
    <3>4. bytes = [b \in 1..(q + 1) |-> IF b = q + 1 THEN 0 ELSE Ones(n)[b]]
      <4>1. /\ bytes \in Seq(Int) /\ Len(bytes) = q + 1 /\ bytes[q + 1] = 0
            /\ \A b \in 1..q : bytes[b] = Ones(n)[b]
        BY <1>1, <3>2, <3>3, AppendProperties
      <4>2. bytes = [b \in 1..(q + 1) |-> bytes[b]]
        BY <4>1
      <4>3. \A b \in 1..(q + 1) :
              bytes[b] = IF b = q + 1 THEN 0 ELSE Ones(n)[b]
        BY <1>1, <4>1
      <4> QED BY <4>2, <4>3
    <3>5. \A b \in 1..(q + 1) : b <= q <=> b # q + 1
      BY <1>1
    <3>6. \A b \in 1..(q + 1) : b <= q => Ones(n)[b] = Bit[DecBits] - 1
      BY <1>1, <3>1
    <3> QED BY <2>1, <3>4, <3>5, <3>6
  <2>2. CASE r # 0
    BY <1>1, <1>3, <1>5, <2>2
  <2> QED BY <2>1, <2>2
<1>8. Len(bytes) = q + 1
  <2> HIDE DEF bytes, q, r
  <2> QED BY <1>1, <1>7
<1>9. full = Ones(n + 1)
  <2> HIDE DEF bytes, q, r
  <2>1. bytes[q + 1] + 1 * Bit[r] = Bit[r + 1] - 1
    BY <1>1, <1>4, <1>7
  <2>2. DOMAIN bytes = 1..(q + 1)
    BY <1>7
  <2>3. full = [b \in 1..(q + 1) |-> IF b = q + 1 THEN Bit[r + 1] - 1 ELSE bytes[b]]
    BY <1>8, <2>1, <2>2
  <2>4. \A b \in 1..(q + 1) : (b <= q <=> b # q + 1)
                              /\ (b <= q => bytes[b] = Bit[DecBits] - 1)
    BY <1>1, <1>7
  <2> HIDE DEF full
  <2> QED BY <1>6, <2>3, <2>4
<1>10. Add(d, 1) = [d EXCEPT !.TxCnt = n + 1, !.Decision = full]
  BY DEF Add, AddAt, Yeses
<1> QED
  <2> HIDE DEF full, bytes, q, r
  <2> QED BY <1>9, <1>10 DEF Yeses

\* Ones one after the other.
LEMMA OnesAreAdded ==
  ASSUME NEW n \in Nat, NEW id, NEW target, NEW single, NEW hash, NEW sig,
         NEW f, NEW d, d = Yeses(id, target, single, hash, sig, 0),
         \A k \in 0..n : f[k] = IF k = 0 THEN d ELSE Add(f[k - 1], 1)
  PROVE  f[n] = Yeses(id, target, single, hash, sig, n)
<1> DEFINE Y(k) == Yeses(id, target, single, hash, sig, k)
           T == {k \in Nat : k <= n => f[k] = Y(k)}
<1>1. 0 \in T
  OBVIOUS
<1>2. ASSUME NEW k \in T PROVE k + 1 \in T
  <2>1. ASSUME k + 1 <= n PROVE f[k + 1] = Y(k + 1)
    <3>1. k \in Nat /\ f[k] = Y(k)
      BY <2>1
    <3>2. Add(Y(k), 1) = Y(k + 1)
      BY <3>1, AddOne
    <3>3. f[k + 1] = Add(f[k], 1)
      BY <2>1
    <3> QED BY <3>1, <3>2, <3>3
  <2> QED BY <2>1
<1>3. T = Nat
  <2> HIDE DEF T
  <2>1. T \in SUBSET Nat
    BY DEF T
  <2> QED BY <1>1, <1>2, <2>1, NumbersByInduction
<1> QED BY <1>3

\* A new decision to which ones are added.
LEMMA AllOnes ==
  ASSUME NEW n \in Nat, NEW id, NEW target, NEW single, NEW hash, NEW sig
  PROVE  LET d == Yeses(id, target, single, hash, sig, 0)
         IN  AddAll(d, n, [k \in 1..n |-> 1]) = Yeses(id, target, single, hash, sig, n)
<1> DEFINE Y(k) == Yeses(id, target, single, hash, sig, k)
           xs == [k \in 1..n |-> 1]
           upTo == CHOOSE f : f = [k \in 0..n |-> IF k = 0 THEN Y(0)
                                                  ELSE Add(f[k - 1], xs[k])]
           g == [k \in 0..n |-> Y(k)]
<1>0. \A k \in 0..n : k # 0 => xs[k] = 1
  OBVIOUS
<1> HIDE DEF xs
<1>1. \A k \in 0..n : k # 0 => Add(g[k - 1], xs[k]) = Y(k)
  <2> SUFFICES ASSUME NEW k \in 0..n, k # 0 PROVE Add(Y(k - 1), 1) = Y(k)
    BY <1>0
  <2>1. k - 1 \in Nat /\ (k - 1) + 1 = k
    OBVIOUS
  <2>2. Add(Y(k - 1), 1) = Y((k - 1) + 1)
    BY <2>1, AddOne
  <2> QED BY <2>1, <2>2
<1>2. g = [k \in 0..n |-> IF k = 0 THEN Y(0) ELSE Add(g[k - 1], xs[k])]
  BY <1>1
<1>3. upTo = [k \in 0..n |-> IF k = 0 THEN Y(0) ELSE Add(upTo[k - 1], xs[k])]
  <2> HIDE DEF g, Y
  <2> QED BY <1>2
<1>4. upTo[n] = Y(n)
  <2>1. \A k \in 0..n : upTo[k] = IF k = 0 THEN Y(0) ELSE Add(upTo[k - 1], 1)
    <3> HIDE DEF upTo, Y
    <3> QED BY <1>0, <1>3
  <2> HIDE DEF upTo
  <2> QED BY <2>1, OnesAreAdded
<1>5. AddAll(Y(0), n, xs) = upTo[n]
  BY DEF AddAll, xs
<1> QED
  <2> HIDE DEF upTo
  <2> QED BY <1>4, <1>5 DEF xs

\* What can be read of the bytes of n ones.
LEMMA OnesRead ==
  ASSUME NEW n \in Nat, NEW i \in 0..(n - 1)
  PROVE  BitOf(Ones(n), i) = 1
<1> DEFINE w == DecBits
           q == n \div w
           r == n % w
           p == i \div w
           s == i % w
<1>1. /\ w \in Nat \ {0} /\ q \in Nat /\ r \in 0..(w - 1) /\ n = w * q + r
      /\ p \in Nat /\ s \in 0..(w - 1) /\ i = w * p + s /\ i < n
  <2>1. i \in Nat
    OBVIOUS
  <2> QED BY <2>1, VotesAssumption, ByteOfIndex
<1>2. OnesLen(n) = IF r = 0 THEN q ELSE q + 1
  BY DEF OnesLen
<1>3. Ones(n) = [b \in 1..OnesLen(n) |-> IF b <= q THEN Bit[w] - 1 ELSE Bit[r] - 1]
  BY DEF Ones
<1>4. BitOf(Ones(n), i) = (Ones(n)[p + 1] \div Bit[s]) % 2
  BY DEF BitOf
<1> HIDE DEF w, q, r, p, s
<1>5. ~(p - q >= 1)
  <2> SUFFICES ASSUME p - q >= 1 PROVE FALSE
    OBVIOUS
  <2> DEFINE d == p - q
  <2>1. d \in Nat /\ d >= 1 /\ w * d = w * p - w * q
    BY <1>1, MultipleOfDifference
  <2> HIDE DEF d
  <2>2. w * d >= w
    BY <1>1, <2>1, Multiple
  <2> QED BY <1>1, <2>1, <2>2
<1>6. CASE p < q
  <2>1. Ones(n)[p + 1] = Bit[w] - 1
    BY <1>1, <1>2, <1>3, <1>6
  <2> QED BY <1>1, <1>4, <2>1, BitsAreSet
<1>7. CASE p = q
  <2>1. s < r
    BY <1>1, <1>7
  <2>2. Ones(n)[p + 1] = Bit[r] - 1
    BY <1>1, <1>2, <1>3, <1>7, <2>1
  <2>3. r \in Nat /\ s \in 0..(r - 1)
    BY <1>1, <2>1
  <2> QED BY <1>4, <2>2, <2>3, BitsAreSet
<1> QED
  BY <1>1, <1>5, <1>6, <1>7

\* There are bytes enough.
LEMMA OnesFit ==
  ASSUME NEW n \in Nat
  PROVE  Len(Ones(n)) \in Nat /\ n <= Len(Ones(n)) * DecBits
<1> DEFINE w == DecBits
           q == n \div w
           r == n % w
           k == OnesLen(n)
<1>1. /\ w \in Nat \ {0} /\ q \in Nat /\ r \in 0..(w - 1) /\ n = w * q + r
  BY VotesAssumption, ByteOfIndex
<1>2. k = IF r = 0 THEN q ELSE q + 1
  BY DEF OnesLen
<1>3. k \in Nat /\ n <= k * w
  <2> HIDE DEF w, q, r, k
  <2>1. (q + 1) * w = w * q + w /\ q * w = w * q
    BY <1>1
  <2> QED BY <1>1, <1>2, <2>1
<1>4. Len(Ones(n)) = k
  <2> HIDE DEF k, q, r, w
  <2>1. \E e : Ones(n) = [b \in 1..k |-> e[b]]
    <3>1. Ones(n) = [b \in 1..k |-> Ones(n)[b]]
      BY DEF Ones, k
    <3> QED BY <3>1
  <2> QED BY <1>3, <2>1
<1> QED
  BY <1>3, <1>4

----------------------------------------------------------------------------
(* Lists and votes.                                                        *)

\* The list of that round.
TheList(round) ==
  [Round |-> round, TxCnt |-> readySize, HashID |-> ListHash(round, readySize)]

\* A miner's signature for the list of that round.
SigOf(m, round) == <<m, ListHash(round, readySize), Ones(readySize)>>

TheVote(m, round) ==
  Yeses(m, 0, 0, ListHash(round, readySize),
        [i \in {0} |-> SigOf(m, round)], readySize)

MadeAgain(m, round) ==
  Yeses(m, 0, 1, ListHash(round, readySize),
        [z \in {0} |-> SigOf(m, round)], readySize)

LEMMA NoOnes == Ones(0) = << >>
<1>1. 0 % DecBits = 0 /\ 0 \div DecBits = 0
  BY VotesAssumption
<1>2. OnesLen(0) = 0
  BY <1>1 DEF OnesLen
<1> QED
  BY <1>2 DEF Ones

LEMMA ZeroOnly == Here = 0 /\ Targets = {0}
BY VotesAssumption, OneShard

LEMMA NewIs ==
  ASSUME NEW id, NEW target, NEW single
  PROVE  NewDecision(id, target, single)
           = Yeses(id, target, single, << >>, << >>, 0)
BY NoOnes DEF NewDecision, Yeses

LEMMA AddedOnes ==
  ASSUME NEW n \in Nat, NEW id, NEW target, NEW single
  PROVE  AddAll(NewDecision(id, target, single), n, [k \in 1..n |-> 1])
           = Yeses(id, target, single, << >>, << >>, n)
BY AllOnes, NewIs

LEMMA ProcessIs ==
  ASSUME readySize \in Nat, NEW m, NEW r
  PROVE  ProcessTL(m, TheList(r)) = TheVote(m, r)
<1> DEFINE l == TheList(r)
           h == ListHash(r, readySize)
<1>1. l.TxCnt = readySize /\ l.Round = r /\ l.HashID = h
  BY DEF TheList
<1>2. ForShard(m, l, 0) = [Yeses(m, 0, 1, << >>, << >>, readySize) EXCEPT !.HashID = h]
  BY <1>1, AddedOnes DEF ForShard
<1>3. Signature(ForShard(m, l, 0)) = SigOf(m, r)
  BY <1>2 DEF Signature, Yeses, SigOf
<1>4. ProcessTL(m, l) =
        [Yeses(m, 0, 0, << >>, << >>, readySize) EXCEPT
           !.HashID = h, !.Sig = [i \in {0} |-> Signature(ForShard(m, l, i))]]
  BY <1>1, ZeroOnly, AddedOnes DEF ProcessTL
<1>5. [i \in {0} |-> Signature(ForShard(m, l, i))] = [i \in {0} |-> SigOf(m, r)]
  BY <1>3
<1> QED
  BY <1>4, <1>5 DEF Yeses, TheVote

\* The leader makes the decision again that the miner signed.
LEMMA RebuiltIs ==
  ASSUME readySize \in Nat, NEW m, NEW r, NEW g, g.TLS = [i \in {0} |-> TheList(r)]
  PROVE  Rebuilt(TheVote(m, r), g, 0) = MadeAgain(m, r)
<1> DEFINE a == TheVote(m, r)
           n == readySize
           h == ListHash(r, readySize)
           sig == [z \in {0} |-> SigOf(m, r)]
           Y(k) == Yeses(m, 0, 1, h, sig, k)
           size == g.TLS[Here].TxCnt
           d == [NewDecision(a.ID, 0, 1) EXCEPT
                   !.HashID = g.TLS[0].HashID, !.Sig = [z \in {0} |-> a.Sig[0]]]
           xs == [k \in 1..size |-> BitOf(a.Decision, k - 1)]
           upTo == CHOOSE f : f = [k \in 0..size |-> IF k = 0 THEN d
                                                     ELSE Add(f[k - 1], xs[k])]
           e == [k \in 0..n |-> Y(k)]
<1>1. size = n /\ a.Decision = Ones(n)
  BY ZeroOnly DEF TheList, TheVote, Yeses
<1>2. d = Y(0)
  <2>1. g.TLS[0].HashID = h
    BY DEF TheList
  <2>2. a.ID = m /\ a.Sig[0] = SigOf(m, r)
    BY DEF TheVote, Yeses
  <2>3. NewDecision(m, 0, 1) = Yeses(m, 0, 1, << >>, << >>, 0)
    BY NewIs
  <2>4. [z \in {0} |-> a.Sig[0]] = sig
    BY <2>2
  <2>5. NewDecision(a.ID, 0, 1) = Yeses(m, 0, 1, << >>, << >>, 0)
    <3> HIDE DEF a
    <3> QED BY <2>2, <2>3
  <2>6. d = [Yeses(m, 0, 1, << >>, << >>, 0) EXCEPT !.HashID = h, !.Sig = sig]
    <3> HIDE DEF a, h, sig
    <3> QED BY <2>1, <2>4, <2>5
  <2> HIDE DEF d
  <2> QED BY <2>6 DEF Yeses
<1>3. \A k \in 0..n : k # 0 => xs[k] = 1
  <2> SUFFICES ASSUME NEW k \in 0..n, k # 0 PROVE xs[k] = 1
    OBVIOUS
  <2>1. k - 1 \in 0..(n - 1) /\ k \in 1..n
    OBVIOUS
  <2>2. xs[k] = BitOf(Ones(n), k - 1)
    <3> HIDE DEF a, size
    <3> QED BY <1>1, <2>1
  <2> HIDE DEF xs
  <2> QED BY <2>1, <2>2, OnesRead
<1> HIDE DEF xs
<1>4. ASSUME NEW k \in 0..n, k # 0
      PROVE  Add(e[k - 1], xs[k]) = Y(k)
  <2>1. k - 1 \in Nat /\ (k - 1) + 1 = k /\ e[k - 1] = Y(k - 1)
    BY <1>4
  <2>2. Add(Y(k - 1), 1) = Y((k - 1) + 1)
    BY <2>1, AddOne
  <2>3. xs[k] = 1
    BY <1>3, <1>4
  <2> HIDE DEF e, Y, n
  <2> QED BY <2>1, <2>2, <2>3
<1>5. e = [k \in 0..size |-> IF k = 0 THEN d ELSE Add(e[k - 1], xs[k])]
  <2>1. \A k \in 0..n : e[k] = IF k = 0 THEN d ELSE Add(e[k - 1], xs[k])
    <3> HIDE DEF d, Y
    <3> QED BY <1>2, <1>4
  <2>2. e = [k \in 0..n |-> e[k]]
    OBVIOUS
  <2> HIDE DEF e, d, a, size
  <2> QED BY <1>1, <2>1, <2>2
<1>6. upTo = [k \in 0..size |-> IF k = 0 THEN d ELSE Add(upTo[k - 1], xs[k])]
  <2> HIDE DEF e, d, a, size
  <2> QED BY <1>5
<1>7. upTo[n] = Y(n)
  <2>1. \A k \in 0..n : upTo[k] = IF k = 0 THEN d ELSE Add(upTo[k - 1], 1)
    <3> HIDE DEF upTo, d, a, size
    <3> QED BY <1>1, <1>3, <1>6
  <2>2. n \in Nat
    OBVIOUS
  <2> HIDE DEF upTo, d, a, size, h, sig, n
  <2>3. d = Yeses(m, 0, 1, h, sig, 0)
    BY <1>2
  <2>4. upTo[n] = Yeses(m, 0, 1, h, sig, n)
    BY <2>1, <2>2, <2>3, OnesAreAdded
  <2> QED BY <2>4
<1>8. Rebuilt(a, g, 0) = upTo[size]
  BY DEF Rebuilt, AddAll, xs
<1> QED
  <2> HIDE DEF upTo, d, size, a
  <2>1. Rebuilt(a, g, 0) = Y(n)
    BY <1>1, <1>7, <1>8
  <2> QED BY <2>1 DEF MadeAgain, a

----------------------------------------------------------------------------
(* The invariant.                                                          *)

MadeFor(round) == {MadeAgain(m, round) : m \in Voters}

\* The group of the list of that round, with those votes in its decision set.
TheGroup(round, made) ==
  [TLS |-> [i \in {0} |-> TheList(round)],
   TDS |-> [i \in {0} |->
              [HashID |-> ListHash(round, readySize), TxCnt |-> 0, MemD |-> made]]]

Numbers == readySize \in Nat /\ TLRound \in Nat /\ PrevHeight \in Nat
NowOfRound == Now = << >> \/ Now = TLGroup(TLRound)

\* The lists of this epoch can be found.
ListsFound ==
  \A l \in lists : \E r \in 0..(TLRound - 1) :
    l = TheList(r) /\ (r >= PrevHeight => ListHash(r, readySize) \in DOMAIN TLIndex)

IndexOfRounds ==
  \A h \in DOMAIN TLIndex :
    \E r \in PrevHeight..(TLRound - 1) : \E made \in Seq(MadeFor(r)) :
      h = ListHash(r, readySize) /\ TLIndex[h] = TheGroup(r, made)

VotesOfLists ==
  \A v \in votes : \E m \in Voters, r \in Nat :
    v.dec = TheVote(m, r) /\ TheList(r) \in lists

\* A vote that was refused is of an epoch before and does not come again.
RefusedOnce == IsFiniteSet(refused) /\ refused \cap votes = {}

\* No signal of a round yet to come, but for the refused votes.
Unsignalled ==
  \A x \in Rounds : x >= TLRound - PrevHeight =>
    signals[x] = IF x = 0 THEN Cardinality(refused) ELSE 0

VotInv ==
  /\ VotTypeOK /\ Numbers /\ NowOfRound /\ ListsFound /\ IndexOfRounds
  /\ VotesOfLists /\ RefusedOnce /\ Unsignalled /\ VotesCounted

LEMMA VotInitial == VotInit => VotInv
<1> SUFFICES ASSUME VotInit PROVE VotInv
  OBVIOUS
<1> USE DEF VotInit
<1>1. Numbers /\ NowOfRound /\ ListsFound /\ VotesOfLists
  BY VotesAssumption DEF Numbers, NowOfRound, ListsFound, VotesOfLists
<1>2. DOMAIN TLIndex = {} /\ IndexOfRounds
  BY DEF IndexOfRounds
<1>3. IsFiniteSet({}) /\ Cardinality({}) = 0
  BY FS_EmptySet
<1>4. RefusedOnce /\ Unsignalled /\ VotesCounted
  BY <1>2, <1>3 DEF RefusedOnce, Unsignalled, VotesCounted
<1>5. VotTypeOK
  BY <1>2, VotesAssumption DEF VotTypeOK, Rounds
<1> QED
  BY <1>1, <1>2, <1>4, <1>5 DEF VotInv

\* What the size of Ready alone determines.
LEMMA SameSize ==
  ASSUME readySize' = readySize, NEW m, NEW r, NEW made
  PROVE  /\ TheList(r)' = TheList(r) /\ TheVote(m, r)' = TheVote(m, r)
         /\ MadeAgain(m, r)' = MadeAgain(m, r) /\ MadeFor(r)' = MadeFor(r)
         /\ TheGroup(r, made)' = TheGroup(r, made)
BY DEF TheList, TheVote, MadeAgain, MadeFor, TheGroup, SigOf, Yeses, ListHash

LEMMA FirstStep ==
  ASSUME VotInv, FirstTxList
  PROVE  VotInv'
<1> USE DEF FirstTxList
<1>1. readySize' = readySize
  OBVIOUS
<1>2. Numbers'
  BY DEF VotInv, Numbers
<1>3. NowOfRound'
  <2>1. Now' = TLGroup(TLRound)
    OBVIOUS
  <2>2. TLGroup(TLRound)' = TLGroup(TLRound)
    BY DEF TLGroup
  <2> QED BY <2>1, <2>2 DEF NowOfRound
<1>4. ListsFound'
  BY <1>1, SameSize DEF VotInv, ListsFound, ListHash
<1>5. IndexOfRounds'
  BY <1>1, SameSize DEF VotInv, IndexOfRounds, ListHash
<1>6. VotesOfLists'
  BY <1>1, SameSize DEF VotInv, VotesOfLists
<1>7. RefusedOnce' /\ Unsignalled' /\ VotesCounted' /\ VotTypeOK'
  BY DEF VotInv, RefusedOnce, Unsignalled, VotesCounted, VotTypeOK
<1> QED
  BY <1>2, <1>3, <1>4, <1>5, <1>6, <1>7 DEF VotInv

LEMMA BuildIs ==
  ASSUME NEW r
  PROVE  BuildTDS(TLGroup(r)) = TheGroup(r, << >>)
<1>1. TLGroup(r).TLS = [i \in {0} |-> [Round |-> r, TxCnt |-> readySize,
                                       HashID |-> << >>]]
  BY ZeroOnly DEF TLGroup
<1>2. [i \in {0} |-> [TLGroup(r).TLS[i] EXCEPT
                        !.HashID = ListHash(TLGroup(r).TLS[i].Round,
                                            TLGroup(r).TLS[i].TxCnt)]]
        = [i \in {0} |-> TheList(r)]
  BY <1>1 DEF TheList
<1> DEFINE tls == [i \in Targets |-> [TLGroup(r).TLS[i] EXCEPT
                        !.HashID = ListHash(TLGroup(r).TLS[i].Round,
                                            TLGroup(r).TLS[i].TxCnt)]]
<1>3. tls = [i \in {0} |-> TheList(r)]
  BY <1>2, ZeroOnly
<1>4. BuildTDS(TLGroup(r)) = [TLS |-> tls,
                              TDS |-> [i \in Targets |-> TxDecSet(tls[i], i = Here)]]
  BY DEF BuildTDS
<1>5. [i \in Targets |-> TxDecSet(tls[i], i = Here)]
        = [i \in {0} |-> [HashID |-> ListHash(r, readySize), TxCnt |-> 0,
                          MemD |-> << >>]]
  <2> HIDE DEF tls
  <2>1. TxDecSet(tls[0], TRUE) = [HashID |-> ListHash(r, readySize), TxCnt |-> 0,
                                  MemD |-> << >>]
    BY <1>3 DEF TxDecSet, TheList
  <2> QED BY <2>1, ZeroOnly
<1> QED
  <2> HIDE DEF tls
  <2> QED BY <1>3, <1>4, <1>5 DEF TheGroup

LEMMA ListStep ==
  ASSUME VotInv, TxListProcess
  PROVE  VotInv'
<1> DEFINE r == TLRound
           l == TheList(r)
           h == ListHash(r, readySize)
           g == TheGroup(r, << >>)
<1> USE DEF VotInv
<1>1. /\ readySize' = readySize /\ PrevHeight' = PrevHeight /\ votes' = votes
      /\ signals' = signals /\ refused' = refused /\ tlCheck' = tlCheck
      /\ TLRound' = TLRound + 1 /\ TLRound < ListsPerEpoch
      /\ Now' = TLGroup(TLRound + 1)
  BY DEF TxListProcess
<1>2. /\ r \in Nat /\ PrevHeight \in Nat /\ readySize \in Nat
      /\ r \in PrevHeight..PrevHeight + ListsPerEpoch
      /\ ListsPerEpoch \in Nat
  BY VotesAssumption DEF Numbers, VotTypeOK
<1>3. BuildTDS(Now) = g
  BY BuildIs DEF TxListProcess, NowOfRound
<1>4. g.TLS[Here] = l /\ l.HashID = h
  BY ZeroOnly DEF TheGroup, TheList
<1>5. /\ TLIndex' = [x \in DOMAIN TLIndex \cup {h} |-> IF x = h THEN g ELSE TLIndex[x]]
      /\ lists' = lists \cup {l}
  BY <1>3, <1>4 DEF TxListProcess
<1>6. h \notin DOMAIN TLIndex
  <2> SUFFICES ASSUME h \in DOMAIN TLIndex PROVE FALSE
    OBVIOUS
  <2>1. PICK q \in PrevHeight..(TLRound - 1) : h = ListHash(q, readySize)
    BY DEF IndexOfRounds
  <2> QED BY <1>2, <2>1 DEF ListHash
<1> HIDE DEF h, l, g
<1>7. Numbers'
  BY <1>1, <1>2 DEF Numbers
<1>8. NowOfRound'
  <2>1. TLGroup(TLRound)' = TLGroup(TLRound + 1)
    BY <1>1 DEF TLGroup
  <2> QED BY <1>1, <2>1 DEF NowOfRound
<1>9. ListsFound'
  <2> SUFFICES ASSUME NEW x \in lists'
               PROVE  \E q \in 0..(TLRound' - 1) : x = TheList(q) /\
                        (q >= PrevHeight => ListHash(q, readySize) \in DOMAIN TLIndex')
    BY <1>1, SameSize DEF ListsFound
  <2>1. CASE x = l
    <3>1. r \in 0..(TLRound' - 1)
      BY <1>1, <1>2
    <3>2. h \in DOMAIN TLIndex'
      BY <1>5
    <3> QED BY <2>1, <3>1, <3>2 DEF l, h
  <2>2. CASE x \in lists
    <3>1. PICK q \in 0..(TLRound - 1) : x = TheList(q) /\
            (q >= PrevHeight => ListHash(q, readySize) \in DOMAIN TLIndex)
      BY <2>2 DEF ListsFound
    <3>2. q \in 0..(TLRound' - 1)
      BY <1>1, <1>2
    <3> QED BY <1>5, <3>1, <3>2
  <2> QED BY <1>5, <2>1, <2>2
<1>10. IndexOfRounds'
  <2> SUFFICES ASSUME NEW x \in DOMAIN TLIndex'
               PROVE  \E q \in PrevHeight..(TLRound' - 1) : \E made \in Seq(MadeFor(q)) :
                        x = ListHash(q, readySize) /\ TLIndex'[x] = TheGroup(q, made)
    BY <1>1, SameSize DEF IndexOfRounds
  <2>1. CASE x = h
    <3>1. r \in PrevHeight..(TLRound' - 1) /\ << >> \in Seq(MadeFor(r))
      BY <1>1, <1>2
    <3>2. TLIndex'[x] = g
      BY <1>5, <2>1
    <3> QED BY <2>1, <3>1, <3>2 DEF g, h
  <2>2. CASE x # h
    <3>1. x \in DOMAIN TLIndex /\ TLIndex'[x] = TLIndex[x]
      BY <1>5, <2>2
    <3>2. PICK q \in PrevHeight..(TLRound - 1) : \E made \in Seq(MadeFor(q)) :
                 x = ListHash(q, readySize) /\ TLIndex[x] = TheGroup(q, made)
      BY <3>1 DEF IndexOfRounds
    <3>3. q \in PrevHeight..(TLRound' - 1)
      BY <1>1, <1>2
    <3> QED BY <3>1, <3>2, <3>3
  <2> QED BY <2>1, <2>2
<1>11. VotesOfLists'
  <2> SUFFICES ASSUME NEW v \in votes
               PROVE  \E m \in Voters, q \in Nat :
                        v.dec = TheVote(m, q) /\ TheList(q) \in lists'
    BY <1>1, SameSize DEF VotesOfLists
  <2> QED BY <1>5 DEF VotesOfLists
<1>12. RefusedOnce' /\ Unsignalled'
  <2>1. \A x \in Rounds : x >= TLRound' - PrevHeight => x >= TLRound - PrevHeight
    BY <1>1, <1>2 DEF Rounds
  <2> QED BY <1>1, <2>1 DEF RefusedOnce, Unsignalled
<1>13. VotesCounted'
  <2> SUFFICES ASSUME NEW x \in DOMAIN TLIndex'
               PROVE  LET k == TLIndex'[x].TLS[Here].Round - PrevHeight
                      IN  signals[k] = Len(TLIndex'[x].TDS[Here].MemD)
                            + (IF k = 0 THEN Cardinality(refused) ELSE 0)
    BY <1>1 DEF VotesCounted
  <2>1. CASE x = h
    <3> DEFINE k == r - PrevHeight
    <3>1. k \in Rounds /\ k >= TLRound - PrevHeight
      BY <1>1, <1>2 DEF Rounds
    <3>2. signals[k] = IF k = 0 THEN Cardinality(refused) ELSE 0
      BY <3>1 DEF Unsignalled
    <3>3. TLIndex'[x] = g
      BY <1>5, <2>1
    <3>4. g.TLS[Here].Round = r /\ g.TDS[Here].MemD = << >>
      BY ZeroOnly DEF g, TheGroup, TheList
    <3>5. Len(<< >>) = 0
      OBVIOUS
    <3>6. Cardinality(refused) \in Nat
      BY FS_CardinalityType DEF RefusedOnce
    <3> QED BY <3>2, <3>3, <3>4, <3>5, <3>6
  <2>2. CASE x # h
    <3>1. x \in DOMAIN TLIndex /\ TLIndex'[x] = TLIndex[x]
      BY <1>5, <2>2
    <3> QED BY <3>1 DEF VotesCounted
  <2> QED BY <2>1, <2>2
<1>14. VotTypeOK'
  <2>1. \A x \in DOMAIN TLIndex' : TLIndex'[x].TLS[Here].HashID = x
    <3> SUFFICES ASSUME NEW x \in DOMAIN TLIndex'
                 PROVE TLIndex'[x].TLS[Here].HashID = x
      OBVIOUS
    <3>1. CASE x = h
      <4>1. TLIndex'[x] = g
        BY <1>5, <3>1
      <4> QED BY <1>4, <3>1, <4>1
    <3>2. CASE x # h
      <4>1. x \in DOMAIN TLIndex /\ TLIndex'[x] = TLIndex[x]
        BY <1>5, <3>2
      <4> QED BY <4>1 DEF VotTypeOK
    <3> QED BY <3>1, <3>2
  <2>2. TLRound' \in PrevHeight'..PrevHeight' + ListsPerEpoch
    BY <1>1, <1>2
  <2> QED BY <1>1, <1>5, <2>1, <2>2 DEF VotTypeOK
<1> QED
  BY <1>7, <1>8, <1>9, <1>10, <1>11, <1>12, <1>13, <1>14

LEMMA VoteStep ==
  ASSUME VotInv, NEW m \in Voters, NEW l \in lists, NEW k \in 1..Copies,
         HandleTxList(m, l, k)
  PROVE  VotInv'
<1> USE DEF VotInv
<1>1. /\ readySize' = readySize /\ PrevHeight' = PrevHeight /\ TLRound' = TLRound
      /\ Now' = Now /\ TLIndex' = TLIndex /\ lists' = lists
      /\ signals' = signals /\ refused' = refused
      /\ tlCheck' = [tlCheck EXCEPT ![m] = @ \cup {l}]
      /\ votes' = votes \cup {[copy |-> c, dec |-> ProcessTL(m, l)] : c \in 1..k}
      /\ l.Round >= PrevHeight
  BY DEF HandleTxList
<1>2. PICK r \in 0..(TLRound - 1) : l = TheList(r)
  BY DEF ListsFound
<1>3. readySize \in Nat /\ r \in Nat /\ PrevHeight \in Nat
  BY DEF Numbers
<1>4. ProcessTL(m, l) = TheVote(m, r)
  BY <1>2, <1>3, ProcessIs
<1>5. Numbers'
  BY <1>1 DEF Numbers
<1>6. NowOfRound'
  <2>1. TLGroup(TLRound)' = TLGroup(TLRound)
    BY <1>1 DEF TLGroup
  <2> QED BY <1>1, <2>1 DEF NowOfRound
<1>7. ListsFound'
  BY <1>1, SameSize DEF ListsFound, ListHash
<1>8. IndexOfRounds'
  BY <1>1, SameSize DEF IndexOfRounds, ListHash
<1>9. VotesOfLists'
  <2> SUFFICES ASSUME NEW v \in votes'
               PROVE  \E x \in Voters, q \in Nat :
                        v.dec = TheVote(x, q) /\ TheList(q) \in lists
    BY <1>1, SameSize DEF VotesOfLists
  <2>1. CASE v \in votes
    BY <2>1 DEF VotesOfLists
  <2>2. CASE v \notin votes
    <3>1. v.dec = TheVote(m, r)
      BY <1>1, <1>4, <2>2
    <3> QED BY <1>2, <1>3, <3>1
  <2> QED BY <2>1, <2>2
<1>10. RefusedOnce'
  <2>1. ASSUME NEW c \in 1..k, [copy |-> c, dec |-> ProcessTL(m, l)] \in refused
        PROVE  FALSE
    <3>1. TheVote(m, r).HashID[1] < PrevHeight
      BY <1>4, <2>1 DEF VotesCounted
    <3>2. TheVote(m, r).HashID[1] = r /\ l.Round = r
      BY <1>2 DEF TheVote, Yeses, ListHash, TheList
    <3> QED BY <1>1, <1>3, <3>1, <3>2
  <2> QED BY <1>1, <2>1 DEF RefusedOnce
<1>11. Unsignalled' /\ VotesCounted'
  BY <1>1 DEF Unsignalled, VotesCounted
<1>12. VotTypeOK'
  BY <1>1 DEF VotTypeOK
<1> QED
  BY <1>5, <1>6, <1>7, <1>8, <1>9, <1>10, <1>11, <1>12

LEMMA SentAsMade ==
  ASSUME NEW m, NEW r
  PROVE  /\ Decoded(TheVote(m, r)) = TheVote(m, r)
         /\ TheVote(m, r).HashID = ListHash(r, readySize)
         /\ Verifies(MadeAgain(m, r), 0)
BY DEF Decoded, TheVote, MadeAgain, Yeses, Verifies, Signature, SigOf

\* A vote more in the decision set.
LEMMA GroupWithVote ==
  ASSUME readySize \in Nat, NEW m, NEW r, NEW made
  PROVE  UpdateTXCache(TheGroup(r, made), TheVote(m, r))
           = TheGroup(r, Append(made, MadeAgain(m, r)))
<1> DEFINE a == TheVote(m, r)
           g == TheGroup(r, made)
           again == MadeAgain(m, r)
           set == [HashID |-> ListHash(r, readySize), TxCnt |-> 0, MemD |-> made]
           tds == [i \in Targets |-> [g.TDS[i] EXCEPT
                                       !.MemD = Append(@, Rebuilt(a, g, i))]]
<1>1. g = [TLS |-> [i \in {0} |-> TheList(r)], TDS |-> [i \in {0} |-> set]]
  BY DEF TheGroup
<1>2. Rebuilt(a, g, 0) = again
  <2>1. g.TLS = [i \in {0} |-> TheList(r)]
    BY <1>1
  <2> HIDE DEF a, g
  <2> QED BY <2>1, RebuiltIs DEF a
<1>3. tds = [i \in {0} |-> [set EXCEPT !.MemD = Append(made, again)]]
  <2>1. g.TDS[0] = set
    BY <1>1
  <2>2. tds = [i \in {0} |-> tds[0]]
    BY ZeroOnly
  <2>3. tds[0] = [g.TDS[0] EXCEPT !.MemD = Append(g.TDS[0].MemD, Rebuilt(a, g, 0))]
    BY ZeroOnly
  <2>4. tds[0] = [set EXCEPT !.MemD = Append(set.MemD, again)]
    <3> HIDE DEF tds, a, g, set, again
    <3> QED BY <1>2, <2>1, <2>3
  <2>5. set.MemD = made
    OBVIOUS
  <2> HIDE DEF tds, set
  <2> QED BY <2>2, <2>4, <2>5
<1>4. UpdateTXCache(g, a) = [g EXCEPT !.TDS = tds]
  BY DEF UpdateTXCache
<1> QED
  <2> DEFINE more == [HashID |-> ListHash(r, readySize), TxCnt |-> 0,
                      MemD |-> Append(made, again)]
  <2>1. [g EXCEPT !.TDS = tds] = [TLS |-> [i \in {0} |-> TheList(r)], TDS |-> tds]
    <3> HIDE DEF g, tds, set
    <3> QED BY <1>1
  <2>2. [set EXCEPT !.MemD = Append(made, again)] = more
    OBVIOUS
  <2>3. tds = [i \in {0} |-> more]
    <3> HIDE DEF tds, set, more
    <3> QED BY <1>3, <2>2
  <2>4. TheGroup(r, Append(made, again))
          = [TLS |-> [i \in {0} |-> TheList(r)], TDS |-> [i \in {0} |-> more]]
    BY DEF TheGroup
  <2> HIDE DEF a, g, tds, more, again
  <2> QED BY <1>4, <2>1, <2>3, <2>4 DEF g, a, again

\* A vote on a list of this epoch is counted.
LEMMA TakenStep ==
  ASSUME VotInv, NEW v \in votes, HandleTxDecLeader(v),
         Decoded(v.dec).HashID \in DOMAIN TLIndex
  PROVE  VotInv'
<1> DEFINE a == Decoded(v.dec)
           h == a.HashID
<1> USE DEF VotInv
<1>1. PICK m \in Voters, r \in Nat : v.dec = TheVote(m, r) /\ TheList(r) \in lists
  BY DEF VotesOfLists
<1>2. a = TheVote(m, r) /\ h = ListHash(r, readySize) /\ h \in DOMAIN TLIndex
  BY <1>1, SentAsMade
<1>3. PICK q \in PrevHeight..(TLRound - 1) : \E made \in Seq(MadeFor(q)) :
             h = ListHash(q, readySize) /\ TLIndex[h] = TheGroup(q, made)
  BY DEF IndexOfRounds
<1>4. q = r
  BY <1>2, <1>3 DEF ListHash
<1>5. PICK made \in Seq(MadeFor(r)) : TLIndex[h] = TheGroup(r, made)
  BY <1>3, <1>4
<1>6. /\ readySize \in Nat /\ TLRound \in Nat /\ PrevHeight \in Nat
      /\ r \in PrevHeight..(TLRound - 1)
      /\ TLRound \in PrevHeight..PrevHeight + ListsPerEpoch
      /\ ListsPerEpoch \in Nat
  BY <1>3, <1>4, VotesAssumption DEF Numbers, VotTypeOK
<1>7. Rebuilt(a, TLIndex[h], 0) = MadeAgain(m, r)
  <2>1. TLIndex[h].TLS = [i \in {0} |-> TheList(r)]
    BY <1>5 DEF TheGroup
  <2> HIDE DEF a
  <2> QED BY <1>2, <1>6, <2>1, RebuiltIs
<1>8. Takes(a)
  <2>1. Verifies(Rebuilt(a, TLIndex[h], 0), 0)
    <3> HIDE DEF a, h
    <3> QED BY <1>7, SentAsMade
  <2> HIDE DEF a
  <2> QED BY <1>2, <2>1, ZeroOnly DEF Takes
<1> DEFINE x == r - PrevHeight
           longer == Append(made, MadeAgain(m, r))
<1>9. Index(TLIndex[h]) = x
  BY <1>5, ZeroOnly DEF Index, TheGroup, TheList
<1>10. x \in Rounds
  BY <1>6 DEF Rounds
<1>11. /\ readySize' = readySize /\ PrevHeight' = PrevHeight /\ TLRound' = TLRound
       /\ Now' = Now /\ lists' = lists /\ tlCheck' = tlCheck
       /\ votes' = votes \ {v} /\ refused' = refused
  BY <1>8 DEF HandleTxDecLeader
<1>24. signals' = [signals EXCEPT ![x] = @ + 1]
  <2> HIDE DEF x
  <2> QED BY <1>2, <1>9 DEF HandleTxDecLeader
<1>25. TLIndex' = [TLIndex EXCEPT ![h] = UpdateTXCache(@, a)]
  BY <1>8 DEF HandleTxDecLeader
<1>12. longer \in Seq(MadeFor(r)) /\ Len(longer) = Len(made) + 1
  <2>1. MadeAgain(m, r) \in MadeFor(r)
    BY DEF MadeFor
  <2> QED BY <1>5, <2>1, AppendProperties
<1>13. DOMAIN TLIndex' = DOMAIN TLIndex /\ \A y \in DOMAIN TLIndex : y # h => TLIndex'[y] = TLIndex[y]
  <2> HIDE DEF a, h
  <2> QED BY <1>25
<1>14. TLIndex'[h] = TheGroup(r, longer)
  <2>1. TLIndex'[h] = UpdateTXCache(TLIndex[h], a)
    <3> HIDE DEF a, h
    <3> QED BY <1>2, <1>25
  <2> HIDE DEF a, h, longer
  <2> QED BY <1>2, <1>5, <1>6, <2>1, GroupWithVote DEF longer
<1> HIDE DEF a, h, x, longer
<1>26. \A y, p, s : /\ TheList(p)' = TheList(p) /\ TheVote(y, p)' = TheVote(y, p)
                    /\ MadeFor(p)' = MadeFor(p) /\ TheGroup(p, s)' = TheGroup(p, s)
                    /\ ListHash(p, readySize)' = ListHash(p, readySize)
  BY <1>11, SameSize DEF ListHash
<1>15. Numbers' /\ VotesOfLists' /\ NowOfRound'
  <2>1. Numbers'
    BY <1>11 DEF Numbers
  <2>2. VotesOfLists'
    <3> SUFFICES ASSUME NEW u \in votes
                 PROVE  \E y \in Voters, p \in Nat :
                          u.dec = TheVote(y, p) /\ TheList(p) \in lists
      BY <1>11, <1>26 DEF VotesOfLists
    <3> QED BY DEF VotesOfLists
  <2>3. TLGroup(TLRound)' = TLGroup(TLRound)
    BY <1>11 DEF TLGroup
  <2> QED BY <1>11, <2>1, <2>2, <2>3 DEF NowOfRound
<1>16. ListsFound'
  BY <1>11, <1>13, SameSize DEF ListsFound, ListHash
<1>17. IndexOfRounds'
  <2> SUFFICES ASSUME NEW y \in DOMAIN TLIndex
               PROVE  \E p \in PrevHeight..(TLRound - 1) : \E s \in Seq(MadeFor(p)) :
                        y = ListHash(p, readySize) /\ TLIndex'[y] = TheGroup(p, s)
    BY <1>11, <1>13, <1>26 DEF IndexOfRounds
  <2>1. CASE y = h
    BY <1>2, <1>6, <1>12, <1>14, <2>1
  <2>2. CASE y # h
    BY <1>13, <2>2 DEF IndexOfRounds
  <2> QED BY <2>1, <2>2
<1>18. RefusedOnce'
  BY <1>11 DEF RefusedOnce
<1>19. \A y \in Rounds : y # x => signals'[y] = signals[y]
  BY <1>24 DEF VotTypeOK
<1>20. signals'[x] = signals[x] + 1 /\ signals[x] \in Nat
  BY <1>10, <1>24 DEF VotTypeOK
<1>21. Unsignalled'
  <2>1. ~(x >= TLRound - PrevHeight)
    BY <1>6 DEF x
  <2> QED BY <1>11, <1>19, <2>1 DEF Unsignalled
<1>22. VotesCounted'
  <2> SUFFICES ASSUME NEW y \in DOMAIN TLIndex
               PROVE  LET k == TLIndex'[y].TLS[Here].Round - PrevHeight
                      IN  signals'[k] = Len(TLIndex'[y].TDS[Here].MemD)
                            + (IF k = 0 THEN Cardinality(refused) ELSE 0)
    BY <1>11, <1>13 DEF VotesCounted
  <2>1. CASE y = h
    <3>1. /\ TLIndex'[h].TLS[Here].Round = r /\ TLIndex[h].TLS[Here].Round = r
          /\ TLIndex'[h].TDS[Here].MemD = longer /\ TLIndex[h].TDS[Here].MemD = made
      BY <1>5, <1>14, ZeroOnly DEF TheGroup, TheList
    <3>2. signals[x] = Len(made) + (IF x = 0 THEN Cardinality(refused) ELSE 0)
      BY <2>1, <3>1 DEF VotesCounted, x
    <3>3. Cardinality(refused) \in Nat /\ Len(made) \in Nat
      BY <1>5, FS_CardinalityType DEF RefusedOnce
    <3> QED BY <1>12, <1>20, <2>1, <3>1, <3>2, <3>3 DEF x
  <2>2. CASE y # h
    <3>1. PICK p \in PrevHeight..(TLRound - 1) : \E s \in Seq(MadeFor(p)) :
                 y = ListHash(p, readySize) /\ TLIndex[y] = TheGroup(p, s)
      BY DEF IndexOfRounds
    <3>2. TLIndex[y].TLS[Here].Round = p /\ p # r
      BY <1>2, <2>2, <3>1, ZeroOnly DEF TheGroup, TheList
    <3>3. p - PrevHeight \in Rounds /\ p - PrevHeight # x
      BY <1>6, <3>2 DEF Rounds, x
    <3>4. signals'[p - PrevHeight] = signals[p - PrevHeight]
      BY <1>19, <3>3
    <3>5. TLIndex'[y] = TLIndex[y]
      BY <1>13, <2>2
    <3> QED BY <3>2, <3>4, <3>5 DEF VotesCounted
  <2> QED BY <2>1, <2>2
<1>23. VotTypeOK'
  <2>1. TLIndex'[h].TLS[Here].HashID = h
    BY <1>2, <1>14, ZeroOnly DEF TheGroup, TheList
  <2>2. signals' \in [Rounds -> Nat]
    BY <1>10, <1>20, <1>24 DEF VotTypeOK
  <2> QED BY <1>11, <1>13, <2>1, <2>2 DEF VotTypeOK
<1> QED
  BY <1>15, <1>16, <1>17, <1>18, <1>21, <1>22, <1>23

\* A vote that comes in the epoch after its own is counted for round 0, and
\* refused.
LEMMA LateStep ==
  ASSUME VotInv, NEW v \in votes, HandleTxDecLeader(v),
         Decoded(v.dec).HashID \notin DOMAIN TLIndex
  PROVE  VotInv'
<1> DEFINE a == Decoded(v.dec)
<1> USE DEF VotInv
<1>1. PICK m \in Voters, r \in Nat : v.dec = TheVote(m, r) /\ TheList(r) \in lists
  BY DEF VotesOfLists
<1>2. a = TheVote(m, r) /\ a.HashID = ListHash(r, readySize) /\ v.dec = a
  BY <1>1, SentAsMade
<1>3. /\ readySize \in Nat /\ TLRound \in Nat /\ PrevHeight \in Nat
      /\ ListsPerEpoch \in Nat \ {0} /\ 0 \in Rounds
  BY VotesAssumption DEF Numbers, Rounds
<1>4. r < PrevHeight
  <2>1. PICK q \in 0..(TLRound - 1) : TheList(r) = TheList(q) /\
          (q >= PrevHeight => ListHash(q, readySize) \in DOMAIN TLIndex)
    BY <1>1 DEF ListsFound
  <2>2. q = r
    BY <2>1 DEF TheList
  <2> QED BY <1>2, <1>3, <2>1, <2>2
<1>5. ~Takes(a)
  BY DEF Takes
<1>6. /\ readySize' = readySize /\ PrevHeight' = PrevHeight /\ TLRound' = TLRound
      /\ Now' = Now /\ lists' = lists /\ tlCheck' = tlCheck /\ TLIndex' = TLIndex
      /\ votes' = votes \ {v} /\ refused' = refused \cup {v}
      /\ signals' = [signals EXCEPT ![0] = @ + 1]
  <2> HIDE DEF a
  <2> QED BY <1>5 DEF HandleTxDecLeader, a
<1> HIDE DEF a
<1>7. IsFiniteSet(refused') /\ Cardinality(refused') = Cardinality(refused) + 1
  <2>1. v \notin refused /\ IsFiniteSet(refused)
    BY DEF RefusedOnce
  <2> QED BY <1>6, <2>1, FS_AddElement
<1>8. Cardinality(refused) \in Nat
  BY FS_CardinalityType DEF RefusedOnce
<1>9. /\ \A y \in Rounds : y # 0 => signals'[y] = signals[y]
      /\ signals'[0] = signals[0] + 1 /\ signals[0] \in Nat
      /\ signals' \in [Rounds -> Nat]
  BY <1>3, <1>6 DEF VotTypeOK
<1>10. Numbers' /\ VotesOfLists' /\ NowOfRound'
  <2>1. Numbers'
    BY <1>6 DEF Numbers
  <2>2. VotesOfLists'
    <3> SUFFICES ASSUME NEW u \in votes
                 PROVE  \E y \in Voters, p \in Nat :
                          u.dec = TheVote(y, p) /\ TheList(p) \in lists
      BY <1>6, SameSize DEF VotesOfLists
    <3> QED BY DEF VotesOfLists
  <2>3. TLGroup(TLRound)' = TLGroup(TLRound)
    BY <1>6 DEF TLGroup
  <2> QED BY <1>6, <2>1, <2>2, <2>3 DEF NowOfRound
<1>11. ListsFound' /\ IndexOfRounds'
  <2>1. ListsFound'
    BY <1>6, SameSize DEF ListsFound, ListHash
  <2>2. IndexOfRounds'
    BY <1>6, SameSize DEF IndexOfRounds, ListHash
  <2> QED BY <2>1, <2>2
<1>12. RefusedOnce'
  BY <1>6, <1>7 DEF RefusedOnce
<1>13. Unsignalled'
  BY <1>6, <1>7, <1>8, <1>9 DEF Unsignalled
<1>14. VotesCounted'
  <2>1. ASSUME NEW y \in DOMAIN TLIndex
        PROVE  LET k == TLIndex[y].TLS[Here].Round - PrevHeight
               IN  signals'[k] = Len(TLIndex[y].TDS[Here].MemD)
                     + (IF k = 0 THEN Cardinality(refused') ELSE 0)
    <3>1. PICK p \in PrevHeight..(TLRound - 1) : \E s \in Seq(MadeFor(p)) :
                 y = ListHash(p, readySize) /\ TLIndex[y] = TheGroup(p, s)
      BY DEF IndexOfRounds
    <3>2. PICK s \in Seq(MadeFor(p)) : TLIndex[y] = TheGroup(p, s)
      BY <3>1
    <3>3. TLIndex[y].TLS[Here].Round = p /\ TLIndex[y].TDS[Here].MemD = s
      BY <3>2, ZeroOnly DEF TheGroup, TheList
    <3>4. p - PrevHeight \in Rounds
      BY <1>3 DEF Rounds, VotTypeOK
    <3>5. signals[p - PrevHeight] = Len(s)
            + (IF p - PrevHeight = 0 THEN Cardinality(refused) ELSE 0)
      BY <3>3 DEF VotesCounted
    <3>6. Len(s) \in Nat
      OBVIOUS
    <3>7. signals'[p - PrevHeight] = Len(s)
            + (IF p - PrevHeight = 0 THEN Cardinality(refused') ELSE 0)
      <4>1. CASE p - PrevHeight = 0
        BY <1>7, <1>8, <1>9, <3>5, <3>6, <4>1
      <4>2. CASE p - PrevHeight # 0
        BY <1>9, <3>4, <3>5, <3>6, <4>2
      <4> QED BY <4>1, <4>2
    <3> QED BY <3>3, <3>7
  <2>2. v.dec.HashID[1] < PrevHeight
    BY <1>2, <1>4 DEF ListHash
  <2> QED BY <1>6, <2>1, <2>2 DEF VotesCounted
<1>15. VotTypeOK'
  BY <1>6, <1>9 DEF VotTypeOK
<1> QED
  BY <1>10, <1>11, <1>12, <1>13, <1>14, <1>15

LEMMA EpochStep ==
  ASSUME VotInv, NextEpoch
  PROVE  VotInv'
<1> USE DEF VotInv
<1>1. /\ readySize' = readySize /\ lists' = lists /\ votes' = votes
      /\ TLRound - PrevHeight = ListsPerEpoch
      /\ PrevHeight' = PrevHeight + Gap /\ TLRound' = TLRound + 3
      /\ Now' = << >> /\ TLIndex' = << >> /\ tlCheck' = [m \in Voters |-> {}]
      /\ signals' = [x \in Rounds |-> 0] /\ refused' = {}
  BY DEF NextEpoch
<1>2. /\ readySize \in Nat /\ TLRound \in Nat /\ PrevHeight \in Nat
      /\ ListsPerEpoch \in Nat \ {0}
  BY VotesAssumption DEF Numbers
<1>3. PrevHeight' = TLRound + 3
  BY <1>1, <1>2 DEF Gap
<1>4. DOMAIN TLIndex' = {}
  BY <1>1
<1>5. Numbers' /\ NowOfRound' /\ IndexOfRounds'
  BY <1>1, <1>2, <1>3, <1>4 DEF Numbers, NowOfRound, IndexOfRounds
<1>6. ListsFound'
  <2> SUFFICES ASSUME NEW x \in lists
               PROVE  \E q \in 0..(TLRound' - 1) : x = TheList(q) /\
                        (q >= PrevHeight' => ListHash(q, readySize) \in DOMAIN TLIndex')
    BY <1>1, SameSize DEF ListsFound
  <2>1. PICK q \in 0..(TLRound - 1) : x = TheList(q)
    BY DEF ListsFound
  <2> QED BY <1>1, <1>2, <1>3, <2>1
<1>7. VotesOfLists'
  BY <1>1, SameSize DEF VotesOfLists
<1>8. RefusedOnce' /\ Unsignalled' /\ VotesCounted'
  BY <1>1, <1>4, FS_EmptySet DEF RefusedOnce, Unsignalled, VotesCounted
<1>9. VotTypeOK'
  BY <1>1, <1>2, <1>3, <1>4 DEF VotTypeOK
<1> QED
  BY <1>5, <1>6, <1>7, <1>8, <1>9

LEMMA VotStep == VotInv /\ [VotNext]_votVars => VotInv'
<1> SUFFICES ASSUME VotInv, [VotNext]_votVars PROVE VotInv'
  OBVIOUS
<1>1. CASE FirstTxList
  BY <1>1, FirstStep
<1>2. CASE TxListProcess
  BY <1>2, ListStep
<1>3. CASE \E m \in Voters, l \in lists, k \in 1..Copies : HandleTxList(m, l, k)
  BY <1>3, VoteStep
<1>4. CASE \E v \in votes : HandleTxDecLeader(v)
  BY <1>4, TakenStep, LateStep
<1>5. CASE NextEpoch
  BY <1>5, EpochStep
<1>6. CASE UNCHANGED votVars
  <2>1. TLGroup(TLRound)' = TLGroup(TLRound)
    BY <1>6 DEF TLGroup, votVars
  <2> USE DEF votVars
  <2>2. readySize' = readySize
    BY <1>6
  <2>3. Numbers' /\ NowOfRound' /\ RefusedOnce' /\ VotTypeOK'
    BY <1>6, <2>1 DEF VotInv, Numbers, NowOfRound, RefusedOnce, VotTypeOK
  <2>4. ListsFound'
    BY <1>6, <2>2, SameSize DEF VotInv, ListsFound, ListHash
  <2>6. IndexOfRounds'
    BY <1>6, <2>2, SameSize DEF VotInv, IndexOfRounds, ListHash
  <2>5. VotesOfLists' /\ Unsignalled' /\ VotesCounted'
    BY <1>6, <2>2, SameSize DEF VotInv, VotesOfLists, Unsignalled, VotesCounted
  <2> QED BY <2>3, <2>4, <2>5, <2>6 DEF VotInv
<1> QED
  BY <1>1, <1>2, <1>3, <1>4, <1>5, <1>6 DEF VotNext

THEOREM VotesInvariant == VotSpec => []VotInv
<1> QED BY VotInitial, VotStep, PTL DEF VotSpec

\* The signals of a round stand for the votes in the decision set of its list,
\* however often and however late votes come (HandleTxDecLeader).
THEOREM VotesAreCounted == VotSpec => []VotesCounted
<1>1. VotInv => VotesCounted
  BY DEF VotInv
<1> QED BY <1>1, VotesInvariant, PTL

LEMMA InvReadable == VotInv => VotesReadable
<1> SUFFICES ASSUME VotInv PROVE VotesReadable
  OBVIOUS
<1> DEFINE n == readySize
<1>1. n \in Nat /\ n <= Len(Ones(n)) * DecBits
  BY OnesFit DEF VotInv, Numbers
<1>2. \A i \in 0..(n - 1) : BitOf(Ones(n), i) = 1
  BY <1>1, OnesRead
<1>3. ASSUME NEW v \in votes
      PROVE  PreTxDecision(Decoded(v.dec), Decoded(v.dec).HashID)
             /\ SaysYes(Decoded(v.dec), Decoded(v.dec).TxCnt)
  <2>1. PICK m \in Voters, r \in Nat : v.dec = TheVote(m, r)
    BY DEF VotInv, VotesOfLists
  <2> DEFINE d == TheVote(m, r)
  <2>2. Decoded(v.dec) = d
    BY <2>1, SentAsMade
  <2>3. PreTxDecision(d, d.HashID)
    BY <1>1, ZeroOnly DEF PreTxDecision, TheVote, Yeses, Verifies, Signature, SigOf
  <2>4. SaysYes(d, d.TxCnt)
    BY <1>2 DEF SaysYes, TheVote, Yeses
  <2> QED BY <2>2, <2>3, <2>4
<1>4. ASSUME NEW h \in DOMAIN TLIndex, NEW k \in DOMAIN TLIndex[h].TDS[Here].MemD
      PROVE  LET s == TLIndex[h].TDS[Here] IN
               /\ PreTxDecision(Decoded(s.MemD[k]), s.HashID)
               /\ SaysYes(s.MemD[k], TLIndex[h].TLS[Here].TxCnt)
  <2>1. PICK r \in PrevHeight..(TLRound - 1) : \E made \in Seq(MadeFor(r)) :
               h = ListHash(r, readySize) /\ TLIndex[h] = TheGroup(r, made)
    BY DEF VotInv, IndexOfRounds
  <2>2. PICK made \in Seq(MadeFor(r)) : TLIndex[h] = TheGroup(r, made)
    BY <2>1
  <2>3. /\ TLIndex[h].TDS[Here].MemD = made
        /\ TLIndex[h].TDS[Here].HashID = ListHash(r, n)
        /\ TLIndex[h].TLS[Here].TxCnt = n
    BY <2>2, ZeroOnly DEF TheGroup, TheList
  <2>4. PICK m \in Voters : made[k] = MadeAgain(m, r)
    BY <1>4, <2>3 DEF MadeFor
  <2> DEFINE d == MadeAgain(m, r)
  <2>5. PreTxDecision(Decoded(d), ListHash(r, n))
    BY <1>1, ZeroOnly DEF PreTxDecision, Decoded, MadeAgain, Yeses, Verifies,
                          Signature, SigOf
  <2>6. SaysYes(d, n)
    BY <1>2 DEF SaysYes, MadeAgain, Yeses
  <2> QED BY <2>3, <2>4, <2>5, <2>6
<1> QED
  BY <1>3, <1>4 DEF VotesReadable

\* A vote can be read by every member it reaches, in the leader's set as from
\* the miner, and says yes to all the transactions the miner voted for
\* (PreTxDecision, UpdateTXCache, ResultMiner).
THEOREM VotesAreReadable == VotSpec => []VotesReadable
BY InvReadable, VotesInvariant, PTL

\* Type correctness of the votes.
THEOREM VotTypeCorrect == VotSpec => []VotTypeOK
<1>1. VotInv => VotTypeOK
  BY DEF VotInv
<1> QED BY <1>1, VotesInvariant, PTL

----------------------------------------------------------------------------
(***************************************************************************)
(* Shard formation.                                                        *)
(***************************************************************************)

----------------------------------------------------------------------------
(* The order of reputation.                                                *)

\* What every state knows of the table of reputations.
Ranked == rep \in [Members -> Reps] /\ shape \in Shapes

LEMMA MembersAre ==
  /\ IsFiniteSet(Members) /\ Cardinality(Members) \in Nat /\ Last \in Int
  /\ \A k : k \in Members <=> k \in Int /\ 0 <= k /\ k <= Last
<1>1. Cardinality(Members) \in Nat
  BY MemberAssumption, FS_CardinalityType
<1>2. \A k : k \in Members <=> k \in 0..(Cardinality(Members) - 1)
  BY MemberAssumption
<1> QED
  BY <1>1, <1>2, MemberAssumption DEF Last

LEMMA BeforeOrders ==
  ASSUME Ranked, NEW a \in Members, NEW b \in Members, NEW c \in Members
  PROVE  /\ ~Before(a, a)
         /\ ~Before(b, a) /\ ~Before(c, b) => ~Before(c, a)
         /\ ~Before(b, a) => rep[b] <= rep[a]
<1>1. rep \in [Members -> Nat] /\ Address \in [Members -> Nat]
  BY MemberAssumption, RepAssumption DEF Ranked
<1> QED
  BY <1>1 DEF Before

----------------------------------------------------------------------------
(* The loops of SortRep.                                                   *)

LEMMA LeastIs ==
  ASSUME NEW T \in SUBSET Int, NEW l \in Int, \A k \in T : l <= k, T # {}
  PROVE  Min(T) \in T /\ \A k \in T : Min(T) <= k
<1> DEFINE U == {n \in Nat : l + n \in T}
<1>1. U # {}
  <2>1. PICK k \in T : TRUE
    OBVIOUS
  <2>2. k - l \in Nat /\ l + (k - l) = k
    BY <2>1
  <2> QED BY <2>1, <2>2
<1>2. PICK n \in U : \A m \in U : n <= m
  BY <1>1, LeastNumber
<1>3. ASSUME NEW k \in T PROVE l + n <= k
  <2>1. k - l \in Nat /\ l + (k - l) = k
    OBVIOUS
  <2>2. k - l \in U
    BY <2>1
  <2>3. n <= k - l
    BY <1>2, <2>2
  <2> QED BY <2>1, <2>3
<1>4. l + n \in T
  BY <1>2
<1>5. \E x \in T : \A y \in T : x <= y
  BY <1>3, <1>4
<1> QED
  BY <1>5 DEF Min

LEMMA GreatestIs ==
  ASSUME NEW T \in SUBSET Int, NEW r \in Int, \A k \in T : k <= r, T # {}
  PROVE  Max(T) \in T /\ \A k \in T : k <= Max(T)
<1> DEFINE U == {n \in Nat : r - n \in T}
<1>1. U # {}
  <2>1. PICK k \in T : TRUE
    OBVIOUS
  <2>2. r - k \in Nat /\ r - (r - k) = k
    BY <2>1
  <2> QED BY <2>1, <2>2
<1>2. PICK n \in U : \A m \in U : n <= m
  BY <1>1, LeastNumber
<1>3. ASSUME NEW k \in T PROVE k <= r - n
  <2>1. r - k \in Nat /\ r - (r - k) = k
    OBVIOUS
  <2>2. r - k \in U
    BY <2>1
  <2>3. n <= r - k
    BY <1>2, <2>2
  <2> QED BY <2>1, <2>3
<1>4. r - n \in T
  BY <1>2
<1>5. \E x \in T : \A y \in T : x >= y
  <2>1. \A y \in T : r - n >= y
    BY <1>3
  <2> QED BY <1>4, <2>1
<1> QED
  BY <1>5 DEF Max

LEMMA UpType ==
  ASSUME NEW a, NEW x, NEW i \in Int, NEW r \in Int
  PROVE  /\ Up(a, x, i, r) \in Int /\ i <= Up(a, x, i, r)
         /\ i <= r => Up(a, x, i, r) <= r
         /\ i <= r => \A k \in i..(Up(a, x, i, r) - 1) : Before(a[k], x)
<1>1. CASE i >= r
  BY <1>1 DEF Up
<1>2. CASE i < r
  <2> DEFINE T == {k \in i..r : k = r \/ ~Before(a[k], x)}
  <2>1. T \in SUBSET Int /\ r \in T /\ \A k \in T : i <= k
    BY <1>2
  <2>2. Up(a, x, i, r) = Min(T)
    BY <1>2 DEF Up
  <2>3. Min(T) \in T /\ \A k \in T : Min(T) <= k
    <3> HIDE DEF T
    <3> QED BY <2>1, LeastIs
  <2>4. Min(T) \in i..r
    BY <2>3
  <2>5. ASSUME NEW k \in i..(Min(T) - 1) PROVE Before(a[k], x)
    <3>1. ~(Min(T) <= k) /\ k \in i..r
      BY <2>4
    <3>2. k \notin T
      BY <2>3, <3>1
    <3> QED BY <3>1, <3>2
  <2> QED BY <2>2, <2>4, <2>5
<1> QED
  BY <1>1, <1>2

\* It stops where it should if there is an element to stop at.
LEMMA UpStops ==
  ASSUME NEW a, NEW x, NEW i \in Int, NEW r \in Int, i < r,
         NEW w \in i..r, ~Before(a[w], x)
  PROVE  Up(a, x, i, r) <= w /\ ~Before(a[Up(a, x, i, r)], x)
<1> DEFINE T == {k \in i..r : k = r \/ ~Before(a[k], x)}
<1>1. T \in SUBSET Int /\ w \in T /\ \A k \in T : i <= k
  OBVIOUS
<1>2. Up(a, x, i, r) = Min(T)
  BY DEF Up
<1>3. Min(T) \in T /\ \A k \in T : Min(T) <= k
  <2> HIDE DEF T
  <2> QED BY <1>1, LeastIs
<1>4. Min(T) <= w /\ Min(T) \in i..r
  BY <1>1, <1>3
<1>5. ~Before(a[Min(T)], x)
  <2>1. CASE Min(T) = r
    BY <1>4, <2>1
  <2>2. CASE Min(T) # r
    BY <1>3, <2>2
  <2> QED BY <2>1, <2>2
<1> QED
  BY <1>2, <1>4, <1>5

LEMMA DownType ==
  ASSUME NEW a, NEW x, NEW j \in Int
  PROVE  /\ Down(a, x, j) \in Int /\ Down(a, x, j) <= j
         /\ 0 <= j => 0 <= Down(a, x, j)
         /\ 0 <= j => \A k \in (Down(a, x, j) + 1)..j : Before(x, a[k])
<1>1. CASE j <= 0
  BY <1>1 DEF Down
<1>2. CASE j > 0
  <2> DEFINE T == {k \in 0..j : k = 0 \/ ~Before(x, a[k])}
  <2>1. T \in SUBSET Int /\ 0 \in T /\ \A k \in T : k <= j
    BY <1>2
  <2>2. Down(a, x, j) = Max(T)
    BY <1>2 DEF Down
  <2>3. Max(T) \in T /\ \A k \in T : k <= Max(T)
    <3> HIDE DEF T
    <3> QED BY <2>1, GreatestIs
  <2>4. Max(T) \in 0..j
    BY <2>3
  <2>5. ASSUME NEW k \in (Max(T) + 1)..j PROVE Before(x, a[k])
    <3>1. ~(k <= Max(T)) /\ k \in 0..j
      BY <2>4
    <3>2. k \notin T
      BY <2>3, <3>1
    <3> QED BY <3>1, <3>2
  <2> QED BY <2>2, <2>4, <2>5
<1> QED
  BY <1>1, <1>2

LEMMA DownStops ==
  ASSUME NEW a, NEW x, NEW j \in Int, j > 0,
         NEW w \in 0..j, ~Before(x, a[w])
  PROVE  w <= Down(a, x, j) /\ ~Before(x, a[Down(a, x, j)])
<1> DEFINE T == {k \in 0..j : k = 0 \/ ~Before(x, a[k])}
<1>1. T \in SUBSET Int /\ w \in T /\ \A k \in T : k <= j
  OBVIOUS
<1>2. Down(a, x, j) = Max(T)
  BY DEF Down
<1>3. Max(T) \in T /\ \A k \in T : k <= Max(T)
  <2> HIDE DEF T
  <2> QED BY <1>1, GreatestIs
<1>4. w <= Max(T) /\ Max(T) \in 0..j
  BY <1>1, <1>3
<1>5. ~Before(x, a[Max(T)])
  <2>1. CASE Max(T) = 0
    BY <1>4, <2>1
  <2>2. CASE Max(T) # 0
    BY <1>3, <2>2
  <2> QED BY <2>1, <2>2
<1> QED
  BY <1>2, <1>4, <1>5

----------------------------------------------------------------------------
(* Exchange.                                                               *)

Passes(l, r) == [a : Orders, i : l..r + 1, j : -1..r]

Pass(x, r, s, f) ==
  LET u == Up(s.a, x, s.i, r)
      d == Down(s.a, x, s.j)
  IN  IF s.i > s.j THEN s
      ELSE IF u > d THEN [a |-> s.a, i |-> u, j |-> d]
      ELSE f[[a |-> Swap(s.a, u, d), i |-> u + 1, j |-> d - 1]]

PassedBy(f, x, l, r) == f = [s \in Passes(l, r) |-> Pass(x, r, s, f)]

LEMMA ExchangeIsChosen ==
  ASSUME NEW order, NEW x, NEW l, NEW r
  PROVE  Exchange(order, x, l, r)
           = (CHOOSE f : PassedBy(f, x, l, r))[[a |-> order, i |-> l, j |-> r]]
BY DEF Exchange, PassedBy, Pass, Passes

LEMMA SwapType ==
  ASSUME NEW a \in Orders, NEW u \in Members, NEW d \in Members
  PROVE  /\ Swap(a, u, d) \in Orders
         /\ Swap(a, u, d)[u] = a[d] /\ Swap(a, u, d)[d] = a[u]
         /\ \A k \in Members : k # u /\ k # d => Swap(a, u, d)[k] = a[k]
BY DEF Swap, Orders

\* Where a pass goes on.
LEMMA PassType ==
  ASSUME NEW x, NEW l \in Members, NEW r \in Members, NEW s \in Passes(l, r),
         s.i <= s.j
  PROVE  LET u == Up(s.a, x, s.i, r)
             d == Down(s.a, x, s.j)
         IN  /\ u \in s.i..r /\ d \in 0..s.j
             /\ u > d => [a |-> s.a, i |-> u, j |-> d] \in Passes(l, r)
             /\ u <= d =>
                  /\ u \in Members /\ d \in Members
                  /\ [a |-> Swap(s.a, u, d), i |-> u + 1, j |-> d - 1] \in Passes(l, r)
<1> DEFINE u == Up(s.a, x, s.i, r)
           d == Down(s.a, x, s.j)
<1>1. /\ l \in Int /\ 0 <= l /\ r \in Int /\ r <= Last
      /\ s.i \in l..r + 1 /\ s.j \in -1..r /\ s.a \in Orders
  BY MembersAre DEF Passes
<1>2. u \in s.i..r
  BY <1>1, UpType
<1>3. d \in 0..s.j
  BY <1>1, DownType
<1> HIDE DEF u, d
<1>4. u > d => [a |-> s.a, i |-> u, j |-> d] \in Passes(l, r)
  BY <1>1, <1>2, <1>3 DEF Passes
<1>5. u <= d => u \in Members /\ d \in Members
  BY <1>1, <1>2, <1>3, MembersAre
<1>6. u <= d => [a |-> Swap(s.a, u, d), i |-> u + 1, j |-> d - 1] \in Passes(l, r)
  <2> SUFFICES ASSUME u <= d
               PROVE  [a |-> Swap(s.a, u, d), i |-> u + 1, j |-> d - 1] \in Passes(l, r)
    OBVIOUS
  <2>1. Swap(s.a, u, d) \in Orders
    BY <1>1, <1>5, SwapType
  <2>2. u + 1 \in l..r + 1 /\ d - 1 \in -1..r
    BY <1>1, <1>2, <1>3
  <2> QED BY <2>1, <2>2 DEF Passes
<1> QED
  BY <1>2, <1>3, <1>4, <1>5, <1>6 DEF u, d

LEMMA PassesExist ==
  ASSUME NEW x, NEW l \in Members, NEW r \in Members, l < r
  PROVE  PassedBy(CHOOSE f : PassedBy(f, x, l, r), x, l, r)
<1> DEFINE X == Passes(l, r)
           G == [p \in X \X [X -> X] |-> Pass(x, r, p[1], p[2])]
           mu == [s \in X |-> IF s.i > s.j THEN 0 ELSE s.j - s.i + 1]
<1>1. \A s \in X, f \in [X -> X] : G[<<s, f>>] = Pass(x, r, s, f)
  OBVIOUS
<1>2. \A s \in X : s.i \in Int /\ s.j \in Int
  BY MembersAre DEF Passes
<1>3. mu \in [X -> Nat]
  BY <1>2
<1>4. \A s \in X : mu[s] = IF s.i > s.j THEN 0 ELSE s.j - s.i + 1
  OBVIOUS
<1>5. ASSUME NEW s \in X, NEW f \in [X -> X] PROVE Pass(x, r, s, f) \in X
  <2>1. CASE s.i > s.j
    BY <2>1 DEF Pass
  <2>2. CASE s.i <= s.j
    <3> DEFINE u == Up(s.a, x, s.i, r)
               d == Down(s.a, x, s.j)
               t == [a |-> Swap(s.a, u, d), i |-> u + 1, j |-> d - 1]
    <3>1. /\ u \in s.i..r /\ d \in 0..s.j
          /\ u > d => [a |-> s.a, i |-> u, j |-> d] \in X
          /\ u <= d => t \in X
      BY <2>2, PassType
    <3>2. Pass(x, r, s, f) = IF s.i > s.j THEN s
                             ELSE IF u > d THEN [a |-> s.a, i |-> u, j |-> d]
                             ELSE f[t]
      BY DEF Pass
    <3>3. u \in Int /\ d \in Int
      BY <1>2, <3>1, MembersAre
    <3> HIDE DEF u, d, t, X
    <3> QED BY <1>2, <2>2, <3>1, <3>2, <3>3
  <2> QED BY <1>2, <2>1, <2>2
<1>6. G \in [X \X [X -> X] -> X]
  <2> HIDE DEF X
  <2> QED BY <1>5
<1> HIDE DEF G, mu
<1>7. LooksBelow(G, X, X, mu)
  <2> SUFFICES ASSUME NEW s \in X, NEW f \in [X -> X], NEW g \in [X -> X],
                      \A y \in X : mu[y] < mu[s] => f[y] = g[y]
               PROVE  G[<<s, f>>] = G[<<s, g>>]
    BY DEF LooksBelow
  <2> DEFINE u == Up(s.a, x, s.i, r)
             d == Down(s.a, x, s.j)
             t == [a |-> Swap(s.a, u, d), i |-> u + 1, j |-> d - 1]
  <2>1. /\ Pass(x, r, s, f) = IF s.i > s.j THEN s
                             ELSE IF u > d THEN [a |-> s.a, i |-> u, j |-> d]
                             ELSE f[t]
        /\ Pass(x, r, s, g) = IF s.i > s.j THEN s
                             ELSE IF u > d THEN [a |-> s.a, i |-> u, j |-> d]
                             ELSE g[t]
    BY DEF Pass
  <2>2. ASSUME ~(s.i > s.j), ~(u > d) PROVE f[t] = g[t]
    <3>1. s.i <= s.j
      BY <1>2, <2>2
    <3>2. u \in s.i..r /\ d \in 0..s.j /\ (u <= d => t \in X)
      BY <3>1, PassType
    <3>3. t.i = u + 1 /\ t.j = d - 1
      OBVIOUS
    <3>4. u \in Int /\ d \in Int /\ u <= d
      BY <1>2, <2>2, <3>2, MembersAre
    <3> HIDE DEF t, u, d, X
    <3>5. t \in X
      BY <3>2, <3>4
    <3>6. mu[t] < mu[s]
      BY <1>2, <1>4, <3>1, <3>2, <3>3, <3>4, <3>5
    <3> QED BY <3>5, <3>6
  <2> HIDE DEF X, u, d, t
  <2> QED BY <1>1, <2>1, <2>2
<1>8. \E f \in [X -> X] : Obeys(f, G, X)
  <2>1. X # {}
    <3>1. [k \in Members |-> k] \in Orders
      BY DEF Orders
    <3>2. [a |-> [k \in Members |-> k], i |-> r + 1, j |-> r] \in X
      <4>1. r + 1 \in l..r + 1 /\ r \in -1..r
        BY MembersAre
      <4> QED BY <3>1, <4>1 DEF Passes
    <3> QED BY <3>2
  <2> HIDE DEF X
  <2> QED BY <1>3, <1>6, <1>7, <2>1, Recursion, Zenon
<1>9. PICK f \in [X -> X] : Obeys(f, G, X)
  BY <1>8
<1>10. PassedBy(f, x, l, r)
  <2>1. \A s \in X : f[s] = Pass(x, r, s, f)
    BY <1>1, <1>9 DEF Obeys
  <2>2. f = [s \in X |-> f[s]]
    BY <1>9
  <2>3. f = [s \in X |-> Pass(x, r, s, f)]
    <3> HIDE DEF X
    <3> QED BY <2>1, <2>2
  <2> QED BY <2>3 DEF PassedBy
<1> QED
  BY <1>10

\* b has the members that a has from l to r in another order.
Rearranges(a, b, l, r) ==
  /\ b \in Orders
  /\ \A k \in Members : k \notin l..r => b[k] = a[k]
  /\ \A k \in l..r : \E m \in l..r : b[k] = a[m]
  /\ IsInjective(a) => IsInjective(b)

\* What the passes keep: the first ones are not behind x, the last ones not
\* before x, and either there has been no exchange and x is among them, or
\* there are first and last ones.
Parting(s, a, x, l, r) ==
  /\ Rearranges(a, s.a, l, r)
  /\ \A k \in l..(s.i - 1) : ~Before(x, s.a[k])
  /\ \A k \in (s.j + 1)..r : ~Before(s.a[k], x)
  /\ \/ s.i = l /\ s.j = r /\ \E k \in l..r : s.a[k] = x
     \/ s.i > l /\ s.j < r

\* What they end with.
Parted(p, a, x, l, r) ==
  /\ Rearranges(a, p.a, l, r)
  /\ p.i \in l + 1..r + 1 /\ p.j \in -1..r - 1 /\ p.j < p.i
  /\ \A k \in l..(p.i - 1) : ~Before(x, p.a[k])
  /\ \A k \in (p.j + 1)..r : ~Before(p.a[k], x)

LEMMA InRange ==
  ASSUME NEW l \in Members, NEW r \in Members, NEW k \in l..r
  PROVE  k \in Members /\ k \in Int
BY MembersAre

LEMMA NoneRearranged ==
  ASSUME NEW a \in Orders, NEW l \in Members, NEW r \in Members
  PROVE  Rearranges(a, a, l, r)
BY DEF Rearranges

LEMMA RearrangedAgain ==
  ASSUME NEW a \in Orders, NEW b, NEW c, NEW l \in Members, NEW r \in Members,
         Rearranges(a, b, l, r), Rearranges(b, c, l, r)
  PROVE  Rearranges(a, c, l, r)
<1>1. \A k \in l..r : \E m \in l..r : c[k] = a[m]
  <2> SUFFICES ASSUME NEW k \in l..r PROVE \E m \in l..r : c[k] = a[m]
    OBVIOUS
  <2>1. PICK n \in l..r : c[k] = b[n]
    BY DEF Rearranges
  <2>2. PICK m \in l..r : b[n] = a[m]
    BY DEF Rearranges
  <2> QED BY <2>1, <2>2
<1>2. \A k \in Members : k \notin l..r => c[k] = a[k]
  BY DEF Rearranges
<1> QED
  BY <1>1, <1>2 DEF Rearranges

LEMMA SwapRearranges ==
  ASSUME NEW a \in Orders, NEW l \in Members, NEW r \in Members,
         NEW u \in l..r, NEW d \in l..r
  PROVE  Rearranges(a, Swap(a, u, d), l, r)
<1> DEFINE b == Swap(a, u, d)
<1>1. u \in Members /\ d \in Members
  BY InRange
<1>2. /\ b \in Orders /\ b[u] = a[d] /\ b[d] = a[u]
      /\ \A k \in Members : k # u /\ k # d => b[k] = a[k]
  BY <1>1, SwapType
<1> HIDE DEF b
<1>3. \A k \in Members : k \notin l..r => b[k] = a[k]
  BY <1>2
<1>4. \A k \in l..r : \E m \in l..r : b[k] = a[m]
  <2> SUFFICES ASSUME NEW k \in l..r PROVE \E m \in l..r : b[k] = a[m]
    OBVIOUS
  <2>1. k \in Members
    BY InRange
  <2> QED BY <1>2, <2>1
<1>5. IsInjective(a) => IsInjective(b)
  BY <1>1, <1>2 DEF IsInjective, Orders
<1> QED
  BY <1>2, <1>3, <1>4, <1>5 DEF Rearranges, b

\* A pass stops at elements that belong on the other side of x.
LEMMA PassStops ==
  ASSUME Ranked, NEW a \in Orders, NEW x \in Members,
         NEW l \in Members, NEW r \in Members, l < r,
         NEW s \in Passes(l, r), Parting(s, a, x, l, r), s.i <= s.j
  PROVE  LET u == Up(s.a, x, s.i, r)
             d == Down(s.a, x, s.j)
         IN  /\ ~Before(s.a[u], x) /\ ~Before(x, s.a[d])
             /\ \A k \in s.i..(u - 1) : ~Before(x, s.a[k])
             /\ \A k \in (d + 1)..s.j : ~Before(s.a[k], x)
             /\ (l <= d /\ u > l) \/ (s.i = l /\ s.j = r /\ u <= d)
<1> DEFINE u == Up(s.a, x, s.i, r)
           d == Down(s.a, x, s.j)
<1>1. /\ l \in Int /\ 0 <= l /\ r \in Int /\ r <= Last
      /\ s.i \in l..r + 1 /\ s.j \in -1..r /\ s.a \in Orders
  BY MembersAre DEF Passes
<1>2. \A k \in Members : s.a[k] \in Members
  BY <1>1 DEF Orders
<1>3. \A k \in Members : (Before(s.a[k], x) => ~Before(x, s.a[k]))
                         /\ (Before(x, s.a[k]) => ~Before(s.a[k], x))
  <2>1. rep \in [Members -> Nat] /\ Address \in [Members -> Nat]
    BY MemberAssumption, RepAssumption DEF Ranked
  <2> QED BY <1>2, <2>1 DEF Before
<1>4. u \in s.i..r /\ d \in 0..s.j
  BY PassType
<1>5. \A k \in s.i..(u - 1) : Before(s.a[k], x)
  BY <1>1, UpType
<1>6. \A k \in (d + 1)..s.j : Before(x, s.a[k])
  BY <1>1, DownType
<1>7. \A k \in s.i..(u - 1) : ~Before(x, s.a[k])
  <2> HIDE DEF u, d
  <2> QED BY <1>1, <1>3, <1>4, <1>5, MembersAre
<1>8. \A k \in (d + 1)..s.j : ~Before(s.a[k], x)
  <2> HIDE DEF u, d
  <2> QED BY <1>1, <1>3, <1>4, <1>6, MembersAre
<1>9. CASE s.i = l /\ s.j = r /\ \E k \in l..r : s.a[k] = x
  <2>1. PICK k \in l..r : s.a[k] = x
    BY <1>9
  <2>2. ~Before(s.a[k], x) /\ ~Before(x, s.a[k])
    BY <2>1, BeforeOrders
  <2>3. u <= k /\ ~Before(s.a[u], x)
    BY <1>1, <1>9, <2>2, UpStops
  <2>4. k <= d /\ ~Before(x, s.a[d])
    <3>1. k \in 0..s.j /\ s.j > 0
      BY <1>1, <1>9
    <3> QED BY <1>1, <2>2, <3>1, DownStops
  <2>5. u <= d
    <3> HIDE DEF u, d
    <3> QED BY <1>1, <1>4, <2>3, <2>4
  <2> QED BY <1>7, <1>8, <1>9, <2>3, <2>4, <2>5
<1>10. CASE s.i > l /\ s.j < r
  <2>1. s.j + 1 \in s.i..r /\ s.i < r /\ s.j + 1 \in (s.j + 1)..r
    BY <1>1, <1>10
  <2>2. ~Before(s.a[s.j + 1], x)
    BY <2>1 DEF Parting
  <2>3. ~Before(s.a[u], x)
    BY <1>1, <2>1, <2>2, UpStops
  <2>4. s.i - 1 \in 0..s.j /\ s.j > 0 /\ s.i - 1 \in l..(s.i - 1)
    BY <1>1, <1>10
  <2>5. ~Before(x, s.a[s.i - 1])
    BY <2>4 DEF Parting
  <2>6. s.i - 1 <= d /\ ~Before(x, s.a[d])
    BY <1>1, <2>4, <2>5, DownStops
  <2>7. l <= d /\ u > l
    <3> HIDE DEF u, d
    <3> QED BY <1>1, <1>4, <1>10, <2>6
  <2> QED BY <1>7, <1>8, <2>3, <2>6, <2>7
<1> QED
  BY <1>9, <1>10 DEF Parting

LEMMA PassParts ==
  ASSUME Ranked, NEW a \in Orders, NEW x \in Members,
         NEW l \in Members, NEW r \in Members, l < r,
         NEW s \in Passes(l, r), Parting(s, a, x, l, r), s.i <= s.j
  PROVE  LET u == Up(s.a, x, s.i, r)
             d == Down(s.a, x, s.j)
         IN  /\ u > d => Parted([a |-> s.a, i |-> u, j |-> d], a, x, l, r)
             /\ u <= d => Parting([a |-> Swap(s.a, u, d), i |-> u + 1, j |-> d - 1],
                                  a, x, l, r)
<1> DEFINE u == Up(s.a, x, s.i, r)
           d == Down(s.a, x, s.j)
<1>1. /\ l \in Int /\ 0 <= l /\ r \in Int /\ r <= Last
      /\ s.i \in l..r + 1 /\ s.j \in -1..r /\ s.a \in Orders
  BY MembersAre DEF Passes
<1>2. u \in s.i..r /\ d \in 0..s.j
  BY PassType
<1>3. /\ ~Before(s.a[u], x) /\ ~Before(x, s.a[d])
      /\ \A k \in s.i..(u - 1) : ~Before(x, s.a[k])
      /\ \A k \in (d + 1)..s.j : ~Before(s.a[k], x)
      /\ (l <= d /\ u > l) \/ (s.i = l /\ s.j = r /\ u <= d)
  BY PassStops
<1> HIDE DEF u, d
<1>4. \A k \in l..(u - 1) : ~Before(x, s.a[k])
  BY <1>1, <1>2, <1>3 DEF Parting
<1>5. \A k \in (d + 1)..r : ~Before(s.a[k], x)
  BY <1>1, <1>2, <1>3 DEF Parting
<1>6. Rearranges(a, s.a, l, r)
  BY DEF Parting
<1>7. ASSUME u > d
      PROVE  Parted([a |-> s.a, i |-> u, j |-> d], a, x, l, r)
  <2>1. l <= d /\ u > l /\ d < r
    BY <1>1, <1>2, <1>3, <1>7
  <2> QED BY <1>1, <1>2, <1>4, <1>5, <1>6, <1>7, <2>1 DEF Parted
<1>8. ASSUME u <= d
      PROVE  Parting([a |-> Swap(s.a, u, d), i |-> u + 1, j |-> d - 1], a, x, l, r)
  <2> DEFINE b == Swap(s.a, u, d)
  <2>1. u \in l..r /\ d \in l..r
    BY <1>1, <1>2, <1>8
  <2>2. u \in Members /\ d \in Members
    BY <2>1, InRange
  <2>3. /\ b \in Orders /\ b[u] = s.a[d] /\ b[d] = s.a[u]
        /\ \A k \in Members : k # u /\ k # d => b[k] = s.a[k]
    <3> DEFINE c == s.a
    <3>1. c \in Orders
      BY <1>1
    <3> HIDE DEF c
    <3>2. /\ Swap(c, u, d) \in Orders
          /\ Swap(c, u, d)[u] = c[d] /\ Swap(c, u, d)[d] = c[u]
          /\ \A k \in Members : k # u /\ k # d => Swap(c, u, d)[k] = c[k]
      BY <2>2, <3>1, SwapType
    <3> QED BY <3>2 DEF c
  <2>4. Rearranges(a, b, l, r)
    BY <1>1, <1>6, <2>1, SwapRearranges, RearrangedAgain
  <2> HIDE DEF b
  <2>5. ASSUME NEW k \in l..u PROVE ~Before(x, b[k])
    <3>1. CASE k = u
      BY <1>3, <2>3, <3>1
    <3>2. CASE k # u
      <4>1. k \in l..(u - 1) /\ k # d /\ k \in Members
        BY <1>1, <1>2, <1>8, <2>1, <3>2, MembersAre
      <4> QED BY <1>4, <2>3, <3>2, <4>1
    <3> QED BY <3>1, <3>2
  <2>6. ASSUME NEW k \in d..r PROVE ~Before(b[k], x)
    <3>1. CASE k = d
      BY <1>3, <2>3, <3>1
    <3>2. CASE k # d
      <4>1. k \in (d + 1)..r /\ k # u /\ k \in Members
        BY <1>1, <1>2, <1>8, <2>1, <3>2, MembersAre
      <4> QED BY <1>5, <2>3, <3>2, <4>1
    <3> QED BY <3>1, <3>2
  <2>7. u + 1 > l /\ d - 1 < r /\ (u + 1) - 1 = u /\ (d - 1) + 1 = d
    BY <1>1, <1>2, <2>1
  <2>8. Parting([a |-> b, i |-> u + 1, j |-> d - 1], a, x, l, r)
    BY <2>4, <2>5, <2>6, <2>7 DEF Parting
  <2> QED BY <2>8 DEF b
<1> QED
  BY <1>7, <1>8 DEF u, d

\* Exchange splits the members from l to r into those not behind and those
\* not before the one in the middle.
LEMMA ExchangeParts ==
  ASSUME Ranked, NEW a \in Orders, NEW l \in Members, NEW r \in Members, l < r,
         NEW m \in l..r
  PROVE  Parted(Exchange(a, a[m], l, r), a, a[m], l, r)
<1> DEFINE x == a[m]
           X == Passes(l, r)
           f == CHOOSE g : PassedBy(g, x, l, r)
           first == [a |-> a, i |-> l, j |-> r]
           T == {n \in Nat : \A s \in X :
                   Parting(s, a, x, l, r) /\ s.j - s.i + 1 <= n
                     => Parted(f[s], a, x, l, r)}
<1>1. l \in Int /\ 0 <= l /\ r \in Int /\ r <= Last /\ x \in Members
  BY InRange, MembersAre DEF Orders
<1>2. \A s \in X : f[s] = Pass(x, r, s, f)
  <2>1. PassedBy(f, x, l, r)
    BY PassesExist
  <2> HIDE DEF f
  <2> QED BY <2>1 DEF PassedBy
<1>3. \A s \in X : s.i \in l..r + 1 /\ s.j \in -1..r
  BY DEF Passes
<1> HIDE DEF f
<1>4. ASSUME NEW s \in X, Parting(s, a, x, l, r), s.i > s.j
      PROVE  Parted(f[s], a, x, l, r)
  <2>1. f[s] = s
    BY <1>2, <1>4 DEF Pass
  <2>2. s.i > l /\ s.j < r
    BY <1>1, <1>4 DEF Parting
  <2>3. s.i \in l + 1..r + 1 /\ s.j \in -1..r - 1 /\ s.j < s.i
    BY <1>1, <1>3, <1>4, <2>2
  <2>4. Parted(s, a, x, l, r)
    BY <1>4, <2>3 DEF Parting, Parted
  <2> QED BY <2>1, <2>4
<1>5. 0 \in T
  <2>1. \A s \in X : s.j - s.i + 1 <= 0 => s.i > s.j
    BY <1>1, <1>3
  <2> QED BY <1>4, <2>1
<1>6. ASSUME NEW n \in T PROVE n + 1 \in T
  <2>1. ASSUME NEW s \in X, Parting(s, a, x, l, r), s.j - s.i + 1 <= n + 1
        PROVE  Parted(f[s], a, x, l, r)
    <3>1. CASE s.i > s.j
      BY <1>4, <2>1, <3>1
    <3>2. CASE s.i <= s.j
      <4> DEFINE u == Up(s.a, x, s.i, r)
                 d == Down(s.a, x, s.j)
                 end == [a |-> s.a, i |-> u, j |-> d]
                 next == [a |-> Swap(s.a, u, d), i |-> u + 1, j |-> d - 1]
      <4>1. /\ u \in s.i..r /\ d \in 0..s.j
            /\ u <= d => next \in X
        BY <3>2, PassType
      <4>2. /\ u > d => Parted(end, a, x, l, r)
            /\ u <= d => Parting(next, a, x, l, r)
        BY <1>1, <2>1, <3>2, PassParts
      <4>3. f[s] = IF s.i > s.j THEN s ELSE IF u > d THEN end ELSE f[next]
        BY <1>2 DEF Pass
      <4>4. next.j = d - 1 /\ next.i = u + 1
        OBVIOUS
      <4> HIDE DEF X, u, d, end, next
      <4>5. u \in Int /\ d \in Int /\ ~(s.i > s.j)
        BY <1>1, <1>3, <3>2, <4>1
      <4>6. CASE u > d
        BY <4>2, <4>3, <4>5, <4>6
      <4>7. CASE u <= d
        <5>1. next.j - next.i + 1 <= n
          BY <1>1, <1>3, <2>1, <4>1, <4>4, <4>5
        <5>2. next \in X /\ Parting(next, a, x, l, r)
          BY <4>1, <4>2, <4>7
        <5>3. Parted(f[next], a, x, l, r)
          BY <5>1, <5>2
        <5> QED BY <4>3, <4>5, <4>7, <5>3
      <4> QED BY <4>5, <4>6, <4>7
    <3> QED BY <1>1, <1>3, <3>1, <3>2
  <2>2. n + 1 \in Nat
    OBVIOUS
  <2>3. \A s \in X : Parting(s, a, x, l, r) /\ s.j - s.i + 1 <= n + 1
                       => Parted(f[s], a, x, l, r)
    BY <2>1
  <2> QED BY <2>2, <2>3
<1>7. T = Nat
  <2> HIDE DEF T
  <2>1. T \in SUBSET Nat
    BY DEF T
  <2> QED BY <1>5, <1>6, <2>1, NumbersByInduction
<1>8. first \in X /\ Parting(first, a, x, l, r)
  <2>1. first \in X
    BY <1>1 DEF Passes
  <2>2. Parting(first, a, x, l, r)
    BY <1>1, NoneRearranged DEF Parting
  <2> QED BY <2>1, <2>2
<1>9. first.j - first.i + 1 \in Nat
  BY <1>1
<1>10. Parted(f[first], a, x, l, r)
  <2> DEFINE n == first.j - first.i + 1
  <2>1. n \in T
    BY <1>7, <1>9
  <2>2. first.j - first.i + 1 <= n
    BY <1>9
  <2> HIDE DEF X, first, n
  <2> QED BY <1>8, <2>1, <2>2
<1> QED
  BY <1>10, ExchangeIsChosen DEF f

----------------------------------------------------------------------------
(* SortRep.                                                                *)

SortOf(s, f) ==
  IF s.l >= s.r THEN s.a
  ELSE LET p == Exchange(s.a, s.a[(s.l + s.r) \div 2], s.l, s.r)
           right == IF p.i < s.r THEN f[[a |-> p.a, l |-> p.i, r |-> s.r]]
                                 ELSE p.a
       IN  IF s.l < p.j THEN f[[a |-> right, l |-> s.l, r |-> p.j]]
                        ELSE right

SortsBy(f) == f = [s \in Spans |-> SortOf(s, f)]

LEMMA SortRepIsChosen == SortRep = CHOOSE f : SortsBy(f)
BY DEF SortRep, SortsBy, SortOf

\* The parts that are sorted are spans, and smaller.
LEMMA SmallerSpans ==
  ASSUME Ranked, NEW s \in Spans, s.l < s.r
  PROVE  LET m == s.a[(s.l + s.r) \div 2]
             p == Exchange(s.a, m, s.l, s.r)
         IN  /\ Parted(p, s.a, m, s.l, s.r) /\ p.a \in Orders
             /\ m \in Members /\ p.i \in Int /\ p.j \in Int
             /\ p.i < s.r => p.i \in Members /\ s.r - p.i < s.r - s.l
             /\ s.l < p.j => p.j \in Members /\ p.j - s.l < s.r - s.l
<1> DEFINE k == (s.l + s.r) \div 2
           m == s.a[k]
           p == Exchange(s.a, m, s.l, s.r)
<1>1. /\ s.l \in Members /\ s.r \in Members /\ s.a \in Orders
      /\ s.l \in Int /\ 0 <= s.l /\ s.r \in Int /\ s.r <= Last
  BY MembersAre DEF Spans
<1>2. k \in s.l..s.r
  <2> DEFINE l == s.l
             r == s.r
  <2>1. l \in Int /\ r \in Int /\ l < r
    BY <1>1
  <2> HIDE DEF l, r
  <2>2. (l + r) \div 2 \in l..r
    BY <2>1
  <2> QED BY <2>2 DEF l, r
<1>3. Parted(p, s.a, m, s.l, s.r)
  <2> HIDE DEF k
  <2> QED BY <1>1, <1>2, ExchangeParts
<1>4. k \in Members /\ m \in Members
  <2>1. k \in Members
    BY <1>1, <1>2, InRange
  <2> HIDE DEF k
  <2> QED BY <1>1, <2>1 DEF Orders
<1> HIDE DEF p, m
<1>5. p.a \in Orders /\ p.i \in s.l + 1..s.r + 1 /\ p.j \in -1..s.r - 1
  BY <1>3 DEF Parted, Rearranges
<1>6. p.i < s.r => p.i \in Members /\ s.r - p.i < s.r - s.l
  BY <1>1, <1>5, MembersAre
<1>7. s.l < p.j => p.j \in Members /\ p.j - s.l < s.r - s.l
  BY <1>1, <1>5, MembersAre
<1> QED
  BY <1>1, <1>3, <1>4, <1>5, <1>6, <1>7 DEF p, m

LEMMA SortRepObeys ==
  ASSUME Ranked
  PROVE  SortsBy(SortRep)
<1> DEFINE X == Spans
           G == [q \in X \X [X -> Orders] |-> SortOf(q[1], q[2])]
           mu == [s \in X |-> IF s.l >= s.r THEN 0 ELSE s.r - s.l]
<1>1. \A s \in X, f \in [X -> Orders] : G[<<s, f>>] = SortOf(s, f)
  OBVIOUS
<1>2. \A s \in X : s.l \in Int /\ s.r \in Int /\ s.l \in Members /\ s.r \in Members
  BY MembersAre DEF Spans
<1>3. mu \in [X -> Nat]
  BY <1>2
<1>4. \A s \in X : mu[s] = IF s.l >= s.r THEN 0 ELSE s.r - s.l
  OBVIOUS
<1>5. ASSUME NEW s \in X, s.l < s.r, NEW f \in [X -> Orders],
             NEW g \in [X -> Orders], \A y \in X : mu[y] < mu[s] => f[y] = g[y]
      PROVE  SortOf(s, f) = SortOf(s, g) /\ SortOf(s, f) \in Orders
  <2> DEFINE p == Exchange(s.a, s.a[(s.l + s.r) \div 2], s.l, s.r)
             t == [a |-> p.a, l |-> p.i, r |-> s.r]
             right == IF p.i < s.r THEN f[t] ELSE p.a
             v == [a |-> right, l |-> s.l, r |-> p.j]
  <2>1. /\ p.a \in Orders /\ p.i \in Int /\ p.j \in Int
        /\ p.i < s.r => p.i \in Members /\ s.r - p.i < s.r - s.l
        /\ s.l < p.j => p.j \in Members /\ p.j - s.l < s.r - s.l
    BY <1>5, SmallerSpans
  <2> HIDE DEF p
  <2>2. ASSUME p.i < s.r PROVE t \in X /\ mu[t] < mu[s]
    <3>1. t \in X
      BY <1>2, <2>1, <2>2 DEF Spans
    <3>2. t.l = p.i /\ t.r = s.r
      OBVIOUS
    <3> HIDE DEF t, mu, X
    <3> QED BY <1>2, <1>4, <1>5, <2>1, <2>2, <3>1, <3>2
  <2>3. p.i < s.r => f[t] = g[t] /\ f[t] \in Orders
    <3> HIDE DEF t, mu, X
    <3> QED BY <1>5, <2>2
  <2>4. right \in Orders /\ right = IF p.i < s.r THEN g[t] ELSE p.a
    <3> HIDE DEF t, mu, X
    <3> QED BY <2>1, <2>3
  <2> HIDE DEF right
  <2>5. ASSUME s.l < p.j PROVE v \in X /\ mu[v] < mu[s]
    <3>1. v \in X
      BY <1>2, <2>1, <2>4, <2>5 DEF Spans
    <3>2. v.l = s.l /\ v.r = p.j
      OBVIOUS
    <3> HIDE DEF v, mu, X
    <3> QED BY <1>2, <1>4, <1>5, <2>1, <2>5, <3>1, <3>2
  <2>6. s.l < p.j => f[v] = g[v] /\ f[v] \in Orders
    <3> HIDE DEF v, mu, X
    <3> QED BY <1>5, <2>5
  <2>7. ~(s.l >= s.r)
    BY <1>2, <1>5
  <2>8. SortOf(s, f) = IF s.l < p.j THEN f[v] ELSE right
    BY <2>7 DEF SortOf, p, right
  <2>9. SortOf(s, g) = IF s.l < p.j THEN g[v] ELSE right
    <3> DEFINE right2 == IF p.i < s.r THEN g[t] ELSE p.a
    <3>1. SortOf(s, g) = IF s.l < p.j THEN g[[a |-> right2, l |-> s.l, r |-> p.j]]
                                      ELSE right2
      BY <2>7 DEF SortOf, p
    <3>2. right2 = right
      BY <2>4
    <3> HIDE DEF right2
    <3> QED BY <3>1, <3>2
  <2> HIDE DEF v
  <2> QED BY <2>4, <2>6, <2>8, <2>9
<1>6. ASSUME NEW s \in X, ~(s.l < s.r), NEW f PROVE SortOf(s, f) = s.a /\ s.a \in Orders
  <2>1. s.l >= s.r /\ s.a \in Orders
    BY <1>2, <1>6 DEF Spans
  <2> QED BY <2>1 DEF SortOf
<1>7. ASSUME NEW s \in X, NEW f \in [X -> Orders] PROVE SortOf(s, f) \in Orders
  <2> HIDE DEF X, mu
  <2>1. CASE s.l < s.r
    BY <1>5, <2>1
  <2>2. CASE ~(s.l < s.r)
    BY <1>6, <2>2
  <2> QED BY <2>1, <2>2
<1>8. G \in [X \X [X -> Orders] -> Orders]
  <2> HIDE DEF X
  <2> QED BY <1>7
<1> HIDE DEF G, mu
<1>9. LooksBelow(G, X, Orders, mu)
  <2> SUFFICES ASSUME NEW s \in X, NEW f \in [X -> Orders], NEW g \in [X -> Orders],
                      \A y \in X : mu[y] < mu[s] => f[y] = g[y]
               PROVE  SortOf(s, f) = SortOf(s, g)
    <3> HIDE DEF X
    <3> QED BY <1>1 DEF LooksBelow
  <2> HIDE DEF X
  <2>1. CASE s.l < s.r
    BY <1>5, <2>1
  <2>2. CASE ~(s.l < s.r)
    BY <1>6, <2>2
  <2> QED BY <2>1, <2>2
<1>10. PICK f \in [X -> Orders] : Obeys(f, G, X)
  <2>1. Orders # {}
    <3>1. [k \in Members |-> k] \in Orders
      BY DEF Orders
    <3> QED BY <3>1
  <2> HIDE DEF X
  <2> QED BY <1>3, <1>8, <1>9, <2>1, Recursion, Zenon
<1>11. SortsBy(f)
  <2> HIDE DEF X
  <2>1. \A s \in X : f[s] = SortOf(s, f)
    BY <1>1, <1>10 DEF Obeys
  <2>2. f = [s \in X |-> SortOf(s, f)]
    BY <1>10, <2>1
  <2> QED BY <2>2 DEF SortsBy, X
<1> QED
  BY <1>11, SortRepIsChosen

SortedIn(b, l, r) == \A k, m \in l..r : k < m => ~Before(b[m], b[k])

LEMMA RearrangedWider ==
  ASSUME NEW a \in Orders, NEW b, NEW l \in Int, NEW r \in Int,
         NEW i \in Int, NEW j \in Int, l <= i, j <= r, Rearranges(a, b, i, j),
         \A k \in l..r : k \in Members
  PROVE  Rearranges(a, b, l, r)
<1>1. \A k \in i..j : k \in l..r
  OBVIOUS
<1>2. \A k \in l..r : \E m \in l..r : b[k] = a[m]
  <2> SUFFICES ASSUME NEW k \in l..r PROVE \E m \in l..r : b[k] = a[m]
    OBVIOUS
  <2>1. CASE k \in i..j
    BY <1>1, <2>1 DEF Rearranges
  <2>2. CASE k \notin i..j
    BY <2>2 DEF Rearranges
  <2> QED BY <2>1, <2>2
<1> QED
  BY <1>1, <1>2 DEF Rearranges

\* Two sorted parts are sorted together.
LEMMA SortedTogether ==
  ASSUME Ranked, NEW a \in Orders, NEW l \in Members, NEW r \in Members, l < r,
         NEW x \in Members, NEW p, Parted(p, a, x, l, r),
         NEW b, Rearranges(p.a, b, p.i, r), SortedIn(b, p.i, r),
         NEW c, Rearranges(b, c, l, p.j), SortedIn(c, l, p.j)
  PROVE  Rearranges(a, c, l, r) /\ SortedIn(c, l, r)
<1> DEFINE i == p.i
           j == p.j
           d == p.a
<1>1. /\ l \in Int /\ 0 <= l /\ r \in Int /\ r <= Last
      /\ i \in l + 1..r + 1 /\ j \in -1..r - 1 /\ j < i
  BY MembersAre DEF Parted
<1>2. d \in Orders /\ b \in Orders /\ c \in Orders
  BY DEF Parted, Rearranges
<1>3. \A k \in l..r : k \in Members
  BY InRange
<1>4. /\ \A k \in l..(i - 1) : ~Before(x, d[k])
      /\ \A k \in (j + 1)..r : ~Before(d[k], x)
      /\ Rearranges(a, d, l, r) /\ Rearranges(d, b, i, r) /\ Rearranges(b, c, l, j)
      /\ SortedIn(b, i, r) /\ SortedIn(c, l, j)
  BY DEF Parted
<1> HIDE DEF i, j, d
<1>5. Rearranges(a, c, l, r)
  <2>1. Rearranges(d, b, l, r)
    <3>1. i \in Int /\ l <= i /\ r <= r
      BY <1>1
    <3> QED BY <1>1, <1>2, <1>3, <1>4, <3>1, RearrangedWider
  <2>2. Rearranges(b, c, l, r)
    <3>1. j \in Int /\ l <= l /\ j <= r
      BY <1>1
    <3> QED BY <1>1, <1>2, <1>3, <1>4, <3>1, RearrangedWider
  <2> QED BY <1>2, <1>4, <2>1, <2>2, RearrangedAgain
<1>6. ASSUME NEW k \in l..r, k < i PROVE ~Before(x, c[k])
  <2>1. CASE k <= j
    <3>1. PICK m \in l..j : c[k] = b[m]
      BY <1>1, <1>4, <2>1 DEF Rearranges
    <3>2. m \in Members /\ m \notin i..r /\ m \in l..(i - 1)
      BY <1>1, <1>3
    <3> QED BY <1>4, <3>1, <3>2 DEF Rearranges
  <2>2. CASE ~(k <= j)
    <3>1. k \in Members /\ k \notin l..j /\ k \notin i..r /\ k \in l..(i - 1)
      BY <1>1, <1>3, <1>6, <2>2
    <3> QED BY <1>4, <3>1 DEF Rearranges
  <2> QED BY <2>1, <2>2
<1>7. ASSUME NEW k \in l..r, k > j PROVE ~Before(c[k], x)
  <2>1. k \in Members /\ k \notin l..j
    BY <1>1, <1>3, <1>7
  <2>2. c[k] = b[k]
    BY <1>4, <2>1 DEF Rearranges
  <2>3. CASE k >= i
    <3>1. PICK m \in i..r : b[k] = d[m]
      BY <1>1, <1>4, <2>3 DEF Rearranges
    <3>2. m \in (j + 1)..r
      BY <1>1
    <3> QED BY <1>4, <2>2, <3>1, <3>2
  <2>4. CASE ~(k >= i)
    <3>1. k \notin i..r /\ k \in (j + 1)..r
      BY <1>1, <1>7, <2>4
    <3> QED BY <1>4, <2>1, <2>2, <3>1 DEF Rearranges
  <2> QED BY <2>3, <2>4
<1>8. ASSUME NEW k \in l..r, NEW m \in l..r, k < m
      PROVE  ~Before(c[m], c[k])
  <2>1. CASE m <= j
    BY <1>1, <1>4, <1>8, <2>1 DEF SortedIn
  <2>2. CASE k >= i
    <3>1. k \in Members /\ k \notin l..j /\ m \in Members /\ m \notin l..j
      BY <1>1, <1>3, <1>8, <2>2
    <3>2. c[k] = b[k] /\ c[m] = b[m]
      BY <1>4, <3>1 DEF Rearranges
    <3>3. k \in i..r /\ m \in i..r
      BY <1>1, <1>8, <2>2
    <3> QED BY <1>4, <1>8, <3>2, <3>3 DEF SortedIn
  <2>3. CASE ~(m <= j) /\ ~(k >= i)
    <3>1. ~Before(x, c[k]) /\ ~Before(c[m], x)
      BY <1>1, <1>6, <1>7, <2>3
    <3>2. c[k] \in Members /\ c[m] \in Members
      BY <1>2, <1>3 DEF Orders
    <3> QED BY <3>1, <3>2, BeforeOrders
  <2> QED BY <2>1, <2>2, <2>3
<1> QED
  BY <1>5, <1>8 DEF SortedIn

LEMMA SortRepSorts ==
  ASSUME Ranked, NEW s \in Spans
  PROVE  Rearranges(s.a, SortRep[s], s.l, s.r) /\ SortedIn(SortRep[s], s.l, s.r)
<1> DEFINE f == SortRep
           Sorts(t) == Rearranges(t.a, f[t], t.l, t.r) /\ SortedIn(f[t], t.l, t.r)
           T == {n \in Nat : \A t \in Spans : t.r - t.l <= n => Sorts(t)}
<1>1. \A t \in Spans : f[t] = SortOf(t, f)
  BY SortRepObeys DEF SortsBy
<1>2. \A t \in Spans : /\ t.l \in Int /\ t.r \in Int /\ t.l \in Members
                       /\ t.r \in Members /\ t.a \in Orders
  BY MembersAre DEF Spans
<1> HIDE DEF f
<1>3. ASSUME NEW t \in Spans, ~(t.l < t.r) PROVE Sorts(t)
  <2>1. t.l >= t.r
    BY <1>2, <1>3
  <2>2. f[t] = t.a
    BY <1>1, <2>1 DEF SortOf
  <2>3. SortedIn(t.a, t.l, t.r)
    BY <1>2, <2>1 DEF SortedIn
  <2> QED BY <1>2, <2>2, <2>3, NoneRearranged
<1>4. 0 \in T
  <2>1. \A t \in Spans : t.r - t.l <= 0 => ~(t.l < t.r)
    BY <1>2
  <2> HIDE DEF Sorts
  <2> QED BY <1>3, <2>1
<1>5. ASSUME NEW n \in T PROVE n + 1 \in T
  <2>1. ASSUME NEW t \in Spans, t.l < t.r, t.r - t.l <= n + 1 PROVE Sorts(t)
    <3> DEFINE a == t.a
               l == t.l
               r == t.r
               x == a[(l + r) \div 2]
               p == Exchange(a, x, l, r)
               right == IF p.i < r THEN f[[a |-> p.a, l |-> p.i, r |-> r]] ELSE p.a
               left == IF l < p.j THEN f[[a |-> right, l |-> l, r |-> p.j]] ELSE right
    <3>1. /\ Parted(p, a, x, l, r) /\ p.a \in Orders
          /\ x \in Members /\ p.i \in Int /\ p.j \in Int
          /\ p.i < r => p.i \in Members /\ r - p.i < r - l
          /\ l < p.j => p.j \in Members /\ p.j - l < r - l
      BY <2>1, SmallerSpans
    <3>2. f[t] = left
      <4>1. ~(t.l >= t.r)
        BY <1>2, <2>1
      <4> QED BY <1>1, <4>1 DEF SortOf
    <3>3. /\ l \in Members /\ r \in Members /\ a \in Orders /\ l \in Int /\ r \in Int
          /\ l < r /\ r - l <= n + 1 /\ n \in Nat
      BY <1>2, <2>1
    <3> HIDE DEF a, l, r, x, p, Sorts
    <3>4. Rearranges(p.a, right, p.i, r) /\ SortedIn(right, p.i, r)
      <4>1. CASE p.i < r
        <5> DEFINE u == [a |-> p.a, l |-> p.i, r |-> r]
        <5>1. u \in Spans
          BY <3>1, <3>3, <4>1 DEF Spans
        <5>2. u.r - u.l <= n /\ u.a = p.a /\ u.l = p.i /\ u.r = r
          BY <3>1, <3>3, <4>1
        <5>3. Sorts(u)
          <6> HIDE DEF u
          <6> QED BY <5>1, <5>2
        <5>4. right = f[u]
          BY <4>1
        <5> HIDE DEF u, right
        <5> QED BY <5>2, <5>3, <5>4 DEF Sorts
      <4>2. CASE ~(p.i < r)
        <5>1. right = p.a
          BY <4>2
        <5>2. Rearranges(p.a, p.a, p.i, r)
          BY <3>1 DEF Rearranges
        <5>3. SortedIn(p.a, p.i, r)
          BY <3>1, <3>3, <4>2 DEF SortedIn
        <5> HIDE DEF right
        <5> QED BY <5>1, <5>2, <5>3
      <4> QED BY <4>1, <4>2
    <3> HIDE DEF right
    <3>5. right \in Orders
      BY <3>4 DEF Rearranges
    <3>6. Rearranges(right, left, l, p.j) /\ SortedIn(left, l, p.j)
      <4>1. CASE l < p.j
        <5> DEFINE u == [a |-> right, l |-> l, r |-> p.j]
        <5>1. u \in Spans
          BY <3>1, <3>3, <3>5, <4>1 DEF Spans
        <5>2. u.r - u.l <= n /\ u.a = right /\ u.l = l /\ u.r = p.j
          BY <3>1, <3>3, <4>1
        <5>3. Sorts(u)
          <6> HIDE DEF u
          <6> QED BY <5>1, <5>2
        <5>4. left = f[u]
          BY <4>1
        <5> HIDE DEF u, left
        <5> QED BY <5>2, <5>3, <5>4 DEF Sorts
      <4>2. CASE ~(l < p.j)
        <5>1. left = right
          BY <4>2
        <5>2. Rearranges(right, right, l, p.j)
          BY <3>5 DEF Rearranges
        <5>3. SortedIn(right, l, p.j)
          BY <3>1, <3>3, <4>2 DEF SortedIn
        <5> HIDE DEF left
        <5> QED BY <5>1, <5>2, <5>3
      <4> QED BY <4>1, <4>2
    <3> HIDE DEF left
    <3>7. Rearranges(a, left, l, r) /\ SortedIn(left, l, r)
      BY <3>1, <3>3, <3>4, <3>6, SortedTogether
    <3> QED BY <3>2, <3>7 DEF Sorts, a, l, r
  <2>2. n + 1 \in Nat
    OBVIOUS
  <2>3. \A t \in Spans : t.r - t.l <= n + 1 => Sorts(t)
    <3> HIDE DEF Sorts
    <3> QED BY <1>3, <2>1
  <2> HIDE DEF Sorts
  <2> QED BY <2>2, <2>3
<1>6. T = Nat
  <2> HIDE DEF T
  <2>1. T \in SUBSET Nat
    BY DEF T
  <2> QED BY <1>4, <1>5, <2>1, NumbersByInduction
<1>7. Sorts(s)
  <2> HIDE DEF Sorts
  <2>1. CASE s.l < s.r
    <3> DEFINE n == s.r - s.l
    <3>1. n \in Nat /\ s.r - s.l <= n
      BY <1>2, <2>1
    <3>2. n \in T
      BY <1>6, <3>1
    <3> HIDE DEF n
    <3> QED BY <3>1, <3>2
  <2>2. CASE ~(s.l < s.r)
    BY <1>3, <2>2
  <2> QED BY <2>1, <2>2
<1> QED
  BY <1>7 DEF f

----------------------------------------------------------------------------
(* LeaderSort.                                                             *)

LEMMA ShapeIs ==
  ASSUME Ranked
  PROVE  /\ Cnt \in Nat \ {0} /\ Size \in Nat \ {0}
         /\ Cnt * Size = Cardinality(Members)
BY ShapeAssumption DEF Ranked, Cnt, Size

Keyed == [key : Nat \X Nat, id : Members]
Rows == [Slots -> Keyed]
Turns == [t : Rows, i : 0..Size, j : 1..Size + 1]

Turn(s, f) ==
  IF s.i >= Size THEN s.t
  ELSE IF s.j >= Size THEN f[[t |-> s.t, i |-> s.i + 1, j |-> s.i + 2]]
  ELSE f[[t |-> IF Greater(s.t[s.i].key, s.t[s.j].key)
                  THEN Swap(s.t, s.i, s.j) ELSE s.t,
          i |-> s.i, j |-> s.j + 1]]

TurnsBy(f) == f = [s \in Turns |-> Turn(s, f)]

\* The row with its keys.
WithKeys(row, rnd) == [i \in Slots |-> [key |-> Key(row, rnd, i), id |-> row[i]]]

LEMMA OrderedIsChosen ==
  ASSUME NEW row, NEW rnd
  PROVE  Ordered(row, rnd) =
           [i \in Slots |->
              (CHOOSE f : TurnsBy(f))[[t |-> WithKeys(row, rnd), i |-> 0, j |-> 1]][i].id]
BY DEF Ordered, TurnsBy, Turn, Turns, Keyed, Rows, WithKeys

\* What is still to be compared.
Left(s) == (Size - s.i) * (Size + 2) + (Size + 1 - s.j)

LEMMA LeftIs ==
  ASSUME Ranked, NEW i \in 0..Size, NEW j \in 1..Size + 1
  PROVE  /\ (Size - i) * (Size + 2) + (Size + 1 - j) \in Nat
         /\ i < Size => (Size - (i + 1)) * (Size + 2) + (Size + 1 - (i + 2))
                          < (Size - i) * (Size + 2) + (Size + 1 - j)
<1> DEFINE z == Size
           w == Size + 2
           d == Size - i
<1>1. /\ z \in Nat /\ w \in Nat /\ d \in Nat /\ w = z + 2 /\ d = z - i
      /\ i \in Nat /\ j \in Nat /\ j <= z + 1
  BY ShapeIs
<1> HIDE DEF z, w, d
<1>2. d * w \in Nat
  BY <1>1
<1>3. w * (d - 1) = w * d - w * 1 /\ w * (d - 1) = (d - 1) * w /\ w * d = d * w
  BY <1>1, MultipleOfDifference
<1>4. (d - 1) * w = d * w - w
  BY <1>1, <1>3
<1>5. z - (i + 1) = d - 1
  BY <1>1
<1>6. /\ d * w + (z + 1 - j) \in Nat
      /\ i < z => (z - (i + 1)) * w + (z + 1 - (i + 2)) < d * w + (z + 1 - j)
  <2> DEFINE q == d * w
             y == (d - 1) * w
  <2>1. q \in Nat /\ y = q - w /\ i \in Nat /\ j \in Nat /\ j <= z + 1
    BY <1>1, <1>2, <1>4
  <2>2. (z - (i + 1)) * w = y
    BY <1>5
  <2> HIDE DEF q, y
  <2>3. q + (z + 1 - j) \in Nat
    BY <1>1, <2>1
  <2>4. y + (z + 1 - (i + 2)) < q + (z + 1 - j)
    BY <1>1, <2>1
  <2> QED BY <2>2, <2>3, <2>4 DEF q
<1> QED
  BY <1>6 DEF z, w, d

\* The next turn after s.
Further(s) == [t |-> s.t, i |-> s.i + 1, j |-> s.i + 2]
Compared(s) == [t |-> IF Greater(s.t[s.i].key, s.t[s.j].key)
                        THEN Swap(s.t, s.i, s.j) ELSE s.t,
                i |-> s.i, j |-> s.j + 1]

LEMMA NextTurn ==
  ASSUME Ranked, NEW s \in Turns, s.i < Size
  PROVE  /\ s.j >= Size => Further(s) \in Turns /\ Left(Further(s)) < Left(s)
         /\ s.j < Size => Compared(s) \in Turns /\ Left(Compared(s)) < Left(s)
<1>1. /\ Size \in Nat /\ s.i \in 0..Size /\ s.j \in 1..Size + 1 /\ s.t \in Rows
      /\ s = [t |-> s.t, i |-> s.i, j |-> s.j]
  BY ShapeIs DEF Turns
<1>2. Further(s) = [t |-> s.t, i |-> s.i + 1, j |-> s.i + 2]
  BY DEF Further
<1>3. Compared(s) = [t |-> IF Greater(s.t[s.i].key, s.t[s.j].key)
                             THEN Swap(s.t, s.i, s.j) ELSE s.t,
                     i |-> s.i, j |-> s.j + 1]
  BY DEF Compared
<1>4. ASSUME s.j < Size PROVE Swap(s.t, s.i, s.j) \in Rows
  <2>1. s.i \in Slots /\ s.j \in Slots
    BY <1>1, <1>4 DEF Slots
  <2> QED BY <1>1, <2>1 DEF Swap, Rows
<1>5. Further(s) \in Turns /\ Left(Further(s)) < Left(s)
  <2>1. Further(s) \in Turns
    BY <1>1, <1>2 DEF Turns
  <2>2. Left(Further(s)) = (Size - (s.i + 1)) * (Size + 2) + (Size + 1 - (s.i + 2))
    BY <1>2 DEF Left
  <2> QED BY <1>1, <2>1, <2>2, LeftIs DEF Left
<1>6. s.j < Size => Compared(s) \in Turns /\ Left(Compared(s)) < Left(s)
  <2> SUFFICES ASSUME s.j < Size
               PROVE  Compared(s) \in Turns /\ Left(Compared(s)) < Left(s)
    OBVIOUS
  <2>1. s.j + 1 \in 1..Size + 1
    BY <1>1
  <2>2. (IF Greater(s.t[s.i].key, s.t[s.j].key)
           THEN Swap(s.t, s.i, s.j) ELSE s.t) \in Rows
    BY <1>1, <1>4
  <2>3. Compared(s) \in Turns
    BY <1>1, <1>3, <2>1, <2>2 DEF Turns
  <2>4. Left(Compared(s)) = (Size - s.i) * (Size + 2) + (Size + 1 - (s.j + 1))
    BY <1>3 DEF Left
  <2>5. (Size - s.i) * (Size + 2) \in Int
    <3>1. Size - s.i \in Int /\ Size + 2 \in Int
      BY <1>1
    <3> QED BY <3>1
  <2> QED BY <1>1, <2>3, <2>4, <2>5 DEF Left
<1> QED
  BY <1>5, <1>6

LEMMA TurnsObey ==
  ASSUME Ranked
  PROVE  TurnsBy(CHOOSE f : TurnsBy(f))
<1> DEFINE X == Turns
           G == [q \in X \X [X -> Rows] |-> Turn(q[1], q[2])]
           mu == [s \in X |-> Left(s)]
<1>1. \A s \in X, f \in [X -> Rows] : G[<<s, f>>] = Turn(s, f)
  OBVIOUS
<1>2. \A s \in X : s.i \in 0..Size /\ s.j \in 1..Size + 1 /\ s.t \in Rows
  BY DEF Turns
<1>3. Size \in Nat \ {0}
  BY ShapeIs
<1>4. mu \in [X -> Nat] /\ \A s \in X : mu[s] = Left(s)
  BY <1>2, LeftIs DEF Left
<1>5. \A s, f : Turn(s, f) = IF s.i >= Size THEN s.t
                             ELSE IF s.j >= Size THEN f[Further(s)]
                             ELSE f[Compared(s)]
  BY DEF Turn, Further, Compared
<1>6. ASSUME NEW s \in X, NEW f \in [X -> Rows], NEW g \in [X -> Rows],
             \A y \in X : mu[y] < mu[s] => f[y] = g[y]
      PROVE  Turn(s, f) = Turn(s, g) /\ Turn(s, f) \in Rows
  <2> HIDE DEF X, mu
  <2>1. CASE s.i >= Size
    BY <1>2, <1>5, <2>1
  <2>2. CASE s.i < Size /\ s.j >= Size
    <3>1. Further(s) \in X /\ Left(Further(s)) < Left(s)
      BY <2>2, NextTurn DEF X
    <3>2. Turn(s, f) = f[Further(s)] /\ Turn(s, g) = g[Further(s)]
      BY <1>2, <1>3, <1>5, <2>2
    <3> QED BY <1>4, <1>6, <3>1, <3>2
  <2>3. CASE s.i < Size /\ s.j < Size
    <3>1. Compared(s) \in X /\ Left(Compared(s)) < Left(s)
      BY <2>3, NextTurn DEF X
    <3>2. Turn(s, f) = f[Compared(s)] /\ Turn(s, g) = g[Compared(s)]
      BY <1>2, <1>3, <1>5, <2>3
    <3> QED BY <1>4, <1>6, <3>1, <3>2
  <2>4. s.i >= Size \/ (s.i < Size /\ s.j >= Size) \/ (s.i < Size /\ s.j < Size)
    BY <1>2, <1>3
  <2> QED BY <2>1, <2>2, <2>3, <2>4
<1>7. G \in [X \X [X -> Rows] -> Rows]
  <2> HIDE DEF X, mu
  <2>1. \A s \in X, f \in [X -> Rows] : Turn(s, f) \in Rows
    BY <1>6
  <2> QED BY <2>1
<1> HIDE DEF G, mu, X
<1>8. LooksBelow(G, X, Rows, mu)
  BY <1>1, <1>6 DEF LooksBelow
<1>9. PICK f \in [X -> Rows] : Obeys(f, G, X)
  <2>1. Rows # {}
    <3>1. \E m : m \in Members
      <4>1. Cardinality(Members) # 0
        BY ShapeIs
      <4> QED BY <4>1, FS_EmptySet
    <3>2. PICK m \in Members : TRUE
      BY <3>1
    <3>3. [k \in Slots |-> [key |-> <<0, 0>>, id |-> m]] \in Rows
      BY <3>2 DEF Rows, Keyed
    <3> QED BY <3>3
  <2> QED BY <1>4, <1>7, <1>8, <2>1, Recursion, Zenon
<1>10. TurnsBy(f)
  <2>1. \A s \in X : f[s] = Turn(s, f)
    BY <1>1, <1>9 DEF Obeys
  <2>2. f = [s \in X |-> Turn(s, f)]
    BY <1>9, <2>1
  <2> QED BY <2>2 DEF TurnsBy, X
<1> QED
  BY <1>10

\* Where the turns end, if a set of turns is never left.
LEMMA TurnsKeep ==
  ASSUME Ranked, NEW H \in SUBSET Turns,
         \A s \in H : s.i < Size =>
           /\ s.j >= Size => Further(s) \in H
           /\ s.j < Size => Compared(s) \in H,
         NEW s \in H
  PROVE  \E e \in H : e.i >= Size /\ (CHOOSE f : TurnsBy(f))[s] = e.t
<1> DEFINE f == CHOOSE g : TurnsBy(g)
           Ends(x) == \E e \in H : e.i >= Size /\ f[x] = e.t
           T == {n \in Nat : \A x \in H : Left(x) <= n => Ends(x)}
<1>1. \A x \in H : /\ x \in Turns /\ x.i \in 0..Size /\ x.j \in 1..Size + 1
                   /\ Left(x) \in Nat
  BY LeftIs DEF Turns, Left
<1>2. Size \in Nat \ {0}
  BY ShapeIs
<1>3. \A x \in H : f[x] = IF x.i >= Size THEN x.t
                          ELSE IF x.j >= Size THEN f[Further(x)]
                          ELSE f[Compared(x)]
  <2>1. TurnsBy(f)
    BY TurnsObey
  <2> HIDE DEF f
  <2>2. \A x \in H : f[x] = Turn(x, f)
    BY <1>1, <2>1 DEF TurnsBy
  <2> QED BY <2>2 DEF Turn, Further, Compared
<1> HIDE DEF f
<1>4. ASSUME NEW x \in H, \A y \in H : Left(y) < Left(x) => Ends(y)
      PROVE  Ends(x)
  <2>1. CASE x.i >= Size
    BY <1>3, <2>1
  <2>2. CASE x.i < Size /\ x.j >= Size
    <3>1. Further(x) \in H /\ Left(Further(x)) < Left(x)
      BY <1>1, <2>2, NextTurn
    <3>2. f[x] = f[Further(x)]
      BY <1>1, <1>2, <1>3, <2>2
    <3> QED BY <1>4, <3>1, <3>2
  <2>3. CASE x.i < Size /\ x.j < Size
    <3>1. Compared(x) \in H /\ Left(Compared(x)) < Left(x)
      BY <1>1, <2>3, NextTurn
    <3>2. f[x] = f[Compared(x)]
      BY <1>1, <1>2, <1>3, <2>3
    <3> QED BY <1>4, <3>1, <3>2
  <2>4. x.i >= Size \/ (x.i < Size /\ x.j >= Size) \/ (x.i < Size /\ x.j < Size)
    BY <1>1, <1>2
  <2> QED BY <2>1, <2>2, <2>3, <2>4
<1> HIDE DEF Ends
<1>5. 0 \in T
  <2>1. \A x \in H : Left(x) <= 0 => \A y \in H : ~(Left(y) < Left(x))
    BY <1>1
  <2> QED BY <1>4, <2>1
<1>6. ASSUME NEW n \in T PROVE n + 1 \in T
  <2>1. \A x, y \in H : Left(x) <= n + 1 /\ Left(y) < Left(x) => Left(y) <= n
    BY <1>1
  <2>2. \A x \in H : Left(x) <= n + 1 => Ends(x)
    BY <1>4, <2>1
  <2> QED BY <2>2
<1>7. T = Nat
  <2> HIDE DEF T
  <2>1. T \in SUBSET Nat
    BY DEF T
  <2> QED BY <1>5, <1>6, <2>1, NumbersByInduction
<1>8. Ends(s)
  <2>1. Left(s) \in T /\ Left(s) <= Left(s)
    BY <1>1, <1>7
  <2> QED BY <2>1
<1> QED
  BY <1>8 DEF Ends, f

\* q takes every slot of a row from another.
Mixes(q) == q \in [Slots -> Slots] /\ IsInjective(q)

LEMMA SwapMixes ==
  ASSUME NEW q, Mixes(q), NEW i \in Slots, NEW j \in Slots
  PROVE  /\ Mixes(Swap(q, i, j))
         /\ Swap(q, i, j)[i] = q[j] /\ Swap(q, i, j)[j] = q[i]
         /\ \A k \in Slots : k # i /\ k # j => Swap(q, i, j)[k] = q[k]
<1> DEFINE u == Swap(q, i, j)
<1>1. /\ u \in [Slots -> Slots] /\ u[i] = q[j] /\ u[j] = q[i]
      /\ \A k \in Slots : k # i /\ k # j => u[k] = q[k]
  BY DEF Mixes, Swap
<1>2. \A k, m \in Slots : q[k] = q[m] => k = m
  BY DEF Mixes, IsInjective
<1> HIDE DEF u
<1>3. \A k, m \in Slots : u[k] = u[m] => k = m
  BY <1>1, <1>2
<1>4. Mixes(u)
  BY <1>1, <1>3 DEF Mixes, IsInjective
<1> QED
  BY <1>1, <1>4 DEF u

LEMMA SwapMixed ==
  ASSUME NEW t, NEW q, Mixes(q), NEW i \in Slots, NEW j \in Slots
  PROVE  Swap([k \in Slots |-> t[q[k]]], i, j) = [k \in Slots |-> t[Swap(q, i, j)[k]]]
<1>1. /\ Mixes(Swap(q, i, j))
      /\ Swap(q, i, j)[i] = q[j] /\ Swap(q, i, j)[j] = q[i]
      /\ \A k \in Slots : k # i /\ k # j => Swap(q, i, j)[k] = q[k]
  BY SwapMixes
<1> DEFINE a == [k \in Slots |-> t[q[k]]]
<1>2. Swap(a, i, j) = [k \in Slots |-> IF k = j THEN a[i] ELSE IF k = i THEN a[j] ELSE a[k]]
  BY DEF Swap
<1>3. \A k \in Slots : Swap(a, i, j)[k] = t[Swap(q, i, j)[k]]
  BY <1>1, <1>2
<1> HIDE DEF a
<1>4. Swap(a, i, j) = [k \in Slots |-> Swap(a, i, j)[k]]
  BY <1>2
<1>5. Swap(a, i, j) = [k \in Slots |-> t[Swap(q, i, j)[k]]]
  BY <1>3, <1>4
<1> QED
  BY <1>5 DEF a

Draws == [0..(Size \div 2 - 1) -> 0..(Random - 1)]

\* A row begins with its best member.
Best(row) == \A k \in Slots : rep[row[k]] <= rep[row[0]]

LEMMA KeyType ==
  ASSUME Ranked, NEW row \in [Slots -> Members], NEW rnd \in Draws
  PROVE  WithKeys(row, rnd) \in Rows
<1>1. rep \in [Members -> Nat] /\ Random \in Nat \ {0} /\ Size \in Nat \ {0}
  BY RepAssumption, ShapeIs DEF Ranked
<1>2. 0 \in Slots /\ rep[row[0]] \in Nat
  BY <1>1 DEF Slots
<1>3. ASSUME NEW k \in Slots PROVE Key(row, rnd, k) \in Nat \X Nat
  <2>1. rep[row[k]] \in Nat /\ k \in Nat
    BY <1>1 DEF Slots
  <2>2. CASE k < Size \div 2
    <3>1. rnd[k] \in Nat
      BY <1>1, <2>1, <2>2 DEF Draws
    <3>2. Random * (rep[row[k]] + 1) \in Nat
      BY <1>1, <2>1
    <3> QED BY <2>2, <3>1, <3>2 DEF Key
  <2>3. CASE ~(k < Size \div 2)
    BY <1>2, <2>1, <2>3 DEF Key
  <2> QED BY <2>2, <2>3
<1> QED
  BY <1>3 DEF WithKeys, Rows, Keyed

\* A key of the lower half is 1 or more, or no number, and a key of the upper
\* half is below 1.
LEMMA UpperBelowLower ==
  ASSUME Ranked, NEW row \in [Slots -> Members], NEW rnd \in Draws, Best(row),
         NEW k \in Slots, NEW m \in Slots, k < Size \div 2, ~(m < Size \div 2)
  PROVE  ~Greater(Key(row, rnd, k), Key(row, rnd, m))
<1> DEFINE a == rep[row[0]]
           b == rep[row[m]]
           c == rep[row[k]]
           n == rnd[k]
           w == Random
<1>1. rep \in [Members -> Nat] /\ Random \in Nat \ {0} /\ Size \in Nat \ {0}
  BY RepAssumption, ShapeIs DEF Ranked
<1>2. 0 \in Slots /\ k \in Nat
  BY <1>1 DEF Slots
<1>3. a \in Nat /\ b \in Nat /\ c \in Nat /\ b <= a /\ w \in Nat \ {0}
  BY <1>1, <1>2 DEF Best
<1>4. n \in Nat /\ n <= w
  BY <1>1, <1>2 DEF Draws
<1>5. Key(row, rnd, k) = <<n, w * (c + 1)>> /\ Key(row, rnd, m) = <<a, b>>
  BY DEF Key
<1> HIDE DEF a, b, c, n, w
<1>6. n * b <= w * b /\ w * b <= w * a
  BY <1>3, <1>4
<1>7. w * a <= a * (w * (c + 1))
  <2>1. a * (w * (c + 1)) = (w * a) * c + w * a /\ (w * a) * c \in Nat /\ w * a \in Nat
    BY <1>3
  <2> QED BY <2>1
<1>8. ~(n * b > a * (w * (c + 1)))
  <2>1. n * b \in Nat /\ w * b \in Nat /\ w * a \in Nat /\ a * (w * (c + 1)) \in Nat
    BY <1>3, <1>4
  <2> QED BY <1>6, <1>7, <2>1
<1> QED
  BY <1>5, <1>8 DEF Greater

\* What the loops have made of the row t0, with q.
Made(s, t0, best, q) ==
  /\ Mixes(q)
  /\ s.t = [k \in Slots |-> t0[q[k]]]
  /\ best => /\ q[0] < Size \div 2
             /\ s.i = 0 => \A k \in Slots : k >= s.j => q[k] = k

LEMMA ComparedMade ==
  ASSUME Ranked, NEW row \in [Slots -> Members], NEW rnd \in Draws,
         NEW s \in Turns, s.i < Size, s.j < Size,
         NEW q, Made(s, WithKeys(row, rnd), Size > 1 /\ Best(row), q)
  PROVE  \E p : Made(Compared(s), WithKeys(row, rnd), Size > 1 /\ Best(row), p)
<1> DEFINE t0 == WithKeys(row, rnd)
           best == Size > 1 /\ Best(row)
           i == s.i
           j == s.j
           h == Size \div 2
<1>1. Size \in Nat \ {0} /\ i \in Slots /\ j \in Slots /\ j >= 1 /\ i >= 0
  BY ShapeIs DEF Turns, Slots
<1>2. Compared(s).i = i /\ Compared(s).j = j + 1
  BY DEF Compared
<1>3. /\ Mixes(q) /\ s.t = [k \in Slots |-> t0[q[k]]]
      /\ best => q[0] < h /\ (i = 0 => \A k \in Slots : k >= j => q[k] = k)
  BY DEF Made
<1>4. \A k \in Slots : k \in Int
  BY <1>1 DEF Slots
<1>5. CASE ~Greater(s.t[i].key, s.t[j].key)
  <2>1. Compared(s).t = s.t
    BY <1>5 DEF Compared
  <2>2. best => (i = 0 => \A k \in Slots : k >= j + 1 => q[k] = k)
    BY <1>1, <1>3, <1>4
  <2>3. Made(Compared(s), t0, best, q)
    <3> HIDE DEF t0, best, i, j
    <3> QED BY <1>2, <1>3, <2>1, <2>2 DEF Made, h
  <2> QED BY <2>3
<1>6. CASE Greater(s.t[i].key, s.t[j].key)
  <2> DEFINE p == Swap(q, i, j)
  <2>1. /\ Mixes(p) /\ p[i] = q[j] /\ p[j] = q[i]
        /\ \A k \in Slots : k # i /\ k # j => p[k] = q[k]
    <3> HIDE DEF i, j
    <3> QED BY <1>1, <1>3, SwapMixes
  <2>2. Compared(s).t = Swap(s.t, i, j)
    BY <1>6 DEF Compared
  <2>3. Compared(s).t = [k \in Slots |-> t0[p[k]]]
    <3> HIDE DEF i, j, t0
    <3> QED BY <1>1, <1>3, <2>2, SwapMixed
  <2>4. ASSUME best, i = 0 PROVE q[j] < h
    <3>1. q[j] = j /\ q[0] \in Slots /\ q[0] < h
      <4>1. j >= j /\ 0 \in Slots
        BY <1>1, <1>4 DEF Slots
      <4>2. q[j] = j
        BY <1>1, <1>3, <2>4, <4>1
      <4>3. q[0] \in Slots
        BY <1>3, <4>1 DEF Mixes
      <4> QED BY <1>3, <2>4, <4>2, <4>3
    <3>2. s.t[i] = t0[q[0]] /\ s.t[j] = t0[j]
      BY <1>1, <1>3, <2>4, <3>1
    <3>3. t0[q[0]].key = Key(row, rnd, q[0]) /\ t0[j].key = Key(row, rnd, j)
      BY <1>1, <3>1 DEF WithKeys
    <3>4. Greater(Key(row, rnd, q[0]), Key(row, rnd, j))
      BY <1>6, <3>2, <3>3
    <3> DEFINE k0 == q[0]
    <3> HIDE DEF i, j, k0
    <3>5. j < h
      BY <1>1, <2>4, <3>1, <3>4, UpperBelowLower DEF k0, h
    <3> QED BY <3>1, <3>5
  <2> HIDE DEF p
  <2>5. best => p[0] < h
    <3>1. ASSUME best PROVE p[0] < h
      <4>1. CASE i = 0
        BY <2>1, <2>4, <3>1, <4>1
      <4>2. CASE i # 0
        <5>1. 0 \in Slots /\ j # 0
          BY <1>1 DEF Slots
        <5> QED BY <1>3, <2>1, <3>1, <4>2, <5>1
      <4> QED BY <4>1, <4>2
    <3> QED BY <3>1
  <2>6. best => (i = 0 => \A k \in Slots : k >= j + 1 => p[k] = k)
    <3>1. ASSUME best, i = 0, NEW k \in Slots, k >= j + 1 PROVE p[k] = k
      <4>1. k # i /\ k # j /\ k >= j
        BY <1>1, <1>4, <3>1
      <4> QED BY <1>3, <2>1, <3>1, <4>1
    <3> QED BY <3>1
  <2>7. Made(Compared(s), t0, best, p)
    <3> HIDE DEF t0, best, i, j
    <3> QED BY <1>2, <2>1, <2>3, <2>5, <2>6 DEF Made, h
  <2> QED BY <2>7
<1> QED
  BY <1>5, <1>6

\* LeaderSort mixes a row, and the best of the upper half leads it.
LEMMA OrderedMixes ==
  ASSUME Ranked, NEW row \in [Slots -> Members], NEW rnd \in Draws
  PROVE  \E q : /\ Mixes(q)
                /\ Ordered(row, rnd) = [k \in Slots |-> row[q[k]]]
                /\ Size > 1 /\ Best(row) => q[0] < Size \div 2
<1> DEFINE t0 == WithKeys(row, rnd)
           best == Size > 1 /\ Best(row)
           H == {s \in Turns : \E q : Made(s, t0, best, q)}
           first == [t |-> t0, i |-> 0, j |-> 1]
           id == [k \in Slots |-> k]
           end == (CHOOSE f : TurnsBy(f))[first]
<1>1. Size \in Nat \ {0} /\ 0 \in Slots
  BY ShapeIs DEF Slots
<1>2. t0 \in Rows
  BY KeyType
<1>3. first \in H
  <2>1. first \in Turns
    BY <1>1, <1>2 DEF Turns
  <2>2. Mixes(id)
    BY DEF Mixes, IsInjective
  <2>3. t0 = [k \in Slots |-> t0[id[k]]]
    <3>1. t0 = [k \in Slots |-> t0[k]]
      <4> HIDE DEF t0
      <4> QED BY <1>2 DEF Rows
    <3> HIDE DEF t0
    <3> QED BY <3>1
  <2>4. best => id[0] < Size \div 2
    BY <1>1
  <2>5. \A k \in Slots : id[k] = k
    OBVIOUS
  <2>6. Made(first, t0, best, id)
    <3> HIDE DEF t0, best, id
    <3> QED BY <2>2, <2>3, <2>4, <2>5 DEF Made
  <2> QED BY <2>1, <2>6
<1>4. \A s \in H : s.i < Size => /\ s.j >= Size => Further(s) \in H
                                 /\ s.j < Size => Compared(s) \in H
  <2>1. ASSUME NEW s \in H, s.i < Size, s.j >= Size PROVE Further(s) \in H
    <3>1. Further(s) \in Turns
      BY <2>1, NextTurn
    <3>2. PICK q : Made(s, t0, best, q)
      OBVIOUS
    <3>3. Further(s).t = s.t /\ Further(s).i = s.i + 1 /\ s.i + 1 # 0
      <4>1. s.i \in 0..Size
        BY DEF Turns
      <4> QED BY <1>1, <4>1 DEF Further
    <3>4. Made(Further(s), t0, best, q)
      <4> HIDE DEF t0, best
      <4> QED BY <3>2, <3>3 DEF Made
    <3> QED BY <3>1, <3>4
  <2>2. ASSUME NEW s \in H, s.i < Size, s.j < Size PROVE Compared(s) \in H
    <3>1. s \in Turns /\ Compared(s) \in Turns
      BY <2>2, NextTurn
    <3>2. PICK q : Made(s, t0, best, q)
      OBVIOUS
    <3>3. \E p : Made(Compared(s), t0, best, p)
      BY <2>2, <3>1, <3>2, ComparedMade
    <3> QED BY <3>1, <3>3
  <2> QED BY <2>1, <2>2
<1>5. \E e \in H : e.i >= Size /\ end = e.t
  <2> HIDE DEF first, H
  <2>1. H \in SUBSET Turns
    BY DEF H
  <2> QED BY <1>3, <1>4, <2>1, TurnsKeep
<1>6. PICK e \in H : end = e.t
  BY <1>5
<1>7. PICK q : Made(e, t0, best, q)
  BY <1>6
<1>8. Mixes(q) /\ (best => q[0] < Size \div 2)
  BY <1>7 DEF Made
<1>9. \A k \in Slots : end[k].id = row[q[k]]
  <2>1. \A k \in Slots : q[k] \in Slots
    BY <1>8 DEF Mixes
  <2>2. \A k \in Slots : e.t[k] = t0[q[k]]
    BY <1>7 DEF Made
  <2>3. \A k \in Slots : t0[k].id = row[k]
    BY DEF WithKeys
  <2> HIDE DEF t0, end
  <2> QED BY <1>6, <2>1, <2>2, <2>3
<1>10. Ordered(row, rnd) = [k \in Slots |-> end[k].id]
  BY OrderedIsChosen
<1> HIDE DEF end
<1>11. Ordered(row, rnd) = [k \in Slots |-> row[q[k]]]
  BY <1>9, <1>10
<1> QED
  BY <1>8, <1>11

----------------------------------------------------------------------------
(* Rows and slots.                                                         *)

LEMMA OneToOneIsOnto ==
  ASSUME NEW S, IsFiniteSet(S), NEW f \in [S -> S], IsInjective(f)
  PROVE  \A y \in S : \E x \in S : f[x] = y
<1>1. f \in Injection(S, S)
  BY DEF Injection
<1>2. f \in Surjection(S, S)
  BY <1>1, FS_Injection
<1> QED
  BY <1>2 DEF Surjection

LEMMA RowsFinite ==
  ASSUME Ranked
  PROVE  IsFiniteSet(ShardIds) /\ IsFiniteSet(Slots)
<1>1. Cnt - 1 \in Int /\ Size - 1 \in Int
  BY ShapeIs
<1> QED
  BY <1>1, FS_Interval DEF ShardIds, Slots

\* The place of slot c of row k in the list.
LEMMA RowAndSlot ==
  ASSUME Ranked, NEW k \in Slots, NEW c \in ShardIds
  PROVE  /\ k * Cnt + c \in Members
         /\ (k * Cnt + c) \div Cnt = k /\ (k * Cnt + c) % Cnt = c
<1> DEFINE n == Cnt
           z == Size
<1>1. /\ n \in Nat \ {0} /\ z \in Nat \ {0} /\ k \in 0..(z - 1) /\ c \in 0..(n - 1)
      /\ Last = n * z - 1
  BY ShapeIs DEF ShardIds, Slots, Last
<1> HIDE DEF n, z
<1>2. k * n + c = n * k + c /\ n * k \in Nat
  BY <1>1
<1>3. n * k <= n * (z - 1) /\ n * (z - 1) = n * z - n * 1
  BY <1>1
<1>4. n * z \in Nat /\ n * 1 = n
  BY <1>1
<1>5. k * n + c \in Int /\ 0 <= k * n + c /\ k * n + c <= Last
  BY <1>1, <1>2, <1>3, <1>4
<1>6. k * n + c \in Members
  BY <1>5, MembersAre
<1>7. (k * n + c) \div n = k /\ (k * n + c) % n = c
  BY <1>1, <1>2, OneQuotient
<1> QED
  BY <1>6, <1>7 DEF n

LEMMA EveryRowAndSlot ==
  ASSUME Ranked, NEW r \in Members
  PROVE  \E k \in Slots, c \in ShardIds : r = k * Cnt + c
<1> DEFINE n == Cnt
           z == Size
           k == r \div n
           c == r % n
<1>1. n \in Nat \ {0} /\ z \in Nat \ {0} /\ Last = n * z - 1
  BY ShapeIs DEF Last
<1>2. r \in Int /\ 0 <= r /\ r <= Last
  BY MembersAre
<1>3. ShardIds = 0..(n - 1) /\ Slots = 0..(z - 1)
  BY DEF ShardIds, Slots
<1> HIDE DEF n, z
<1>4. k \in Int /\ c \in 0..(n - 1) /\ r = n * k + c
  BY <1>1, <1>2, Remainder
<1> HIDE DEF k, c
<1>5. k >= 0
  <2> SUFFICES ASSUME k <= -1 PROVE FALSE
    BY <1>4
  <2>1. n * (k + 1) <= 0 /\ n * (k + 1) = n * k + n
    BY <1>1, <1>4
  <2> QED BY <1>1, <1>2, <1>4, <2>1
<1>6. k <= z - 1
  <2> SUFFICES ASSUME k - z >= 0 PROVE FALSE
    BY <1>1, <1>4
  <2>1. n * (k - z) >= 0 /\ n * (k - z) = n * k - n * z
    BY <1>1, <1>4
  <2>2. n * k \in Int /\ n * z \in Int
    BY <1>1, <1>4
  <2> QED BY <1>1, <1>2, <1>4, <2>1, <2>2
<1>7. k \in Slots /\ c \in ShardIds /\ r = k * n + c
  BY <1>1, <1>3, <1>4, <1>5, <1>6
<1> QED
  BY <1>7 DEF n

LEMMA RankIs ==
  ASSUME sorted \in Orders, IsInjective(sorted), NEW r \in Members
  PROVE  Rank(sorted[r]) = r
<1>1. \E i \in Members : sorted[i] = sorted[r]
  OBVIOUS
<1>2. Rank(sorted[r]) \in Members /\ sorted[Rank(sorted[r])] = sorted[r]
  BY <1>1 DEF Rank
<1> QED
  BY <1>2 DEF IsInjective, Orders

----------------------------------------------------------------------------
(* The tables.                                                             *)

\* p gives every shard a member of a row.
Deals(p) == p \in [ShardIds -> ShardIds] /\ IsInjective(p)

\* The first n rows of t are dealt.
Dealt(t, n) ==
  \A k \in Slots : k < n =>
    \E p : Deals(p) /\ \A x \in ShardIds : t[x][k] = sorted[k * Cnt + p[x]]

\* The first n shards of t are those of base, ordered for leadership.
Led(t, base, n) ==
  \A x \in ShardIds :
    IF x < n THEN \E q : /\ Mixes(q) /\ t[x] = [k \in Slots |-> base[x][q[k]]]
                         /\ Size > 1 => q[0] < Size \div 2
    ELSE t[x] = base[x]

\* The list is what SortRep makes it.
InOrder == sorted \in Orders /\ IsInjective(sorted) /\ SortedIn(sorted, 0, Last)

LEMMA DealtRanks ==
  ASSUME Ranked, InOrder, NEW t, Dealt(t, Size), NEW x \in ShardIds, NEW k \in Slots
  PROVE  \E r \in Members : /\ t[x][k] = sorted[r] /\ t[x][k] \in Members
                            /\ Rank(t[x][k]) = r /\ r \div Cnt = k
<1>1. k < Size
  BY ShapeIs DEF Slots
<1>2. PICK p : Deals(p) /\ \A y \in ShardIds : t[y][k] = sorted[k * Cnt + p[y]]
  BY <1>1 DEF Dealt
<1>3. p[x] \in ShardIds
  BY <1>2 DEF Deals
<1> DEFINE c == p[x]
           r == k * Cnt + c
<1>4. r \in Members /\ r \div Cnt = k
  <2> HIDE DEF c
  <2> QED BY <1>3, RowAndSlot DEF c
<1>5. t[x][k] = sorted[r]
  BY <1>2
<1> HIDE DEF r
<1>6. Rank(sorted[r]) = r /\ sorted[r] \in Members
  BY <1>4, RankIs DEF InOrder, Orders
<1> QED
  BY <1>4, <1>5, <1>6

LEMMA DealtOnce ==
  ASSUME Ranked, InOrder, NEW t, Dealt(t, Size),
         NEW x \in ShardIds, NEW y \in ShardIds, NEW k \in Slots, NEW m \in Slots,
         t[x][k] = t[y][m]
  PROVE  x = y /\ k = m
<1>1. k = m
  <2>1. PICK r \in Members : Rank(t[x][k]) = r /\ r \div Cnt = k
    BY DealtRanks
  <2>2. PICK s \in Members : Rank(t[y][m]) = s /\ s \div Cnt = m
    BY DealtRanks
  <2> QED BY <2>1, <2>2
<1>2. k < Size
  BY ShapeIs DEF Slots
<1>3. PICK p : Deals(p) /\ \A z \in ShardIds : t[z][k] = sorted[k * Cnt + p[z]]
  BY <1>2 DEF Dealt
<1> DEFINE c == p[x]
           d == p[y]
<1>4. c \in ShardIds /\ d \in ShardIds
  BY <1>3 DEF Deals
<1>5. sorted[k * Cnt + c] = sorted[k * Cnt + d]
  BY <1>1, <1>3
<1>6. c = d
  <2> HIDE DEF c, d
  <2>1. /\ k * Cnt + c \in Members /\ (k * Cnt + c) % Cnt = c
        /\ k * Cnt + d \in Members /\ (k * Cnt + d) % Cnt = d
    BY <1>4, RowAndSlot
  <2>2. k * Cnt + c = k * Cnt + d
    BY <1>5, <2>1 DEF InOrder, Orders, IsInjective
  <2> QED BY <2>1, <2>2
<1> QED
  BY <1>1, <1>3, <1>6 DEF Deals, IsInjective

LEMMA DealtAll ==
  ASSUME Ranked, InOrder, NEW t, Dealt(t, Size), NEW m \in Members
  PROVE  \E x \in ShardIds, k \in Slots : t[x][k] = m
<1>1. PICK r \in Members : sorted[r] = m
  BY OneToOneIsOnto, MembersAre DEF InOrder, Orders
<1>2. PICK k \in Slots, c \in ShardIds : r = k * Cnt + c
  BY EveryRowAndSlot
<1>3. k < Size
  BY ShapeIs DEF Slots
<1>4. PICK p : Deals(p) /\ \A z \in ShardIds : t[z][k] = sorted[k * Cnt + p[z]]
  BY <1>3 DEF Dealt
<1>5. PICK x \in ShardIds : p[x] = c
  BY <1>4, OneToOneIsOnto, RowsFinite DEF Deals
<1> QED
  BY <1>1, <1>2, <1>4, <1>5

\* The first row deals the best.
LEMMA DealtBest ==
  ASSUME Ranked, InOrder, NEW t, Dealt(t, Size), NEW x \in ShardIds
  PROVE  t[x] \in [Slots -> Members] => Best(t[x])
<1> SUFFICES ASSUME NEW k \in Slots PROVE rep[t[x][k]] <= rep[t[x][0]]
  BY DEF Best
<1>1. 0 \in Slots /\ k \in Int /\ k >= 0 /\ Cnt \in Nat \ {0}
  BY ShapeIs DEF Slots
<1>2. rep \in [Members -> Nat]
  BY RepAssumption DEF Ranked
<1>3. CASE k = 0
  <2>1. PICK r \in Members : t[x][k] \in Members
    BY DealtRanks
  <2> QED BY <1>2, <1>3, <2>1
<1>4. CASE k # 0
  <2>1. PICK r \in Members : t[x][k] = sorted[r] /\ r \div Cnt = k
    BY DealtRanks
  <2>2. PICK s \in Members : t[x][0] = sorted[s] /\ s \div Cnt = 0
    BY <1>1, DealtRanks
  <2>3. s < r
    <3>1. r \in Int /\ s \in Int
      BY MembersAre
    <3> DEFINE n == Cnt
               a == r \div n
               b == r % n
               c == s \div n
               d == s % n
    <3>2. r = n * a + b /\ s = n * c + d /\ b \in 0..(n - 1) /\ d \in 0..(n - 1)
      BY <1>1, <3>1, Remainder
    <3>3. a = k /\ c = 0
      BY <2>1, <2>2
    <3>4. n \in Nat \ {0}
      BY <1>1
    <3> HIDE DEF n, a, b, c, d
    <3>5. s = d /\ n * k >= n
      BY <1>1, <1>4, <3>2, <3>3, <3>4
    <3>6. n * k \in Int
      BY <1>1, <3>4
    <3> QED BY <3>2, <3>3, <3>4, <3>5, <3>6
  <2>4. ~Before(sorted[r], sorted[s])
    <3>1. r \in 0..Last /\ s \in 0..Last
      BY MembersAre
    <3> QED BY <2>3, <3>1 DEF InOrder, SortedIn
  <2>5. sorted[r] \in Members /\ sorted[s] \in Members
    BY DEF InOrder, Orders
  <2> QED BY <2>1, <2>2, <2>4, <2>5, BeforeOrders
<1> QED
  BY <1>3, <1>4

\* t is a table of shards that are dealt and then ordered.
Formed(t) == \E base : Dealt(base, Size) /\ Led(t, base, Cnt)

LEMMA FormedSlots ==
  ASSUME Ranked, NEW t, NEW base, Led(t, base, Cnt), NEW x \in ShardIds
  PROVE  \E q : /\ Mixes(q) /\ \A k \in Slots : q[k] \in Slots /\ t[x][k] = base[x][q[k]]
                /\ Size > 1 => q[0] < Size \div 2
<1>1. x < Cnt
  BY ShapeIs DEF ShardIds
<1>2. PICK q : /\ Mixes(q) /\ t[x] = [k \in Slots |-> base[x][q[k]]]
               /\ Size > 1 => q[0] < Size \div 2
  BY <1>1 DEF Led
<1>3. \A k \in Slots : q[k] \in Slots /\ t[x][k] = base[x][q[k]]
  BY <1>2 DEF Mixes
<1> QED
  BY <1>2, <1>3

LEMMA FormedOnce ==
  ASSUME Ranked, InOrder, NEW t, Formed(t),
         NEW x \in ShardIds, NEW y \in ShardIds, NEW k \in Slots, NEW m \in Slots,
         t[x][k] = t[y][m]
  PROVE  x = y /\ k = m
<1>1. PICK base : Dealt(base, Size) /\ Led(t, base, Cnt)
  BY DEF Formed
<1>2. PICK q : Mixes(q) /\ \A i \in Slots : q[i] \in Slots /\ t[x][i] = base[x][q[i]]
  BY <1>1, FormedSlots
<1>3. PICK p : Mixes(p) /\ \A i \in Slots : p[i] \in Slots /\ t[y][i] = base[y][p[i]]
  BY <1>1, FormedSlots
<1>4. x = y /\ q[k] = p[m]
  <2> DEFINE a == q[k]
             b == p[m]
  <2>1. a \in Slots /\ b \in Slots /\ base[x][a] = base[y][b]
    BY <1>2, <1>3
  <2> HIDE DEF a, b
  <2>2. x = y /\ a = b
    BY <1>1, <2>1, DealtOnce
  <2> QED BY <2>2 DEF a, b
<1>5. t[x][m] = base[x][p[m]] /\ t[x][m] = base[x][q[m]]
  BY <1>2, <1>3, <1>4
<1>6. q[m] = p[m]
  <2> DEFINE a == q[m]
             b == p[m]
  <2>1. a \in Slots /\ b \in Slots /\ base[x][a] = base[x][b]
    BY <1>2, <1>3, <1>5
  <2> HIDE DEF a, b
  <2>2. a = b
    BY <1>1, <2>1, DealtOnce
  <2> QED BY <2>2 DEF a, b
<1> QED
  BY <1>2, <1>4, <1>6 DEF Mixes, IsInjective

LEMMA FormedAll ==
  ASSUME Ranked, InOrder, NEW t, Formed(t), NEW m \in Members
  PROVE  \E x \in ShardIds, k \in Slots : t[x][k] = m
<1>1. PICK base : Dealt(base, Size) /\ Led(t, base, Cnt)
  BY DEF Formed
<1>2. PICK x \in ShardIds, i \in Slots : base[x][i] = m
  BY <1>1, DealtAll
<1>3. PICK q : Mixes(q) /\ \A k \in Slots : q[k] \in Slots /\ t[x][k] = base[x][q[k]]
  BY <1>1, FormedSlots
<1>4. PICK k \in Slots : q[k] = i
  BY <1>3, OneToOneIsOnto, RowsFinite DEF Mixes
<1> QED
  BY <1>2, <1>3, <1>4

\* The ranks of a shard, whatever n shards are ordered.
LEMMA LedRanks ==
  ASSUME Ranked, InOrder, NEW t, NEW base, Dealt(base, Size),
         NEW n, Led(t, base, n), NEW x \in ShardIds
  PROVE  {Rank(t[x][i]) \div Cnt : i \in Slots} = Slots
<1>1. \A k \in Slots : Rank(base[x][k]) \div Cnt = k
  BY DealtRanks
<1>2. CASE x < n
  <2>1. PICK q : Mixes(q) /\ t[x] = [k \in Slots |-> base[x][q[k]]]
    BY <1>2 DEF Led
  <2>2. \A k \in Slots : q[k] \in Slots /\ t[x][k] = base[x][q[k]]
    BY <2>1 DEF Mixes
  <2>3. \A k \in Slots : Rank(t[x][k]) \div Cnt = q[k]
    BY <1>1, <2>2
  <2>4. \A y \in Slots : \E k \in Slots : q[k] = y
    BY <2>1, OneToOneIsOnto, RowsFinite DEF Mixes
  <2> QED BY <2>2, <2>3, <2>4
<1>3. CASE ~(x < n)
  <2>1. t[x] = base[x]
    BY <1>3 DEF Led
  <2> QED BY <1>1, <2>1
<1> QED
  BY <1>2, <1>3

LEMMA FormedLeaders ==
  ASSUME Ranked, InOrder, NEW t, Formed(t), Size > 1, NEW x \in ShardIds
  PROVE  Rank(t[x][0]) \div Cnt < Size \div 2
<1>1. PICK base : Dealt(base, Size) /\ Led(t, base, Cnt)
  BY DEF Formed
<1>2. 0 \in Slots
  BY ShapeIs DEF Slots
<1>3. PICK q : /\ \A k \in Slots : q[k] \in Slots /\ t[x][k] = base[x][q[k]]
               /\ Size > 1 => q[0] < Size \div 2
  BY <1>1, FormedSlots
<1> DEFINE i == q[0]
<1>4. i \in Slots /\ t[x][0] = base[x][i] /\ i < Size \div 2
  BY <1>2, <1>3
<1> HIDE DEF i
<1>5. Rank(base[x][i]) \div Cnt = i
  BY <1>1, <1>4, DealtRanks
<1> QED
  BY <1>4, <1>5

----------------------------------------------------------------------------
(* The invariant.                                                          *)

\* Where member m is in the table is what place says.
Placed(m) ==
  \E x \in ShardIds, i \in Slots :
    /\ table[x][i] = m
    /\ place[m] = [Shard |-> x, InShardId |-> i,
                   Role |-> IF i = 0 THEN Leading ELSE Mining]

Sorting == step = "sort" => now = 0 /\ sorted \in Orders /\ IsInjective(sorted)
Sorted == step # "sort" => InOrder
Dealing == step = "deal" => now \in Slots /\ Dealt(table, now)
Leaders == step = "lead" =>
             now \in ShardIds /\ \E base : Dealt(base, Size) /\ Led(table, base, now)
Forming == step \in {"roles", "done"} => now = 0 /\ Formed(table)
Placing == step = "done" => \A m \in Members : Placed(m)

ShaTypes ==
  /\ Ranked
  /\ step \in {"sort", "deal", "lead", "roles", "done"}
  /\ table \in [ShardIds -> [Slots -> Members \cup {Nobody}]]
  /\ place \in [Members -> [Shard : ShardIds, InShardId : Slots,
                            Role : {Leading, Mining}]]

\* ShardsFormed is not inductive: a state between two rows or two leaders is
\* judged by what has been dealt so far, and a table in which the shards are
\* being ordered by the table as it was dealt.
ShaInv == /\ ShaTypes /\ Sorting /\ Sorted /\ Dealing /\ Leaders /\ Forming /\ Placing

LEMMA ShaInvType == ShaInv => ShaTypeOK
<1> SUFFICES ASSUME ShaInv PROVE ShaTypeOK
  OBVIOUS
<1>1. Cnt \in Nat \ {0} /\ Size \in Nat \ {0}
  BY ShapeIs DEF ShaInv, ShaTypes
<1>2. sorted \in Orders
  BY DEF ShaInv, Sorting, Sorted, InOrder
<1>3. now \in 0..Max({Cnt, Size})
  <2>1. now \in Int /\ 0 <= now /\ (now <= Cnt \/ now <= Size)
    BY <1>1 DEF ShaInv, ShaTypes, Sorting, Dealing, Leaders, Forming, ShardIds, Slots
  <2>2. Max({Cnt, Size}) \in {Cnt, Size} /\ \A k \in {Cnt, Size} : k <= Max({Cnt, Size})
    <3>1. {Cnt, Size} \in SUBSET Int /\ \A k \in {Cnt, Size} : k <= Cnt + Size
      BY <1>1
    <3>2. Cnt + Size \in Int /\ {Cnt, Size} # {}
      BY <1>1
    <3> QED BY <3>1, <3>2, GreatestIs
  <2> QED BY <1>1, <2>1, <2>2
<1> QED
  BY <1>2, <1>3 DEF ShaInv, ShaTypes, ShaTypeOK, Orders

LEMMA ShaInvFormed == ShaInv => ShardsFormed
<1> SUFFICES ASSUME ShaInv PROVE ShardsFormed
  OBVIOUS
<1>1. Ranked
  BY DEF ShaInv, ShaTypes
<1>2. SortCorrect
  <2>1. \A k \in Members : k \in 0..Last
    BY MembersAre
  <2> QED BY <2>1 DEF ShaInv, Sorted, InOrder, SortedIn, SortCorrect
<1>3. Partitioned
  <2> SUFFICES ASSUME step = "done", NEW m \in Members
               PROVE  /\ table[place[m].Shard][place[m].InShardId] = m
                      /\ place[m].Role = Leading <=> place[m].InShardId = 0
                      /\ \A x \in ShardIds : \A i \in Slots :
                           table[x][i] = m => x = place[m].Shard /\ i = place[m].InShardId
    BY DEF Partitioned
  <2>1. InOrder /\ Formed(table) /\ Placed(m)
    BY DEF ShaInv, Sorted, Forming, Placing
  <2>2. PICK x \in ShardIds, i \in Slots :
          /\ table[x][i] = m
          /\ place[m] = [Shard |-> x, InShardId |-> i,
                         Role |-> IF i = 0 THEN Leading ELSE Mining]
    BY <2>1 DEF Placed
  <2>3. \A y \in ShardIds : \A k \in Slots : table[y][k] = m => y = x /\ k = i
    BY <1>1, <2>1, <2>2, FormedOnce
  <2> QED BY <2>2, <2>3 DEF Leading, Mining
<1>4. Balanced
  <2> SUFFICES ASSUME step \in {"lead", "roles", "done"}, NEW x \in ShardIds
               PROVE  {Rank(table[x][i]) \div Cnt : i \in Slots} = Slots
    BY DEF Balanced
  <2>1. InOrder
    BY DEF ShaInv, Sorted
  <2>2. \E base, n : Dealt(base, Size) /\ Led(table, base, n)
    BY DEF ShaInv, Leaders, Forming, Formed
  <2> QED BY <1>1, <2>1, <2>2, LedRanks
<1>5. LeaderOfUpperHalf
  BY <1>1, FormedLeaders DEF LeaderOfUpperHalf, ShaInv, Sorted, Forming
<1> QED
  BY <1>2, <1>3, <1>4, <1>5 DEF ShardsFormed

LEMMA ShaInitInv == ShaInit => ShaInv
<1> SUFFICES ASSUME ShaInit PROVE ShaInv
  OBVIOUS
<1>1. Ranked
  BY DEF ShaInit, Ranked
<1>2. sorted \in Orders /\ IsInjective(sorted)
  BY DEF ShaInit, Orders, IsInjective
<1>3. ShaTypes
  <2>1. 0 \in ShardIds /\ 0 \in Slots
    BY <1>1, ShapeIs DEF ShardIds, Slots
  <2> QED BY <1>1, <2>1 DEF ShaTypes, ShaInit
<1> QED
  BY <1>2, <1>3 DEF ShaInv, ShaInit, Sorting, Sorted, Dealing, Leaders, Forming, Placing

\* A step leaves the members, their reputation and the shape alone.
LEMMA SameShape ==
  ASSUME UNCHANGED <<shape, rep>>
  PROVE  /\ Cnt' = Cnt /\ Size' = Size /\ ShardIds' = ShardIds /\ Slots' = Slots
         /\ (Ranked' <=> Ranked)
         /\ \A a, b : Before(a, b)' <=> Before(a, b)
BY DEF Cnt, Size, ShardIds, Slots, Ranked, Before

LEMMA SortStep ==
  ASSUME ShaInv, Sort
  PROVE  ShaInv'
<1> DEFINE s == [a |-> sorted, l |-> 0, r |-> Last]
<1>1. /\ step = "sort" /\ sorted' = SortRep[s] /\ step' = "deal"
      /\ UNCHANGED <<shape, rep, now, table, place>>
  BY DEF Sort
<1>2. Ranked /\ now = 0 /\ sorted \in Orders /\ IsInjective(sorted)
  BY <1>1 DEF ShaInv, ShaTypes, Sorting
<1>3. 0 \in Slots /\ 0 \in Members /\ Last \in Members
  <2>1. 0 \in Slots /\ 0 \in ShardIds /\ Cnt \in Nat \ {0}
    BY <1>2, ShapeIs DEF Slots, ShardIds
  <2>2. 0 * Cnt + 0 \in Members
    BY <1>2, <2>1, RowAndSlot
  <2>3. 0 \in Members
    BY <2>1, <2>2
  <2> QED BY <2>1, <2>3, MembersAre
<1>4. s \in Spans /\ s.a = sorted /\ s.l = 0 /\ s.r = Last
  BY <1>2, <1>3 DEF Spans
<1> HIDE DEF s
<1>5. Rearranges(sorted, SortRep[s], 0, Last) /\ SortedIn(SortRep[s], 0, Last)
  BY <1>2, <1>4, SortRepSorts
<1>6. InOrder'
  <2>1. sorted' \in Orders /\ IsInjective(sorted')
    BY <1>1, <1>2, <1>5 DEF Rearranges
  <2>2. SortedIn(sorted, 0, Last)'
    BY <1>1, <1>5, SameShape DEF SortedIn
  <2> QED BY <2>1, <2>2 DEF InOrder
<1>7. ShaTypes'
  BY <1>1, SameShape DEF ShaInv, ShaTypes
<1>8. Dealing'
  <2>1. now' \in Slots'
    BY <1>1, <1>2, <1>3, SameShape
  <2>2. \A k \in Slots : ~(k < 0)
    BY <1>2, ShapeIs DEF Slots
  <2>3. Dealt(table, now)'
    BY <1>1, <1>2, <2>2, SameShape DEF Dealt
  <2> QED BY <2>1, <2>3 DEF Dealing
<1> QED
  BY <1>1, <1>6, <1>7, <1>8 DEF ShaInv, Sorting, Sorted, Leaders, Forming, Placing

\* A row more is dealt.
LEMMA DealtMore ==
  ASSUME Ranked, table \in [ShardIds -> [Slots -> Members \cup {Nobody}]],
         NEW n \in Slots, Dealt(table, n), NEW p, Deals(p), NEW t,
         t = [x \in ShardIds |-> [table[x] EXCEPT ![n] = sorted[n * Cnt + p[x]]]]
  PROVE  Dealt(t, n + 1)
<1> SUFFICES ASSUME NEW k \in Slots, k < n + 1
             PROVE  \E q : Deals(q) /\ \A x \in ShardIds : t[x][k] = sorted[k * Cnt + q[x]]
  BY DEF Dealt
<1>1. k \in Int /\ n \in Int
  BY ShapeIs DEF Slots
<1>2. CASE k = n
  <2>1. \A x \in ShardIds : t[x][k] = sorted[k * Cnt + p[x]]
    BY <1>2
  <2> QED BY <2>1
<1>3. CASE k # n
  <2>1. k < n
    BY <1>1, <1>3
  <2>2. PICK q : Deals(q) /\ \A x \in ShardIds : table[x][k] = sorted[k * Cnt + q[x]]
    BY <2>1 DEF Dealt
  <2>3. \A x \in ShardIds : t[x][k] = table[x][k]
    BY <1>3
  <2> QED BY <2>2, <2>3
<1> QED
  BY <1>2, <1>3

LEMMA DealStep ==
  ASSUME ShaInv, Deal
  PROVE  ShaInv'
<1>1. PICK p \in {q \in [ShardIds -> ShardIds] : IsInjective(q)} :
        table' = [x \in ShardIds |-> [table[x] EXCEPT ![now] = sorted[now * Cnt + p[x]]]]
  BY DEF Deal
<1>2. /\ step = "deal" /\ UNCHANGED <<shape, rep, sorted, place>>
      /\ IF now + 1 < Size THEN now' = now + 1 /\ step' = step
                           ELSE now' = 0 /\ step' = "lead"
  BY DEF Deal
<1>3. /\ Ranked /\ InOrder /\ now \in Slots /\ Dealt(table, now)
      /\ table \in [ShardIds -> [Slots -> Members \cup {Nobody}]]
  BY <1>2 DEF ShaInv, ShaTypes, Sorted, Dealing
<1>4. Deals(p)
  BY DEF Deals
<1>5. Dealt(table', now + 1)
  BY <1>1, <1>3, <1>4, DealtMore
<1>6. table' \in [ShardIds -> [Slots -> Members \cup {Nobody}]]
  <2>1. \A x \in ShardIds : p[x] \in ShardIds /\ now * Cnt + p[x] \in Members
    <3> SUFFICES ASSUME NEW x \in ShardIds
                 PROVE  p[x] \in ShardIds /\ now * Cnt + p[x] \in Members
      OBVIOUS
    <3>1. p[x] \in ShardIds
      BY <1>4 DEF Deals
    <3> DEFINE c == p[x]
    <3> HIDE DEF c
    <3>2. now * Cnt + c \in Members
      BY <1>3, <3>1, RowAndSlot DEF c
    <3> QED BY <3>1, <3>2 DEF c
  <2>2. \A x \in ShardIds : sorted[now * Cnt + p[x]] \in Members
    BY <1>3, <2>1 DEF InOrder, Orders
  <2> QED BY <1>1, <1>3, <2>2
<1>7. ShaTypes'
  <2>1. step' \in {"deal", "lead"}
    BY <1>2
  <2> QED BY <1>2, <1>6, <2>1, SameShape DEF ShaInv, ShaTypes
<1>8. InOrder'
  BY <1>2, <1>3, SameShape DEF InOrder, SortedIn
<1>9. \A t, n : Dealt(t, n) <=> Dealt(t, n)'
  BY <1>2, SameShape DEF Dealt, Deals
<1>10. Size \in Nat \ {0} /\ Cnt \in Nat \ {0} /\ now \in Int /\ now >= 0 /\ now < Size
  BY <1>3, ShapeIs DEF Slots
<1>11. CASE now + 1 < Size
  <2>1. now' = now + 1 /\ step' = "deal"
    BY <1>2, <1>11
  <2>2. now' \in Slots'
    BY <1>2, <1>10, <1>11, <2>1, SameShape DEF Slots
  <2>3. Dealt(table, now)'
    BY <1>2, <1>5, <2>1, SameShape DEF Dealt, Deals
  <2> QED BY <1>7, <1>8, <2>1, <2>2, <2>3
          DEF ShaInv, Sorting, Sorted, Dealing, Leaders, Forming, Placing
<1>12. CASE ~(now + 1 < Size)
  <2>1. now' = 0 /\ step' = "lead" /\ now + 1 = Size
    BY <1>2, <1>10, <1>12
  <2>2. now' \in ShardIds'
    BY <1>2, <1>10, <2>1, SameShape DEF ShardIds
  <2>3. Dealt(table', Size)
    BY <1>5, <2>1
  <2>4. \A x \in ShardIds : ~(x < 0)
    BY <1>10 DEF ShardIds
  <2>5. Led(table', table', 0)
    BY <2>4 DEF Led
  <2>6. (\E base : Dealt(base, Size) /\ Led(table, base, now))'
    <3>1. Dealt(table, Size)'
      BY <1>2, <2>3, SameShape DEF Dealt, Deals
    <3>2. Led(table, table, now)'
      BY <1>2, <2>1, <2>4, SameShape DEF Led
    <3> QED BY <3>1, <3>2
  <2> QED BY <1>7, <1>8, <2>1, <2>2, <2>6
          DEF ShaInv, Sorting, Sorted, Dealing, Leaders, Forming, Placing
<1> QED
  BY <1>11, <1>12

LEMMA SameTable ==
  ASSUME UNCHANGED <<shape, rep, sorted, table>>
  PROVE  /\ \A b : Dealt(b, Size) => Dealt(b, Size)'
         /\ \A b, n : Led(table, b, n) => Led(table, b, n)'
         /\ \A b : Led(table, b, Cnt) => Led(table, b, Cnt)'
<1>1. ASSUME NEW b, Dealt(b, Size) PROVE Dealt(b, Size)'
  BY <1>1, SameShape DEF Dealt, Deals
<1>2. ASSUME NEW b, NEW n, Led(table, b, n) PROVE Led(table, b, n)'
  BY <1>2, SameShape DEF Led, Mixes
<1>3. ASSUME NEW b, Led(table, b, Cnt) PROVE Led(table, b, Cnt)'
  BY <1>3, SameShape DEF Led, Mixes
<1> QED
  BY <1>1, <1>2, <1>3

LEMMA LeaderSortStep ==
  ASSUME ShaInv, LeaderSort
  PROVE  ShaInv'
<1>1. PICK rnd \in Draws : table' = [table EXCEPT ![now] = Ordered(@, rnd)]
  BY DEF LeaderSort, Draws
<1>2. /\ step = "lead" /\ UNCHANGED <<shape, rep, sorted, place>>
      /\ IF now + 1 < Cnt THEN now' = now + 1 /\ step' = step
                          ELSE now' = 0 /\ step' = "roles"
  BY DEF LeaderSort
<1>3. /\ Ranked /\ InOrder /\ now \in ShardIds
      /\ table \in [ShardIds -> [Slots -> Members \cup {Nobody}]]
  BY <1>2 DEF ShaInv, ShaTypes, Sorted, Leaders
<1>4. PICK base : Dealt(base, Size) /\ Led(table, base, now)
  BY <1>2 DEF ShaInv, Leaders
<1>5. Size \in Nat \ {0} /\ Cnt \in Nat \ {0} /\ now \in Int /\ now >= 0 /\ now < Cnt
  BY <1>3, ShapeIs DEF ShardIds
<1> DEFINE row == table[now]
<1>6. row = base[now]
  BY <1>3, <1>4, <1>5 DEF Led
<1>7. row \in [Slots -> Members]
  <2>1. \A k \in Slots : row[k] \in Members
    <3> HIDE DEF row
    <3> QED BY <1>3, <1>4, <1>6, DealtRanks
  <2>2. row \in [Slots -> Members \cup {Nobody}]
    BY <1>3
  <2> HIDE DEF row
  <2> QED BY <2>1, <2>2
<1>8. Best(row)
  <2> HIDE DEF row
  <2> QED BY <1>3, <1>4, <1>6, <1>7, DealtBest
<1>9. PICK q : /\ Mixes(q) /\ Ordered(row, rnd) = [k \in Slots |-> row[q[k]]]
               /\ Size > 1 => q[0] < Size \div 2
  <2> HIDE DEF row
  <2> QED BY <1>3, <1>7, <1>8, OrderedMixes
<1>10. table'[now] = [k \in Slots |-> row[q[k]]]
  BY <1>1, <1>3, <1>9
<1>11. \A x \in ShardIds : x # now => table'[x] = table[x]
  BY <1>1, <1>3
<1>12. table' \in [ShardIds -> [Slots -> Members \cup {Nobody}]]
  <2>1. \A k \in Slots : q[k] \in Slots
    BY <1>9 DEF Mixes
  <2>2. Ordered(row, rnd) \in [Slots -> Members \cup {Nobody}]
    <3> HIDE DEF row
    <3> QED BY <1>7, <1>9, <2>1
  <2> QED BY <1>1, <1>3, <2>2
<1> HIDE DEF row
<1>13. Led(table', base, now + 1)
  <2> SUFFICES ASSUME NEW x \in ShardIds
               PROVE  IF x < now + 1
                        THEN \E p : /\ Mixes(p)
                                    /\ table'[x] = [k \in Slots |-> base[x][p[k]]]
                                    /\ Size > 1 => p[0] < Size \div 2
                        ELSE table'[x] = base[x]
    BY DEF Led
  <2>1. x \in Int
    BY <1>5 DEF ShardIds
  <2>2. CASE x = now
    <3>1. x < now + 1
      BY <1>5, <2>2
    <3>2. table'[x] = [k \in Slots |-> base[x][q[k]]]
      BY <1>6, <1>10, <2>2
    <3> QED BY <1>9, <3>1, <3>2
  <2>3. CASE x # now
    <3>1. table'[x] = table[x] /\ (x < now + 1 <=> x < now)
      BY <1>5, <1>11, <2>1, <2>3
    <3>2. IF x < now
            THEN \E p : /\ Mixes(p)
                        /\ table[x] = [k \in Slots |-> base[x][p[k]]]
                        /\ Size > 1 => p[0] < Size \div 2
            ELSE table[x] = base[x]
      BY <1>4 DEF Led
    <3> QED BY <3>1, <3>2
  <2> QED BY <2>2, <2>3
<1>14. ShaTypes'
  <2>1. step' \in {"lead", "roles"}
    BY <1>2
  <2> QED BY <1>2, <1>12, <2>1, SameShape DEF ShaInv, ShaTypes
<1>15. InOrder'
  BY <1>2, <1>3, SameShape DEF InOrder, SortedIn
<1>16. Dealt(base, Size)'
  BY <1>2, <1>4, SameShape DEF Dealt, Deals
<1>17. CASE now + 1 < Cnt
  <2>1. now' = now + 1 /\ step' = "lead"
    BY <1>2, <1>17
  <2>2. now' \in ShardIds'
    BY <1>2, <1>5, <1>17, <2>1, SameShape DEF ShardIds
  <2>3. Led(table, base, now)'
    BY <1>2, <1>13, <2>1, SameShape DEF Led, Mixes
  <2> QED BY <1>14, <1>15, <1>16, <2>1, <2>2, <2>3
          DEF ShaInv, Sorting, Sorted, Dealing, Leaders, Forming, Placing
<1>18. CASE ~(now + 1 < Cnt)
  <2>1. now' = 0 /\ step' = "roles" /\ now + 1 = Cnt
    BY <1>2, <1>5, <1>18
  <2>2. Led(table, base, Cnt)'
    BY <1>2, <1>13, <2>1, SameShape DEF Led, Mixes
  <2>3. Formed(table)'
    BY <1>16, <2>2 DEF Formed
  <2> QED BY <1>14, <1>15, <2>1, <2>3
          DEF ShaInv, Sorting, Sorted, Dealing, Leaders, Forming, Placing
<1> QED
  BY <1>17, <1>18

LEMMA SetRolesStep ==
  ASSUME ShaInv, SetRoles
  PROVE  ShaInv'
<1>1. /\ step = "roles" /\ place' = [m \in Members |-> PlaceAt(m)] /\ step' = "done"
      /\ UNCHANGED <<shape, rep, now, sorted, table>>
  BY DEF SetRoles
<1>2. Ranked /\ InOrder /\ now = 0 /\ Formed(table)
  BY <1>1 DEF ShaInv, ShaTypes, Sorted, Forming
<1>3. ASSUME NEW m \in Members
      PROVE  \E x \in ShardIds, i \in Slots :
               /\ table[x][i] = m
               /\ place'[m] = [Shard |-> x, InShardId |-> i,
                               Role |-> IF i = 0 THEN Leading ELSE Mining]
  <2> DEFINE slots == {s \in ShardIds \X Slots : table[s[1]][s[2]] = m}
             at == CHOOSE s \in slots : TRUE
  <2>1. PICK x \in ShardIds, k \in Slots : table[x][k] = m
    BY <1>2, FormedAll
  <2>2. <<x, k>> \in slots
    BY <2>1
  <2>3. at \in slots /\ slots # {}
    BY <2>2
  <2>4. at[1] \in ShardIds /\ at[2] \in Slots /\ table[at[1]][at[2]] = m
    <3>1. at \in ShardIds \X Slots /\ table[at[1]][at[2]] = m
      BY <2>3
    <3> HIDE DEF at
    <3> QED BY <3>1
  <2>5. PlaceAt(m) = [Shard |-> at[1], InShardId |-> at[2],
                      Role |-> IF at[2] = 0 THEN Leading ELSE Mining]
    BY <2>3 DEF PlaceAt
  <2> HIDE DEF at
  <2> QED BY <1>1, <2>4, <2>5
<1>4. place' \in [Members -> [Shard : ShardIds, InShardId : Slots,
                              Role : {Leading, Mining}]]
  BY <1>1, <1>3
<1>5. ShaTypes'
  BY <1>1, <1>4, SameShape DEF ShaInv, ShaTypes
<1>6. Placing'
  BY <1>1, <1>3, SameShape DEF Placing, Placed
<1>7. Forming'
  BY <1>1, <1>2, SameTable DEF Forming, Formed
<1>8. InOrder'
  BY <1>1, <1>2, SameShape DEF InOrder, SortedIn
<1> QED
  BY <1>1, <1>5, <1>6, <1>7, <1>8
  DEF ShaInv, Sorting, Sorted, Dealing, Leaders

LEMMA ShaInvKept == ShaInv /\ [ShaNext]_shaVars => ShaInv'
<1> SUFFICES ASSUME ShaInv, [ShaNext]_shaVars PROVE ShaInv'
  OBVIOUS
<1>1. CASE Sort
  BY <1>1, SortStep
<1>2. CASE Deal
  BY <1>2, DealStep
<1>3. CASE LeaderSort
  BY <1>3, LeaderSortStep
<1>4. CASE SetRoles
  BY <1>4, SetRolesStep
<1>5. CASE UNCHANGED shaVars
  <2>1. UNCHANGED <<shape, rep, step, now, sorted, table, place>>
    BY <1>5 DEF shaVars
  <2>2. ShaTypes' /\ Sorting'
    BY <2>1, SameShape DEF ShaInv, ShaTypes, Sorting
  <2>3. Sorted'
    BY <2>1, SameShape DEF ShaInv, Sorted, InOrder, SortedIn
  <2>4. Dealing'
    BY <2>1, SameShape DEF ShaInv, Dealing, Dealt, Deals
  <2>5. Leaders'
    <3> SUFFICES ASSUME step = "lead"
                 PROVE  /\ now \in ShardIds'
                        /\ (\E base : Dealt(base, Size) /\ Led(table, base, now))'
      BY <2>1 DEF Leaders
    <3>1. PICK base : Dealt(base, Size) /\ Led(table, base, now)
      BY DEF ShaInv, Leaders
    <3>2. Dealt(base, Size)'
      BY <2>1, <3>1, SameTable
    <3>3. Led(table, base, now)'
      BY <2>1, <3>1, SameShape DEF Led, Mixes
    <3>4. now \in ShardIds'
      BY <2>1, SameShape DEF ShaInv, Leaders
    <3> QED BY <3>2, <3>3, <3>4
  <2>6. Forming'
    BY <2>1, SameTable DEF ShaInv, Forming, Formed
  <2>7. Placing'
    BY <2>1, SameShape DEF ShaInv, Placing, Placed
  <2> QED BY <2>2, <2>3, <2>4, <2>5, <2>6, <2>7 DEF ShaInv
<1> QED
  BY <1>1, <1>2, <1>3, <1>4, <1>5 DEF ShaNext

\* Shard formation keeps its invariant.
THEOREM ShardingInvariant == ShaSpec => []ShaInv
<1> QED
  BY ShaInitInv, ShaInvKept, PTL DEF ShaSpec

\* The list, the table, the places and the counters of Sharding keep their
\* types: no row, slot or shard is out of the bounds of the arrays.
THEOREM ShaTypeCorrect == ShaSpec => []ShaTypeOK
<1> QED
  BY ShardingInvariant, ShaInvType, PTL

\* Whatever the members, their reputation, the ties and the random numbers are:
\* SortRep sorts, the shards are a partition of the members, equally strong,
\* and each is led by one of its better half (shard_func.go).
THEOREM ShardsAreFormed == ShaSpec => []ShardsFormed
<1> QED
  BY ShardingInvariant, ShaInvFormed, PTL

----------------------------------------------------------------------------
(***************************************************************************)
(* The composition.                                                        *)
(***************************************************************************)

\* A step of the composition is a step of one part, or of none.
LEMMA StepOfParts ==
  ASSUME [Next]_tableVars
  PROVE  /\ [AccNext]_accVars /\ [DecNext]_decVars /\ [CosNext]_cosVars
         /\ [ShaNext]_shaVars /\ [ChainNext]_chainVars /\ [VotNext]_votVars
         /\ [LedNext]_ledVars
BY DEF Next, tableVars

\* Composed as in MCTables, every part behaves as its own specification says:
\* none disturbs what another keeps.
THEOREM PartsBehave ==
  Spec => /\ AccSpec /\ DecSpec /\ CosSpec /\ ShaSpec /\ ChainSpec /\ VotSpec
          /\ LedSpec
<1>1. Init => /\ AccInit /\ DecInit /\ CosInit /\ ShaInit /\ ChainInit
              /\ VotInit /\ LedInit
  BY DEF Init
<1> QED
  BY <1>1, StepOfParts, PTL
  DEF Spec, AccSpec, DecSpec, CosSpec, ShaSpec, ChainSpec, VotSpec, LedSpec

\* Type correctness of the composition.
THEOREM TablesTypeCorrect == Spec => []TypeOK
<1>1. AccTypeOK /\ DecTypeOK /\ CosTypeOK /\ ShaTypeOK /\ ChainTypeOK
        /\ VotTypeOK /\ LedTypeOK => TypeOK
  BY DEF TypeOK
<1> QED
  BY <1>1, PartsBehave, AccTypeCorrect, DecTypeCorrect, CosTypeCorrect,
     ShaTypeCorrect, ChainTypeCorrect, VotTypeCorrect, LedTypeCorrect, PTL

\* Every invariant of the run holds of the composition, with the promises of
\* the record and of the start blocks.
TablesSafe ==
  /\ Accounted /\ NoOverdraft /\ AggrIsEnabled /\ ShardsFormed
  /\ EpochReadable /\ SyncLinks /\ VotesReadable /\ VotesCounted
  /\ TipsStored /\ OwnFinalStored /\ BalancesOfFinal

\* The composition keeps the books, the sum of the keys, the shards, the
\* chains of blocks and the votes right, the record of a decision its promise
\* and the miners the balances of their leader.
THEOREM TablesCorrect == Spec => []TablesSafe /\ DecisionSound /\ StartAgrees
<1>1. Accounted /\ NoOverdraft /\ AggrIsEnabled /\ ShardsFormed
        /\ EpochReadable /\ SyncLinks /\ VotesReadable /\ VotesCounted
        /\ TipsStored /\ OwnFinalStored /\ BalancesOfFinal
        => TablesSafe
  BY DEF TablesSafe
<1> QED
  BY <1>1, PartsBehave, BalancesAccounted, BalancesCovered, SumOfEnabled,
     ShardsAreFormed, EpochIsReadable, SyncBlocksLinked, VotesAreReadable,
     VotesAreCounted, RecordKeepsPromise, TipsAreStored, OwnFinalIsStored,
     BalancesAreFinal, EpochsAgree, PTL
=============================================================================
