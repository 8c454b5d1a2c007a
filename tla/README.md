# RC2: specifications, model checking and proofs

RC2 is a sharded blockchain with reputation, written in Go. A shard has one
leader and a fixed number of miners. In every epoch the leader proposes lists of
transactions, the miners vote on them, the leader publishes the decisions and a
block per list, and all members gossip about each other's reputation. This
directory holds TLA+ models of that code, TLC configurations that check them on
small shards, and TLAPS proofs of their main properties for shards of any size.
Paths below are relative to `src/`; `network/` stands for
`testforclient/network/`.

## 1. Inventory

A process starts in `main.go`: it reads its configuration
(`IntilizeProcess`), listens (`StartServer`), forms the shard (`ShardProcess`),
and starts `RepGossipLoop` and, depending on its role, `TxGeneralLoop` or
`MinerLoop`; then it waits on `CheckChan`. In this version `gVar.ShardCnt` is 1
and many callers are commented out: those of `SyncProcess`,
`LeaderCosiProcess`, `MemberCosiProcess` and `RepProcessLoop`, all of
`FBProtocol.go` and `rollingProtocol.go`, and the bodies of `MakeTXList`,
`GetTDS` and `GetTxBlock`. The handlers are registered and the operations are
exported all the same; the modules model what they do when they are called in
the order the code is laid out for, for any number of shards and epochs, and say
so where a commented-out body leaves a gap.

| Part | State | Operations | What must hold |
|---|---|---|---|
| Network server (`network/client.go`) | the listening socket | `StartServer` starts a goroutine per command; `sendData` dials once and drops the message when that fails | nothing is promised: messages are lost, delayed, reordered |
| Reputation gossip (`network/newRepProtocol.go`, `rccache/cache_rep.go`, `NewRep/`) | `RepFirMsg/RepFirSig`, `RepSecMsg/RepSecSig`, `RepByz`, `RepVote`, `RepHash` per round | `NewRepProcess`, `HandleGossip{Fir,Sec}{Send,Rev}` | blocks agree on honest members' messages, only equivocators are accused, each round ends |
| Transaction rounds, leader (`network/TransactionProtocol.go`, `rccache/cache_leader.go`) | `Now`, `TLIndex`, the `TLSCache/TDSCache/TBBCache` arrays and their `Check` flags, `TDSCnt`, the channels `TLChan`, `TBChan`, `TBBChan` | `TxListProcess`, `TxNormalBlock`, `HandleTxDecLeader`, `HandleTxDecSetLeader` | sets and blocks in round order, the signed set is what miners get |
| Transaction rounds, miner (`network/TransactionProtocolMiner.go`, `rccache/cache_miner.go`) | the same arrays, `TDSChan`, `TBChan` | `HandleTxList`, `HandleTxDecSet`, `HandleTxBlock`, `HandleTxLoopMiner` and the queries `QTL`, `QTDS`, `QTB` | blocks stored in order, no signal between handlers lost, every round ends |
| Packet checks (`rccache/getPacket.go`) | none | `PreTxList`, `PreTxDecision`, `PreTxDecSet`, `PreTxBlock` | what an honest miner sends passes; callers ignore their errors |
| Gossip target (`rccache/gossip.go`) | `GossipPool` | `GetGossipID` | every member is chosen again and again |
| Shard formation (`shard/`) | `GlobalGroupMems`, `ShardToGlobal` | `GenerateSeed`, `Sharding`, `SortRep`, `LeaderSort` | a sorted list, every member in one place, equally strong shards |
| Shard ready (`network/ShardProtocol.go`) | `readyMemberCh`, masks, `SentLeaderReadyFlag` | `LeaderReadyProcess`, `MinerReadyProcess` | the leader starts only with two thirds of the shard |
| CoSi on reputation blocks (`network/CoSiRepProtocol.go`, `Reputation/cosi/`) | commit and response masks, counts | `LeaderCoSiRepProcess`, `MemberCoSiRepProcess` and their handlers | the signature covers the members the mask names |
| Cosigners (`Reputation/cosi/cosi.go`) | keys, mask, aggregate key | `NewCosigners`, `SetMask`, `SetMaskBit`, `CountEnabled` | the aggregate is that of the enabled keys |
| Sync (`network/SyncProtocol.go`, `Reputation/SyncBlock.go`) | channels per shard, `aski`, `FB`, `PreviousSyncBlockHash`, `TotalRep` | `SyncProcess`, `ReceiveSyncProcess`, `HandleRequestSync` | all end the epoch with the same seed, reputations and final blocks |
| Reputation chain (`Reputation/`) | the bucket of blocks, `Tip`, `CurrentRepBlock`, `CurrentSyncBlock`, `StartFlag` | `MineRepBlock`, `AddRepSig`, `AddRepBlockFromOthers`, `AddSyncBlock`, `AddSyncBlockFromOtherShards`, the iterator | an epoch can be read back from the tip |
| Reputation mining (`network/RepProtocol.go`) | nonces | `RepProcessLoop` | not started |
| Ledger (`rccache/txBlockChain.go`, `cache_leader.go`, `cache_miner.go`, `basic/block.go`, `basic/utxo.go`) | BoltDB buckets, `LastTB`, `LastFB`, `Height`, `AccData`, `TXCache`, `DbRef.TxB`, `DbRef.FB` | `AddBlock`, `AddFinalBlock`, `AddStartBlock`, `Generate...Block`, `Get...Block`, `UpdateUTXO`, `LockUTXO`, ... | tips name stored blocks, balances are those of the final blocks, no value is spent twice |
| Cross-shard decisions (`rccache/txDatabase.go`) | `InCheck`, `InCheckSum`, `Res` per transaction | `New`, `Update`, `NewFromOther`, `UpdateFromOther` | the verdict depends on the decisions and not on their order |
| Types and codecs (`basic/`) | none | encode, decode, hash, sign | decoding inverts encoding as far as a signature needs |

The parts meet in `DbRef`, one structure behind one mutex `Mu`. The hard
behaviour is that each message is handled in a goroutine of its own, that some
of these look at `DbRef` outside the mutex (the `Check` flags, the reset at the
head of `NewRepProcess`, the wait for `RepSecSig`), that rounds overlap, and that
the goroutines of one round synchronise through channels of capacity one.
`PROJECT.json` lists these hazards one by one, each at its line, with the
properties that would show it going wrong.

## 2. Modules

| Module | What it is |
|---|---|
| `RepGossip` | one round of the two-phase reputation gossip of a shard |
| `RepGossip_proofs` | its inductive invariant and theorems |
| `TxRound` | the transaction rounds of one epoch: leader, miners, gossip, queries |
| `OrderedCommit` | what the transaction rounds promise, without messages or handlers |
| `TxRound_proofs` | the inductive invariant, the theorems, the refinement of `OrderedCommit` |
| `CoSi` | collective signing of the reputation blocks of an epoch: leader and miners over several rounds |
| `CoSi_proofs` | its inductive invariant and theorems |
| `ShardReady` | the start of an epoch: the leader, its miners and the other leaders, over several epochs |
| `MCShardReady` | the assignments of members and leaders to shards that TLC uses |
| `ShardReady_proofs` | the inductive invariant of `ShardReady` and its theorems |
| `Sync` | the end of an epoch: one node gathers the blocks of the other shards while all go on |
| `MCSync` | the shards of three epochs that TLC uses |
| `Sync_proofs` | the invariants of `Sync` and its theorems |
| `Utxo` | pure operators: balances, locks and transactions, numbers of a machine word |
| `Accounts` | the balances of one process under checks, locks, blocks, saves and reloads |
| `Utxo_proofs` | lemmas: induction over numbers, finite sets and recursive functions, sums, remainders, what each operator of `Utxo` does to one balance |
| `Ledger` | the chain of blocks of leaders and miners of several shards (uses `Utxo`) |
| `Ledger_proofs` | its inductive invariant and theorems |
| `CrossVote` | what a cross-shard decision promises |
| `CrossShardDec` | the record of a transaction in `TXCache`, which implements it |
| `Cosigners` | masks and the aggregate key of the CoSi library |
| `Sharding` | from the reputations to the shards |
| `RepChain` | the blocks of the reputation chain, its tip and its iterator |
| `Votes` | a miner's vote, bit by bit, from the list to the leader's decision set |
| `MCTables` | `Accounts`, `CrossShardDec`, `Cosigners`, `Sharding`, `RepChain`, `Votes` and `Ledger` side by side in one instance for TLC |
| `Tables_proofs` | the inductive invariants and theorems of those parts and of the instance |

### RepGossip

`pc[n]` is the place of `NewRepProcess(round)` of member `n`: `reset` (the loop
that clears the tables, one entry per step since it does not take the mutex),
`fir`, `sec`, `block`, `done`, `down`, or `panic` when a handler has ended the
program. `fir[n][m]` is `RepFirMsg[round][m]`
(`None` while `RepFirSig` is false), `sec[n][m]` likewise, `byz[n]` is `RepByz`.
The content of a RepMsg is the version `view[n]` of the state it is made from
(`TBCache`, `RepVote`): it grows when a transaction block is appended
(`AppendTxBlock`) and, when the round's window counts `RepVote[RepRound]`
(`VoteWeight = 1`), with each gossip message handled (`Credited`). A RepSecMsg
is the vector of RepMsgs it signs. Signatures are left out: the handlers do not
check them.

One action per critical section: `SendFir`/`EndFir` and `SendSec`/`EndSec` are a
turn of the two loops with `GenerateGossipFir`/`Sec`, `GetRepBlock` the end,
`HandleGossipFirSend` and the three others the handlers with
`UpdateGossipFir`/`Sec` and the reply. `HandleGossipSecSend` puts a message in
`held` when it prints "Not ready", and `ResumeGossipSecSend` is the second half.
Handlers may run while `pc` is `reset`, since the server listens before
`NewRepProcess` starts, and the reset goes on inside them: it takes no lock. Of
all a handler works on, nothing but the reset of its own member changes under
it, so a handler is still one action, with the entries the reset passes
meanwhile as a choice (`Races`): each before the handler copies its flag
(`cache_rep.go:118-120`), before the handler stores or compares it (121-132), or
before it ends. `Copied`, `Met` and `Updated` are the table at these three
moments; no two entries are passed out of order. When the copy of
`HandleGossipFirSend` leaves no entry, line 110 ends the program. `LoseFir`, `LoseSec` and `Crash` are the environment.

### TxRound

`loop[r]` is the place of the leader's `TxListProcess` of round `r`; its value
`done` also stands for the signal in `TBChan[r]` at the leader. `memD[r]` is the
leader's live decision set, `signed[r]` what `SignTDS` signed. `lists`,
`tdsCheck`, `tds`, `tbCheck` and `blocks` are the flags and caches, `tdsChan`
and `tbChan` the channels of capacity one. A handler of a miner is a record of
`jobs` with a stage: `check` (past the unlocked test of its flag, not yet set),
then for a decision set `signal` and `store`, for a block `await`, `get` and
`pass`; each stage ends at a blocking channel operation or at the mutex.
A query and its answer are one action, `Query`: the answer is what the queried
member caches at that time, and may be lost later like any message. A gossip of
`level` posts any part of one message for each level from `level` down, each to
any other member.

### OrderedCommit

Four sets of rounds: `decided` and `produced` by the leader, `known` and
`applied` per miner. A round is decided and produced in order, learned once it
is decided, applied in order once it is produced and known. `TxRound` implements
it with `decided` the rounds whose loop is done, `produced` the leader's blocks,
`known` the miners' `TDSCheck` flags and `applied` their blocks.

### CoSi

`pc` is the place of each node's process: for the leader `commit` (the loop that
collects commitments), `respond` (the loop that collects responses), `idle`
between two rounds; for a miner `announce`, `challenge` and `sig`, the three
loops of `MemberCoSiRepProcess`. `commits[n]` is what the leader has of node
`n`, and the bits of `cosimask` are the nodes for which it has something;
`sigParts` and `responsemask` likewise. `CosiData[r]` is the signature of round
`r`, `repSig[m][r]` the `Cosig` a miner stored with its block.

A commitment is named by the round it was made in, a part by that round and the
hash of the node's own block (which for a node of `Divergent` differs from the
leader's): `Cosign`, `AggregateSignature`, `PolicyCheck` and `Verify` are the
library by what they tell apart. `TakeCommit`, `CommitTimeout`, `TakeResponse`,
`ResponseTimeout` are the branches of the leader's two selects, `SendChallenge`
and `LeaderFinish` what follows them; `TakeAnnounce`, `ResendCommit`,
`TakeChallenge`, `SigTimeout`, `TakeSig` those of the miner. A message stays in
`net` until a loop takes it, as it does in a handler that waits on the channel.
One for a round that is over, which the code drops when it reads it, stays
there: it has no effect any more, but for one case. `LeaderFinish` closes
`cosiCommitCh` and `cosiResponseCh` (lines 180-181), and a handler may be past
`CoSiFlag` and the check of the round then; `late` has the channels of which this
is so. Such a handler sends on the closed channel (`SendOnClosed`, lines 350 and
372), nothing recovers, and the leader's program ends (`panic`), unless the next
round has made a channel before. The miners' handlers send by `SafeSendCosiSig`
and its like, which recover.

### ShardReady

`epoch[n]` is `CurrentEpoch` of `n`, counted from 1. `pc[n]` is `begin` from
`SyncProcess` until the shards are computed, then `sharded`, `members`,
`leaders` at a leader (the head and the two loops of `LeaderReadyProcess`) or
`wait` at a miner (`MinerReadyProcess`), `ready` when `ShardProcess` is over,
`down` after a panic. `Home` and `Lead` give the shard of every member and the
leader of every shard in every epoch, the outcome of `Sharding`. `net` holds
what is under way or in `readyMemberCh` and `readyLeaderCh`, which outlive the
epoch: `readyAnnoun` and `shardReady` share the first one, so a leader may read
an announcement and a miner an answer. `SentLeaderReadyFlag` and `Table` are
what the handler of `reqLeaReady` looks at: the flag is still that of the last
epoch until the announcements are out, and so are the tables before `sharded`.

### Sync

`Me` is a node modelled in full; the others are the members that answer it and
that go through the epochs on their own: `chain[n]` and `final[n]` are the epochs
of the last sync block and final block of node `n` (`HandleRequestSync` looks at
the first, sends the block the second stands for). `phase` is the place of
`Me`: `work`, `final` (its shard's final block is there), `added` (`AddSyncBlock`
is over), `sync` (`SyncProcess` runs), `closed` (its channels are), `panic`.
`sb[k]` and `tb[k]` are the two blocks `ReceiveSyncProcess(k)` waits for,
`TotalRep[n]` the sliding window of reputations, each told by its epoch,
`seeds` is `PreviousSyncBlockHash`. A sync block is told by its shard and epoch; a
node of `Odd` has another one than its shard, whose signature does not verify;
`TakeSB` takes it all the same, as the code does (lines 88-92). `Deal` gives the
shards and leaders of every epoch.

`net` may hold a message as long as it likes, into the next sync and the one
after. `SyncFlag` and the new channels keep an answer out between two syncs
(`DropLate`); one that arrives when the flag is up again is taken (`TakeSB`,
`TakeTB`). `tb[k]` is the block received last, verified or not, as line 99 keeps it;
`signed` are the shards of which one was verified. `GetFinalTxBlock`, which is
given `tb[k]`, refuses a block of another height or puts it into `FB`; the module
has no heights and leaves the choice open. Two histories say what the
properties except: `stray`, the shards whose `FB` comes from there, and `mixed`, that
a sync block of another epoch was taken over.

### Utxo, Accounts, Ledger

`Utxo` has the operations on balances (`CheckUTXO`, `LockUTXO`, `UnlockUTXO`,
`UpdateUTXO`, `AddAccount`, `SaveAcc`, `UploadAcc`) as operators; amounts are
taken modulo `Word`, as `uint32` is modulo 2^32. A transaction has any number of
inputs and outputs; the loops over them add up per account (`From`, `To`, `Sum`).

`Accounts` is a process that verifies and locks transactions, gives them up,
applies blocks, saves (`UpdateAccount`) and reads back (`Reload`, the `UploadAcc` of
`GetStartTxBlock`) at any time. Nothing ties what is read back to what has
changed since it was saved; two histories remember it. `saved` is what was
applied and locked when the bucket was written, and `lost` says that the balances
in memory are older than `TXCache` and the blocks. `Accounted` is the balance modulo
the word: in memory until `lost`, again once the two agree, and in the bucket for
the time it was written. `NoOverdraft` says the same of the numbers themselves,
as an inequality: what an account has, has paid and has locked is no more than
its wallet and what it received, for every account that no transaction takes
from by two inputs (`SingleUse`): two such inputs pass `VerifyTx` one by one, are
locked together and do overdraw the account. The instance has a transaction of
this kind, so that `Accounted` is checked of the account it overdraws and
`NoOverdraft` of the others it pays.

In this version the calls of `VerifyTx`, `LockTx` and `UpdateUTXO` are commented out
(`cache_miner.go:139-141`, `286`; `cache_leader.go:154`), as is that of
`GetStartTxBlock` (`FBProtocol.go:82`), and nothing calls `UnlockTx` or
`UpdateAccount`: the guards of `Lock`, `Unlock` and `Apply` are the order the
commented calls have.

`Ledger` composes the operators with the chain: `db[n]` is the part of
`TxBlockChain` in memory (`LastTB`, `Height`, `LastFB`, `AccData`, `TXCache`),
`disk[n]` the buckets, `TxB` and `FB` the fields of `DbRef`. `sent` holds every
final and start block ever made: a process may take one early, late, twice or
never, and refuses it as the code does. A block has the fields `Encode` sends;
`Hash` covers what the code hashes, neither height nor kind nor shard. `Restart`
is `IntilizeProcess` over an empty database, `Reopen` is `NewBlockchain`, and
`RequestTxB` is `HandleRequestTxB`, which ends the process (`RecentBlock` returns
nil, `TransactionProtocol.go:454`). `GetTxBlock` has no body in this version, so
a miner's `TxB` does not follow its leader's blocks, and `AddBlock` refuses the
kind every such block has: both are as in the code, and `TipsStored` and
`OwnFinalStored` say what still holds.

### CrossVote, CrossShardDec

`CrossVote` is the promise: shards decide, the verdict is yes when all shards of
the inputs are known and have said yes, no when one has said no. `CrossShardDec`
has the fields of the code (`InCheck`, `InCheckSum`, `Res`, `Data`) and its four
operations; a decision may come before the transaction, late, and again.

### Cosigners

`mask[i]` is bit `i` of the mask, TRUE where the cosigner is disabled; the
aggregate key is a bag of keys, `aggr[i]` times the key `i`, so that a key added or
subtracted once too often shows. `SetMask` is given masks of every length up to
the full one.

### Sharding

One action per loop: `Sort` (`SortRep`, a recursive function of the list and the
bounds, with its outer loop in `Exchange` and its two inner loops and their bounds), `Deal` (the members of a row go to shards
drawn at random), `LeaderSort` with `PlaceAt` and `SetRoles`. Reputations and
random numbers are small integers; a member with no reputation has a key that is
not a number.

### RepChain

The database of reputation blocks and sync blocks by hash, its entry `lb`, the tip,
and what is in memory. A hash is told by what is hashed. `signed` is a history:
the reputation blocks of the epoch in the order the chain gives them back, which
`NextToStart`, the iterator, is compared with. `stage` is the order of
calls in an epoch; `NewRepBlockchain`, which opens the database again, may
happen at any time.

### Votes

A list is told by its round and the number of its transactions, a signature by
its signer and what was signed. `Decision` is a sequence of bytes of `DecBits`
bits; `Add` and `BitOf` are the arithmetic of the code on them. `ProcessTL` votes
yes for everything, as the code of this version does, and signs a decision for
each shard; the leader takes the vote apart and makes these decisions again
(`Rebuilt`). `HandleTxList` posts as many votes as copies of the list are past
the unlocked `TLCheck` at once. `TLCheck` and `TLSCache` are indexed by the
absolute round, so the leader's process ends at the first list of a second
epoch (`TransactionProtocol.go:59`); what the module has of that epoch are the
votes that come late.

`Targets` is `{0}`, as `gVar.ShardCnt` is 1. With two shards TLC violates
`VotesCounted`: `ProcessTL` fills the decision for shard 0 only
(`cache_miner.go:158-159`), while `UpdateTXCache` fills all, so every vote is
refused.

## 3. Runs

| Run | Instance | Shows |
|---|---|---|
| `rep_safe` | 3 members; 0 may sign twice, 2 may crash; one message in flight per send | six safety properties of the gossip |
| `rep_live` | 2 members, either may be gossiped to early, votes count; 1 may crash | every round ends unless a member crashes or a handler ends it |
| `rep_timeout` | 2 members, 1 may crash | violated: the first gossip has no working time-out |
| `tx_safe` | leader and miner, 2 rounds, gossip level 2 | order, signals and decisions; refinement of `OrderedCommit` |
| `tx_dup` | 1 round, 2 handlers of each message at once, all gossip may be lost | the unlocked check does no harm but a leaked handler; the queries alone bring everything |
| `cosi_safe` | leader, a miner and one with another block, 2 rounds | fresh commitments, each response counted once, one signature per round, which verifies just when all agree |
| `cosi_live` | 2 lossy miners, 1 round | the commit phase ends, a miner that answered gets the signature |
| `shard_safe` | 2 shards of 2, 2 epochs, another leader of one shard in the second, 1 lossy member | no stale or double answer is counted, no stale announcement followed |
| `shard_live` | 2 shards of 3, 1 epoch, 1 lossy member, 1 resend | the leader goes on, with two thirds |
| `sync` | 2 shards of 2, 2 epochs with sync blocks and a third, 1 lossy member, 1 odd one, time-outs while nothing is under way | whose seeds and final blocks a node ends with, whatever is late; the same reputations as everyone unless a late sync block is taken; a sync ends unless a whole shard is ahead |
| `sync_late` | as `sync` | violated: a late answer of the sync before gives another seed |
| `tables` | one of seven parts at a time, the others at rest: 4 transactions on 3 accounts of 2 shards modulo 8, one of them with two inputs of one account; 3 shards that decide; 5 keys in bytes of 3 bits; 6 members in 1x6, 2x3 and 3x2 shards with 3 reputations and 2 random numbers; 3 chains over 3 epochs; 2 voters, 2 lists of 0, 3 or 4 transactions in bytes of 3 bits; and of the ledger, 2 shards, a leader and a miner in one and a leader in the other, 3 heights, 3 final and start blocks, 1 restart | what each part keeps and returns, compared with a definition of what it should; of the ledger, that tips, blocks in hand and balances fit the database and a start block brings the leader's balances |

The type invariants of `RepGossip`, `TxRound`, `CoSi` and `ShardReady` are
theorems for all constants (section 4) and are not run; those of the
other modules are part of `sync` and `tables`. `Tables.cfg` has a constraint,
`Known`: once the balances in memory and those in the bucket are both lost they
stay so, and no property says anything of them.

**Bounds.** `MaxInFlight` bounds the messages in flight at the time of a new
send; a message that waits can still be overtaken by everything that is handled
locally, and a message that cannot be sent yet is like one that is slow.
`MaxView = 1` gives two versions of a member's state, as many as an
equivocation takes. Three members are the least for which a third party relays
somebody's RepMsg; one miner already has every handler, flag and channel of a
miner, and two rounds every dependency between rounds (each wait is for the
round before). `MaxHandlers` bounds the concurrent handlers of one message at
one member. In `CoSi` two miners give a mask that names one of them only, and
two rounds give every message a later round to arrive in; `Timeouts` stands for
the limit of 5 time-outs. In `ShardReady` an announcement or an answer of epoch 1
can wait for a process of epoch 2 with the same or with another leader, `Resends`
stands for the 5 time-outs after which two thirds are enough, and three members
are the least for which two thirds differ from all and from half. These are
constants that the theorems leave open.

In `Ledger` three heights are a transaction, a final and a start block, and
three final and start blocks are one of each leader and a start block, or two of one
leader after another; `Failing` and `Syncing` leave one leader without restarts
and one without `Sync`. In `Sync` the leader of one shard stays for two epochs,
which `FinalOfEpoch` depends on, and `Me` changes shard; a window of one epoch is the
smallest that drops an old reputation. With one other shard no two goroutines of
a sync meet; the theorems are for any number of shards. `Me` asks again only when
nothing is under way, which leaves fewer repeated answers and not fewer losses;
an answer of one sync still meets the next, as `sync_late` shows with the same
constants. In `Votes` bytes of 3 bits are full
(3 transactions), begun (4) and not there (0). In `Cosigners` five keys leave
one bit of the second byte unused. In `Sharding` all orders and ties of six
members with three reputations are tried.

**Fairness.** `RepGossip`: goroutines are not starved (weak fairness of each
process; strong where the room in the network comes and goes), `GetGossipID`
takes the least used of the missing members so each is tried again and again,
and a link used again and again delivers again and again; dials to a member that
is down fail. No fairness on crashes or on chain growth. `TxRound`: weak fairness
of the leader's goroutines, of each handler and of the receipt of a message that
was not lost; strong fairness of a query of a miner to the leader, since
`QueryTDS` and the others choose a random member each second for as long as the
cache is empty. Weak fairness of a handler is per kind and round: with two copies
some copy advances. `CoSi`: weak fairness of the leader's time-out and of its next
phase, since the select always has a timer; strong fairness of a request for the
signature and of its answer in their form that arrives, that is, a link used
again and again delivers some time. `ShardReady`: weak fairness of a process's
own turns (its timers fire) and of reading its channel; none of the links of
lossy members. `Sync`: weak fairness of the handlers, of the loops that take what
is in their channel and of the other nodes' epochs; strong fairness of a time-out
whose request arrives and of an answer that arrives, as in `CoSi`; the loop for
one shard goes round its members, so each is asked again and again. The other
modules have no liveness properties.

## 4. Proofs

`RepGossip_proofs` proves, for any number of members, crashes, versions and
messages:

* `TypeCorrect`, and the action property `FirstMessagesKept`;
* `OnlyEquivocatorsAccused`, `EmptyReplyOnlyByReset`, `BlocksAgreed`,
  `BlocksAfterPhaseOne`, `DivergenceIsVisible`, from the invariant `IInv`. Its
  part `Authentic` says that every RepMsg in a table, a message or a RepSecMsg
  was signed by its member (which accusations need: two different entries mean
  two signatures); `FirRequests` and `SecRequests` say that a request was sent
  to a member its sender lacked. A handler has its own entry when it copies the
  table, so its reply has at least this one, unless the reset passes that entry
  before the copy (`OwnEntryTaken`); after it nothing gives the entry back to a
  program that has ended (`Fallen`); `Barrier` says that a RepSecMsg in any
  table or message comes from a member past the first gossip whose own table is
  complete and no longer changes (which the block properties need).

`TxRound_proofs` proves, for any shard, epoch length, gossip level and number of
concurrent handlers:

* `TypeCorrect`;
* `ImplementsOrderedCommit` from `Ordered`: the leader's loops, blocks and
  signatures go up without gaps (`LeaderOrder`); a message or handler of a set
  or a block exists only when the leader made it (`Traffic`); the place of a
  handler, the flags and the channels fit (`Stages`, `Caches`): a signal in
  `TBChan[r]` or a later stage means that block `r` is stored and all before it.
  Each step of `TxRound` is then a step of `OrderedCommit` or a stutter;
* `DecisionsKept`: whatever carries a decision set, and whoever relays it, it
  lies between the set that was signed and the leader's present set;
* `SignalsKept`, which is inductive with the types: each step that takes a
  signal leaves a handler behind that holds it.

`CoSi_proofs` proves, for any number of miners, of rounds and of time-outs, and
any miners with other blocks or lossy links, `TypeCorrect` and, from the
invariant `Inductive`, `CommitmentsOfTheRound`, `ResponsesCountedOnce`,
`OneSignaturePerRound` and `ValidWhenUnanimous`. `Challenged` says that a
challenge under way or answered means a mask that is fixed, and `CommitSent` that
a commitment comes from a miner past the announcement of its round, so one the
leader takes before it fixes the mask is unused; `ResponseSent` says that a response under way is the only one of
its miner and not counted yet (which the count needs); `PartsBacked` and
`SignatureBacked` say that a part in the leader's table or in a signature was
made by a node in that round over its own block.

`ShardReady_proofs` proves, for any number of shards, members and epochs, any
assignment of them and any lossy members, `TypeCorrect`, `MinersFollow` and
`QuorumTheorem`. Its `Inductive` has `Announcements` (one under way comes from
the leader of its receiver in its epoch, who has got that far) and `Answers` (one
under way comes from a miner that is through that epoch and is not in its
leader's mask), from which `Counted` follows: the count, which ignores the mask,
is the size of the mask, and the mask holds miners that answered. `Onward` says
that no process goes back, so what a message tells of its sender stays true while
it waits.

`Ledger_proofs` proves, for any processes, shards, accounts and transactions and
any bounds on heights, blocks and restarts, `LedTypeCorrect`, `TipsAreStored`,
`OwnFinalIsStored`, `BalancesAreFinal` and the action property `EpochsAgree`.
Its invariant `LedgerInv` is about each process by itself: `Held` relates what is
in memory (`Tips`) to the buckets (`StoredTips`), and each operation of
`TxBlockChain` has a lemma that it keeps `Held`. `BalancesAreFinal` needs that a
final block lists accounts of its own shard only, so that a block of one shard
never overwrites the balances of another; that in turn needs it of the blocks on
their way (`SentBlock`), because a process takes whatever comes with the right
height. `EpochsAgree` needs that the hash covers the balances, that the bucket
has all accounts, and `OwnFinalIsStored`.

`Sync_proofs` proves, for any number of shards, members, epochs and window slots
and any deals, however late messages are, `TypeCorrect`, `SeedsMade`, `WindowsAgree`
and `FinalsOfTheEpoch`. An answer does not say of which epoch it is. What can be
said of one under way is `Sent`: who sent it has made the block in it, and was
asked in this sync or an earlier one. From it follow `Seeded`, `Closing` and
`Counted`, which say of a shard that is done what the three properties say of all
shards when the sync is over. `Counted` is lost with the first sync block of
another epoch (`mixed`), and `Closing` says nothing of the blocks that
`GetFinalTxBlock` was given unverified (`stray`).

`Tables_proofs` has the parts of `MCTables`.

* Accounts, for any accounts, shards, wallets, transactions and word:
  `AccTypeCorrect`, `BalancesAccounted` and `BalancesCovered` from `AccInv`. The
  properties are about sums over the entries of sets of transactions, so
  `Utxo_proofs` first shows that such a sum is there and grows by a transaction at
  a time (`SumsExist`, `SumOfUnion`, `SumsWith`), then what each operator of `Utxo`
  does to one balance, modulo the word (`LockIs`, `UnlockIs`, `GiveIs`). `AccInv` has the
  two properties in memory and in the bucket together (`Sound`): a reload makes
  one the other, and `lost` is down only when what was saved is what there is. And
  it has `NothingForgotten`: an own account in the bucket has a balance in memory,
  so that a save deletes what has become empty.

* Record of a decision, for any number of shards and any transaction:
  `DecTypeCorrect`, `SumIsMissing` and the refinement `RecordKeepsPromise`. Its
  invariant `DecInv` has `SumCounts` (`InCheckSum` is the number of shards whose
  yes is missing, which is why the count may be compared with zero), `Entries`
  (which values an entry of `InCheck` may have before and after the transaction
  is known) and `VerdictOfHeard` (`Res` is the verdict of what was heard).
* Cosigners, for any number of keys, bits of a byte and masks: `CosTypeCorrect`,
  `SumOfEnabled` and `MasksCanonical` from their conjunction `CosInv`: `SetMask`
  adds or subtracts a key only where a bit changes, and the bits past the last
  key, which it never touches, stay disabled.
* Reputation chain, for any number of shards, epochs and blocks:
  `ChainTypeCorrect`, `EpochIsReadable`, `SyncBlocksLinked` from `ChainInv`. The
  iterator goes down as long as it finds no start block, so that it ends needs a
  measure: every block is on blocks of smaller depth (`Descending`).
* Votes, for any miners, size of a byte, sizes of lists and numbers of copies,
  and one shard: `VotTypeCorrect`, `VotesAreCounted` and `VotesAreReadable` from
  `VotInv`. What `ProcessTL` makes of yes for `n` transactions is known byte by
  byte (`Ones`: full bytes, and a last one of `n % DecBits` bits), and so are its
  bits; the leader's copy of it, made bit by bit, is the same (`RebuiltIs`), so
  the miner's signature verifies. A round's count then is the length of its
  decision set, because both grow in the same step.
* Shard formation, for any members, reputations, ties, shapes and random
  numbers: `ShaTypeCorrect` and `ShardsAreFormed` from `ShaInv`. `SortRepSorts` says
  that `SortRep` rearranges the part from `l` to `r` and nothing else, and
  sorts it. Its inner loops stop at `r` and 0, not at `r` and `l`, and need not: in
  the first pass the pivot stops them, later the elements that were exchanged
  do (`PassStops`). `OrderedMixes` says that `LeaderSort` mixes a row and that its
  first member remains one of the upper half: a key of the upper half is less
  than 1, one of the lower half is 1 or more, or not a number (0/0), since a
  row as it is dealt begins with its best member. `ShaInv` therefore judges a table
  in which shards are being ordered by the table as it was dealt (`Led`, `Dealt`).
  That every member has one place follows since one-to-one functions on a finite
  set are onto (`OneToOneIsOnto`), three times: for the sorting, for the draws of
  a row, for the exchanges.
* The composition `MCTables`: each part behaves as its own specification says
  (`PartsBehave`), from which `TablesTypeCorrect` and `TablesCorrect`.

The assumptions are those of the modules (`RepGossipAssumption`,
`TxRoundAssumption` and so on): sizes are positive, the empty entry is no message, the
miners are finitely many and the leader is not one of them, the leader of a
shard is a member of it and all shards have the same size; for `Votes`, that there
is one shard (`OneShard`), as in the code of this version.

Several of these are inductions over data: over numbers, finite sets, and the
arguments of recursive functions. The library's induction theorems take an
operator, which the prover cannot instantiate. They are used in the form for sets
instead: a nonempty set of numbers has a least one (`LeastNumber`), a set of
finite sets a minimal one (`MinimalSubset`), both from `WFMin`, so that what
holds of 0 and of `n + 1` with `n` holds of all (`NumbersByInduction`). A recursive
function, in the language, is some function that satisfies its equation, if there
is one: `Recursion` shows that there is one whenever the right-hand side looks at
arguments of a smaller measure only. `SortRep`, its loops, `LeaderSort`'s loops,
`Bit`, `AddAll` and `NextToStart` are each shown to be of that kind. For this they
are recursive functions, not operators.

Only model-checked: the liveness properties `RoundCompletes`, `EpochCommits`,
`SigFetched`, `CommitPhaseEnds`, `MembersPhaseEnds` and `SyncEnds` (liveness
under fairness is out of the prover's reach), and the two violated statements.

## 5. Findings

* `rep_timeout`: the time-out of the first gossip, `newRepProtocol.go:56`, never
  fires: both timers are made anew in each turn and the other one is shorter.
* `sync_late`: an answer of the sync before, taken in the next one, gives a node
  other seeds than all others; `PreviousSyncBlockHash` is to be "the hash array of
  previous sync block from all the shards" (`shard/shard_variable.go:21`).

The models also reach, without a run of their own:

* `HandleGossipFirSend` reads `Data[0]` of its reply at line 110 and does not look
  at `Cnt`, as `HandleGossipSecSend` does (line 162). The reset, without the lock,
  may take the own RepMsg away between `cache_rep.go:114` and the copy: the reply
  is empty and the program ends (`panic` of `RepGossip`). `EmptyReplyNeedsReset`
  says that nothing else brings this about.
* "VerifyTx verify the utxos related to transaction a" (`cache_miner.go:13`) one by
  one, so two inputs of one account pass together and wrap its balance around;
  `NoOverdraft` excepts such accounts.
* "LockTx locks all utxos related to transction a" (`cache_miner.go:25`) in memory
  only: `UploadAcc` of a start block (line 330) brings them back while `TXCache`
  still names the transaction; `lost` is the exception of `Accounted` for it.
* A decision that is late joins the leader's set after `SignTDS`
  (`TransactionProtocol.go:370`, `cache_leader.go:240`), and queries are answered
  with the longer set under the old signature (`TransactionProtocolMiner.go:100`),
  though `basic/struct.go:79` calls it "signed by leader". What remains true is
  `SignedDecisionsKept`: nothing that was signed gets lost.
* The leader of a CoSi round sends the challenge again to miners outside
  `cosimask` (`CoSiRepProtocol.go:149`) and counts their responses for those of
  others: the round may end with no signature, which is stored and sent all the
  same.
* A vote that is refused, since its list is one of the epoch before, is counted
  for round 0 (`TransactionProtocol.go:369-376`); `VotesCounted` states the
  count with this. `TLChan` is made once and not drained between epochs.
* Two copies of a list past the unlocked `TLCheck` give two votes of one miner,
  both in the decision set, which `VotesCounted` and `VotesReadable` allow.
* `FB` of another shard is replaced before `GetFinalTxBlock` may refuse the block
  (`SyncProtocol.go:110`, `cache_miner.go:294`): it then names a block the database
  does not have. `OwnFinalStored` therefore speaks of the own shard. And what
  `GetFinalTxBlock` is given need not be the block that was verified
  (`SyncProtocol.go:99`, `131`): the exception `stray` of `FinalOfEpoch`.
* `ClearTx` never clears (`txBlockChain.go:231`): its transaction is rolled back.
* A reputation chain opened again has the last reputation block as its tip,
  though a sync block came after (`RepBlockChain.go:205`); `EpochReadable` covers
  both.
* A sync block is taken whether its signature verifies or not
  (`SyncProtocol.go:88-92`), and a node asks for ever when all members of a shard
  are in a later epoch (lines 176-188): `SeedsOfMembers` and `SyncEnds` name both.
* `SyncProcess` closes its channels while a handler may send on one: `Panic`. The
  leader of a CoSi round does the same (`CoSiRepProtocol.go:180-181`): its handlers
  of commitments and responses do not recover, so a late one ends its program,
  and the miners get no signature any more. `SigFetched` and `CommitPhaseEnds` say
  "or the leader's program has ended".
* `HandleTxDecSetLeader` counts the leader's own decision set each time it is
  gossiped back (`TransactionProtocol.go:428`), so `TDSCnt` says "All TDS
  received" with sets missing.
* The leaders of `ShardReady` do not wait for each other: `timeoutflag` of the
  first loop is a condition of the second (`ShardProtocol.go:144`), so a leader
  that gave up on a member skips it; the stale `SentLeaderReadyFlag` makes a
  leader that has not begun answer that it is ready; the handler may index a
  table that is being made (`ShardProtocol.go:187`) and panic. And since
  `leaderReady` is sent once, a leader that missed it asks again, but one of the
  next epoch does not answer: it may wait for ever. That is why no property
  speaks of the other leaders.

An honest member that is gossiped to before its `NewRepProcess` starts signs,
forgets and signs again, and the others flag it in `RepByz`. `rep_safe` covers
this case (its properties speak of members that signed twice, not of dishonest
ones).

## 6. Plan and what is not modelled

Done: the modules of section 2. Worth doing next: larger instances of `Sync` with
three shards, and a composition of `Votes` with `TxRound`, whose decision sets
are sets of names so far.

Known gaps of what is modelled: masks longer than that of all keys
(`cosi.go:348-377`), a crash that takes `StartFlag` and the current blocks of the
reputation chain from memory (`NewRepBlockchain` only resets the tip), and `Total`
of a cross-shard decision.

Not modelled: the curve arithmetic, the encodings of messages other than blocks
and decisions, `RepBlockMake` (floating point over the votes that `RepGossip`
gathers), configuration, logging and the experiments' counters; `FBProtocol.go`
and `rollingProtocol.go`, which are comments only; the transfer of transactions
(`TxSendProtocol.go`, `TxMMProtocol.go`), whose receivers' bodies are commented
out; `CoSiProtocol.go` apart from its end, since its phases are those of
`CoSiRepProtocol.go`; and the proof-of-work loop of `RepProtocol.go`: it is not
started, `RepProcess` waits at line 88 for a channel whose only sender is a comment
(`RepBlockChain.go:57`), and at line 104 it holds the read lock that
`AddRepBlockFromOthers` waits for.
