------------------------------ MODULE MCTables ------------------------------
(* Instance of the parts that neither share state nor send each other       *)
(* anything: the accounts, the record of a cross-shard decision, the        *)
(* cosigners, shard formation, the reputation chain, the leader's votes and *)
(* the ledger, which has two shards, a leader and a miner in the first and  *)
(* a leader in the second.  In a behaviour one part moves, the one that     *)
(* mode names, and the others keep a state they may begin in.               *)
EXTENDS Accounts, CrossShardDec, Cosigners, Sharding, RepChain, Votes,
        Ledger

CONSTANTS alice, bob, carol, a1, a2, b1

VARIABLE mode

MCShard == [a \in Accounts |-> IF a = carol THEN 1 ELSE 0]
MCWallet == [a \in Accounts |-> IF a = bob THEN 1 ELSE 2]
In(a, v) == [PrevTx |-> a, Index |-> v]
Out(a, v) == [Address |-> a, Value |-> v]
Pay(h, a, v, b) == [Hash |-> h, In |-> <<In(a, v)>>, Out |-> <<Out(b, v)>>]
MCTxs == {Pay(1, alice, 2, bob), Pay(2, bob, 2, alice),
          [Hash |-> 3, In |-> <<In(alice, 1), In(bob, 1), In(bob, 1)>>,
           Out |-> <<Out(carol, 1), Out(alice, 1)>>],
          Pay(4, carol, 1, alice)}
MCShapes == {<<1, 6>>, <<2, 3>>, <<3, 2>>}
MCAddress == [m \in Members |-> (m * 4 + 3) % 7]

MCShardNum == [n \in Nodes |-> IF n = b1 THEN 1 ELSE 0]
MCLeader == [s \in Shards |-> IF s = 0 THEN a1 ELSE b1]
MCDeposits == [a \in Accounts |-> 1]
MCBlockTxs == {Pay(1, alice, 1, bob)}

\* The others rest in one state.
DecRest == ins = Deciders /\ outs = {} /\ vote = [s \in Deciders |-> TRUE]
CosRest == mask = AllDisabled
ShaRest == shape = <<1, 6>> /\ rep = [m \in Members |-> 0]
VotRest == readySize = 4

Init ==
  /\ mode \in {"accounts", "decision", "cosigners", "sharding", "chain", "votes",
              "ledger"}
  /\ mode = "decision" \/ DecRest
  /\ mode = "cosigners" \/ CosRest
  /\ mode = "sharding" \/ ShaRest
  /\ mode = "votes" \/ VotRest
  /\ AccInit /\ DecInit /\ CosInit /\ ShaInit /\ ChainInit /\ VotInit /\ LedInit

Next ==
  /\ UNCHANGED mode
  /\ \/ /\ mode = "accounts" /\ AccNext
        /\ UNCHANGED <<decVars, cosVars, shaVars, chainVars, votVars, ledVars>>
     \/ /\ mode = "decision" /\ DecNext
        /\ UNCHANGED <<accVars, cosVars, shaVars, chainVars, votVars, ledVars>>
     \/ /\ mode = "cosigners" /\ CosNext
        /\ UNCHANGED <<accVars, decVars, shaVars, chainVars, votVars, ledVars>>
     \/ /\ mode = "sharding" /\ ShaNext
        /\ UNCHANGED <<accVars, decVars, cosVars, chainVars, votVars, ledVars>>
     \/ /\ mode = "chain" /\ ChainNext
        /\ UNCHANGED <<accVars, decVars, cosVars, shaVars, votVars, ledVars>>
     \/ /\ mode = "votes" /\ VotNext
        /\ UNCHANGED <<accVars, decVars, cosVars, shaVars, chainVars, ledVars>>
     \/ /\ mode = "ledger" /\ LedNext
        /\ UNCHANGED <<accVars, decVars, cosVars, shaVars, chainVars, votVars>>

tableVars ==
  <<mode, accVars, decVars, cosVars, shaVars, chainVars, votVars, ledVars>>

Spec == Init /\ [][Next]_tableVars

\* Balances that are lost in memory and in the database stay lost, and nothing
\* is said of them: TLC goes no further.
Known == ~lost \/ ~saved.lost

\* TypeOK of all of them.
TypeOK ==
  /\ AccTypeOK /\ DecTypeOK /\ CosTypeOK /\ ShaTypeOK /\ ChainTypeOK /\ VotTypeOK
  /\ LedTypeOK
=============================================================================
