---------------------------- MODULE MCShardReady ----------------------------
(* Two instances of ShardReady for TLC: two shards of two members over two  *)
(* epochs, in the second of which one shard has the other member as leader; *)
(* and two shards of three members in one epoch.                            *)
EXTENDS ShardReady

CONSTANTS A, B, a1, a2, a3, b1, b2, b3

MCHome == [e \in 1..Epochs |-> [n \in Nodes |-> IF n \in {a1, a2, a3} THEN A ELSE B]]

MCLead == [e \in 1..Epochs |->
            [s \in Shards |-> IF s = B THEN b1 ELSE IF e = 1 THEN a1 ELSE a2]]
=============================================================================
