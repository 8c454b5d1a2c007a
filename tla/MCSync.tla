------------------------------- MODULE MCSync -------------------------------
(* Instance of Sync: four nodes in two shards, dealt anew twice.  The node  *)
(* c is in shard 2 in epochs 0 and 1 and leads it in the first only; b      *)
(* leads it in epochs 1 and 2.  Me, which is a, changes shard in epoch 2.   *)
EXTENDS Sync

CONSTANTS a, b, c, d

MCDeal ==
  LET deal(x, y) == [k \in Shards |-> [i \in Index |-> (IF k = 1 THEN x ELSE y)[i + 1]]]
  IN  [e \in 0..Epochs |->
         CASE e = 0 -> deal(<<a, b>>, <<c, d>>)
           [] e = 1 -> deal(<<a, d>>, <<b, c>>)
           [] OTHER -> deal(<<d, c>>, <<b, a>>)]
=============================================================================
