--------------------------- MODULE CrossShardDec ---------------------------
(***************************************************************************)
(* The record a process keeps of one transaction while the shards of its   *)
(* inputs decide (CrossShardDec of cache.go, txDatabase.go).  The          *)
(* transaction and the decisions come in any order, each any number of     *)
(* times: a client and the other leaders send again.  A shard decides only *)
(* about inputs of its own, and once.                                      *)
(*                                                                         *)
(* Left out are Value and Decision, which weigh reputations, and Total,    *)
(* which nothing reads.                                                    *)
(***************************************************************************)
EXTENDS Integers, FiniteSets

CONSTANT Deciders    \* the shards

\* A decision of another shard needs another shard.
ASSUME SeveralShards == IsFiniteSet(Deciders) /\ Cardinality(Deciders) > 1

VARIABLES
  ins,      \* shards of the inputs of the transaction
  outs,     \* shards of its outputs
  vote,     \* what the shards of its inputs decide
  present,  \* there is a record in TXCache
  Data,     \* the record has the transaction
  InCheck,  \* for each shard: see below
  InCheckSum,
  Res       \* 0: unknown, 1: yes, -1: no

decVars == <<ins, outs, vote, present, Data, InCheck, InCheckSum, Res>>

Nothing == 0    \* not heard of, or not related
Yes == 1
No == 2
Waiting == 3    \* an input, no decision yet
Output == -1

CheckValues == {Nothing, Yes, No, Waiting, Output}

ShardCnt == Cardinality(Deciders)

DecInit ==
  /\ ins \in SUBSET Deciders /\ ins # {}
  /\ outs \in SUBSET Deciders
  /\ vote \in [ins -> BOOLEAN]
  /\ present = FALSE
  /\ Data = FALSE
  /\ InCheck = [s \in Deciders |-> Nothing]
  /\ InCheckSum = 0
  /\ Res = 0

\* The first that comes is the transaction.
New ==
  /\ ~present
  /\ present' = TRUE /\ Data' = TRUE
  /\ Res' = 0
  /\ InCheck' = [s \in Deciders |-> IF s \in ins THEN Waiting
                                  ELSE IF s \in outs THEN Output
                                  ELSE Nothing]
  /\ InCheckSum' = Cardinality({s \in Deciders : InCheck'[s] = Waiting})
  /\ UNCHANGED <<ins, outs, vote>>

\* Mistake: the verdict is made anew from the count.
UpdateForgets ==
  /\ present
  /\ Data' = TRUE
  /\ InCheck' = [s \in Deciders |->
       IF s \in ins THEN (IF InCheck[s] = Nothing THEN Waiting ELSE InCheck[s])
       ELSE IF s \in outs THEN Output
       ELSE InCheck[s]]
  /\ InCheckSum' = Cardinality({s \in ins : InCheck'[s] > 1})
  /\ Res' = IF InCheckSum' = 0 THEN 1 ELSE 0
  /\ UNCHANGED <<ins, outs, vote, present>>

\* The transaction comes when there is a record, with or without it.
Update ==
  /\ present
  /\ Data' = TRUE
  /\ InCheck' = [s \in Deciders |->
       IF s \in ins THEN (IF InCheck[s] = Nothing THEN Waiting ELSE InCheck[s])
       ELSE IF s \in outs THEN Output
       ELSE InCheck[s]]
  /\ InCheckSum' = Cardinality({s \in ins : InCheck'[s] > 1})
  /\ Res' = IF InCheckSum' = 0 THEN 1
            ELSE IF \E s \in ins : InCheck'[s] = No THEN -1
            ELSE Res
  /\ UNCHANGED <<ins, outs, vote, present>>

\* The first that comes is the decision of a shard: InCheckSum counts the
\* shards that have not said yes, all of them for all it knows.
NewFromOther(index, res) ==
  /\ ~present
  /\ present' = TRUE /\ Data' = FALSE
  /\ InCheck' = [s \in Deciders |-> IF s # index THEN Nothing
                                  ELSE IF res THEN Yes ELSE No]
  /\ InCheckSum' = IF res THEN ShardCnt - 1 ELSE ShardCnt
  /\ Res' = IF res THEN 0 ELSE -1
  /\ UNCHANGED <<ins, outs, vote>>

Undecided(index) ==
  InCheck[index] = Waiting \/ (InCheck[index] = Nothing /\ ~Data)

UpdateFromOther(index, res) ==
  /\ present
  /\ InCheck' = [InCheck EXCEPT ![index] =
       IF ~Undecided(index) THEN @ ELSE IF res THEN Yes ELSE No]
  /\ InCheckSum' = IF res /\ Undecided(index) THEN InCheckSum - 1 ELSE InCheckSum
  /\ Res' = IF ~res THEN -1
            ELSE IF Undecided(index) /\ InCheckSum' = 0 THEN 1
            ELSE Res
  /\ UNCHANGED <<ins, outs, vote, present, Data>>

\* GetTDS: the decision set of the shard s.
Decide(s) ==
  /\ s \in ins
  /\ NewFromOther(s, vote[s]) \/ UpdateFromOther(s, vote[s])

DecNext ==
  \/ New
  \/ Update
  \/ \E s \in Deciders : Decide(s)

DecSpec == DecInit /\ [][DecNext]_decVars

----------------------------------------------------------------------------
\* TypeOK of the record.
DecTypeOK ==
  /\ ins \in SUBSET Deciders /\ ins # {} /\ outs \in SUBSET Deciders
  /\ vote \in [ins -> BOOLEAN]
  /\ present \in BOOLEAN /\ Data \in BOOLEAN
  /\ InCheck \in [Deciders -> CheckValues]
  /\ InCheckSum \in 0..ShardCnt
  /\ Res \in {-1, 0, 1}

Said(v) == {s \in Deciders : InCheck[s] = v}

\* InCheckSum is the number of shards whose yes is missing, the shards of
\* the inputs once they are known and every shard before: neither a
\* decision that comes twice nor the transaction after some decisions is
\* counted wrongly.
SumCounts ==
  present =>
    InCheckSum = Cardinality((IF Data THEN ins ELSE Deciders) \ Said(Yes))

\* What has been heard is what the shards decided.
Heard == Said(Yes) \cup Said(No)

\* The record keeps the promise of CrossVote, whatever comes first, late or
\* twice: the verdict depends on the decisions alone and not on their order.
Promise == INSTANCE CrossVote WITH Shards <- Deciders, known <- Data, heard <- Heard, res <- Res

DecisionSound == Promise!VoteSpec
=============================================================================
