----------------------------- MODULE CrossVote -----------------------------
(***************************************************************************)
(* What a process promises about a transaction that several shards decide: *)
(* it is refused as soon as one of the shards it takes its inputs from     *)
(* says no, and accepted as soon as all of them have said yes.  A process  *)
(* that does not know the transaction cannot tell whose votes count, and   *)
(* waits for every shard.                                                  *)
(***************************************************************************)
EXTENDS Integers

CONSTANT Shards

VARIABLES
  ins,    \* the shards of the inputs
  vote,   \* what each of them says
  known,  \* the process has the transaction
  heard,  \* the shards whose vote it has
  res     \* its verdict: 1 yes, -1 no, 0 not known yet

voteVars == <<ins, vote, known, heard, res>>

Needed(k) == IF k THEN ins ELSE Shards

Verdict(k, h) ==
  IF \E s \in h : ~vote[s] THEN -1
  ELSE IF Needed(k) \subseteq h THEN 1
  ELSE 0

VoteInit ==
  /\ ins \in SUBSET Shards /\ ins # {}
  /\ vote \in [ins -> BOOLEAN]
  /\ known = FALSE /\ heard = {} /\ res = 0

VoteStep(k, h) ==
  /\ known' = k
  /\ heard' = h
  /\ res' = Verdict(k, h)
  /\ UNCHANGED <<ins, vote>>

Learn == VoteStep(TRUE, heard)

Hear(s) == s \in ins /\ VoteStep(known, heard \cup {s})

VoteNext == Learn \/ \E s \in Shards : Hear(s)

VoteSpec == VoteInit /\ [][VoteNext]_voteVars
=============================================================================
