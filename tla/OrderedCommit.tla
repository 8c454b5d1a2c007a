---------------------------- MODULE OrderedCommit ----------------------------
(***************************************************************************)
(* What the transaction rounds of a shard promise: for every round the     *)
(* leader first issues the set of decisions, then the block; both in round *)
(* order; and every miner takes over the leader's blocks in that order,    *)
(* none before the decisions of its round.                                 *)
(***************************************************************************)
EXTENDS Integers

CONSTANTS Miners, Rounds

VARIABLES
  decided,   \* rounds whose decision set the leader has issued
  produced,  \* rounds whose block the leader has produced
  known,     \* known[m]: rounds whose decision set has reached miner m
  applied    \* applied[m]: rounds whose block miner m has taken over

ocVars == <<decided, produced, known, applied>>

(* r is the first round that is not in done. *)
IsNext(r, done) == r \notin done /\ \A q \in Rounds : q < r => q \in done

OCInit ==
  /\ decided = {} /\ produced = {}
  /\ known = [m \in Miners |-> {}]
  /\ applied = [m \in Miners |-> {}]

Decide(r) ==
  /\ IsNext(r, decided)
  /\ decided' = decided \cup {r}
  /\ UNCHANGED <<produced, known, applied>>

Produce(r) ==
  /\ IsNext(r, produced) /\ r \in decided
  /\ produced' = produced \cup {r}
  /\ UNCHANGED <<decided, known, applied>>

Learn(m, r) ==
  /\ r \in decided \ known[m]
  /\ known' = [known EXCEPT ![m] = @ \cup {r}]
  /\ UNCHANGED <<decided, produced, applied>>

Apply(m, r) ==
  /\ IsNext(r, applied[m]) /\ r \in produced \cap known[m]
  /\ applied' = [applied EXCEPT ![m] = @ \cup {r}]
  /\ UNCHANGED <<decided, produced, known>>

OCNext ==
  \E r \in Rounds : \/ Decide(r) \/ Produce(r)
                    \/ \E m \in Miners : Learn(m, r) \/ Apply(m, r)

OCSpec == OCInit /\ [][OCNext]_ocVars
=============================================================================
