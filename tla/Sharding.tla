------------------------------ MODULE Sharding ------------------------------
(***************************************************************************)
(* Shard formation (shard_func.go).  The members are sorted by reputation, *)
(* each row of ShardCnt members is dealt to the shards at random, one to   *)
(* each, and the members of a shard are ordered for leadership: the upper  *)
(* half by a random number over the reputation, the lower half behind.     *)
(* Every process computes the same, from the same seed.                    *)
(***************************************************************************)
EXTENDS Integers, FiniteSets, FiniteSetsExt, Functions

CONSTANTS Members,     \* 0 .. number of members - 1
          Address,     \* Address[m]: the rank of its address among all
          Reps,        \* sums of TotalRep, none is negative
          Shapes,      \* pairs <<ShardCnt, ShardSize>> of the instance
          Random       \* random numbers are below Random, in Random-ths of 1

ASSUME MemberAssumption ==
  /\ IsFiniteSet(Members) /\ Members = 0..(Cardinality(Members) - 1)
  /\ Address \in [Members -> Nat] /\ IsInjective(Address)
ASSUME RepAssumption == Reps \subseteq Nat /\ Random \in Nat \ {0}
ASSUME ShapeAssumption ==
  \A s \in Shapes : s \in (Nat \ {0}) \X (Nat \ {0})
                    /\ s[1] * s[2] = Cardinality(Members)

VARIABLES
  shape,
  rep,      \* CalTotalRep of the members
  step,     \* what Sharding does next
  now,      \* the row it deals, the shard whose leader it looks for
  sorted,   \* sortData
  table,    \* ShardToGlobal
  place     \* Shard, InShardId and Role of the members

shaVars == <<shape, rep, step, now, sorted, table, place>>

Cnt == shape[1]
Size == shape[2]
ShardIds == 0..(Cnt - 1)
Slots == 0..(Size - 1)
Last == Cardinality(Members) - 1

Leading == 0
Mining == 1
Nobody == -1

----------------------------------------------------------------------------
(* SortRep *)

Orders == [Members -> Members]

\* CompareRep(a, b) > 0.
Before(a, b) ==
  rep[a] > rep[b] \/ (rep[a] = rep[b] /\ Address[a] > Address[b])

Swap(a, i, j) == [a EXCEPT ![i] = a[j], ![j] = a[i]]

\* The two inner loops.
Up(a, x, i, r) == IF i >= r THEN i
                  ELSE Min({k \in i..r : k = r \/ ~Before(a[k], x)})
Down(a, x, j) == IF j <= 0 THEN j
                 ELSE Max({k \in 0..j : k = 0 \/ ~Before(x, a[k])})

Exchange(order, x, l, r) ==
  LET from[s \in [a : Orders, i : l..r + 1, j : -1..r]] ==
        LET u == Up(s.a, x, s.i, r)
            d == Down(s.a, x, s.j)
        IN  IF s.i > s.j THEN s
            ELSE IF u > d THEN [a |-> s.a, i |-> u, j |-> d]
            ELSE from[[a |-> Swap(s.a, u, d), i |-> u + 1, j |-> d - 1]]
  IN  from[[a |-> order, i |-> l, j |-> r]]

Spans == [a : Orders, l : Members, r : Members]

SortRep[s \in Spans] ==
  IF s.l >= s.r THEN s.a
  ELSE LET p == Exchange(s.a, s.a[(s.l + s.r) \div 2], s.l, s.r)
           right == IF p.i < s.r THEN SortRep[[a |-> p.a, l |-> p.i, r |-> s.r]]
                                 ELSE p.a
       IN  IF s.l < p.j THEN SortRep[[a |-> right, l |-> s.l, r |-> p.j]]
                        ELSE right

----------------------------------------------------------------------------
(* LeaderSort: a key is a fraction; n/0 is infinite and 0/0 is not a number *)
(* (NaN), greater than nothing.                                             *)

Greater(k, l) == k[1] * l[2] > l[1] * k[2]

\* rnd[i] is the random number of slot i of the upper half.
Key(row, rnd, i) ==
  IF i < Size \div 2
  THEN <<rnd[i], Random * (rep[row[i]] + 1)>>
  ELSE <<rep[row[0]], rep[row[i]]>>

\* The outer loop leaves the least of the slots from i in slot i.
Ordered(row, rnd) ==
  LET from[s \in [t : [Slots -> [key : Nat \X Nat, id : Members]],
                  i : 0..Size, j : 1..Size + 1]] ==
        IF s.i >= Size THEN s.t
        ELSE IF s.j >= Size THEN from[[t |-> s.t, i |-> s.i + 1, j |-> s.i + 2]]
        ELSE from[[t |-> IF Greater(s.t[s.i].key, s.t[s.j].key)
                           THEN Swap(s.t, s.i, s.j) ELSE s.t,
                   i |-> s.i, j |-> s.j + 1]]
      end == from[[t |-> [i \in Slots |-> [key |-> Key(row, rnd, i), id |-> row[i]]],
                   i |-> 0, j |-> 1]]
  IN  [i \in Slots |-> end[i].id]

----------------------------------------------------------------------------
ShaInit ==
  /\ shape \in Shapes
  /\ rep \in [Members -> Reps]
  /\ step = "sort" /\ now = 0
  /\ sorted = [i \in Members |-> i]
  /\ table = [x \in ShardIds |-> [i \in Slots |-> Nobody]]
  /\ place = [m \in Members |-> [Shard |-> 0, InShardId |-> 0, Role |-> Mining]]

Sort ==
  /\ step = "sort"
  /\ sorted' = SortRep[[a |-> sorted, l |-> 0, r |-> Last]]
  /\ step' = "deal"
  /\ UNCHANGED <<shape, rep, now, table, place>>

\* Mistake: the members of a shard follow each other.
DealRuns ==
  /\ step = "deal"
  /\ table' = [x \in ShardIds |->
                 [table[x] EXCEPT ![now] = sorted[x * Size + now]]]
  /\ IF now + 1 < Size THEN now' = now + 1 /\ step' = step
                       ELSE now' = 0 /\ step' = "lead"
  /\ UNCHANGED <<shape, rep, sorted, place>>

\* A shard that has its member of the row already is drawn again.
Deal ==
  /\ step = "deal"
  /\ \E p \in {q \in [ShardIds -> ShardIds] : IsInjective(q)} :
       table' = [x \in ShardIds |->
                   [table[x] EXCEPT ![now] = sorted[now * Cnt + p[x]]]]
  /\ IF now + 1 < Size THEN now' = now + 1 /\ step' = step
                       ELSE now' = 0 /\ step' = "lead"
  /\ UNCHANGED <<shape, rep, sorted, place>>

LeaderSort ==
  /\ step = "lead"
  /\ \E rnd \in [0..(Size \div 2 - 1) -> 0..(Random - 1)] :
       table' = [table EXCEPT ![now] = Ordered(@, rnd)]
  /\ IF now + 1 < Cnt THEN now' = now + 1 /\ step' = step
                      ELSE now' = 0 /\ step' = "roles"
  /\ UNCHANGED <<shape, rep, sorted, place>>

PlaceAt(m) ==
  LET slots == {s \in ShardIds \X Slots : table[s[1]][s[2]] = m}
      at == CHOOSE s \in slots : TRUE
  IN  IF slots = {} THEN place[m]
      ELSE [Shard |-> at[1], InShardId |-> at[2],
            Role |-> IF at[2] = 0 THEN Leading ELSE Mining]

SetRoles ==
  /\ step = "roles"
  /\ place' = [m \in Members |-> PlaceAt(m)]
  /\ step' = "done"
  /\ UNCHANGED <<shape, rep, now, sorted, table>>

ShaNext == Sort \/ Deal \/ LeaderSort \/ SetRoles

ShaSpec == ShaInit /\ [][ShaNext]_shaVars

----------------------------------------------------------------------------
\* TypeOK of shard formation.
ShaTypeOK ==
  /\ step \in {"sort", "deal", "lead", "roles", "done"}
  /\ now \in 0..Max({Cnt, Size})
  /\ sorted \in [Members -> Members]
  /\ table \in [ShardIds -> [Slots -> Members \cup {Nobody}]]
  /\ place \in [Members -> [Shard : ShardIds, InShardId : Slots,
                            Role : {Leading, Mining}]]

\* SortRep leaves every member in the list once and nobody behind a member
\* he goes before, whatever the order and the ties it starts from: its loops
\* are bounded by r and 0 and not by r and l.
SortCorrect ==
  step # "sort" =>
    /\ IsInjective(sorted)
    /\ \A i, j \in Members : i < j => ~Before(sorted[j], sorted[i])

\* When the shards are formed every member has one place, and it is the one
\* its Shard, InShardId and Role say: nobody is left out by the rows, the
\* draws that are repeated or the exchanges of LeaderSort.
Partitioned ==
  step = "done" =>
    \A m \in Members :
      /\ table[place[m].Shard][place[m].InShardId] = m
      /\ place[m].Role = Leading <=> place[m].InShardId = 0
      /\ \A x \in ShardIds : \A i \in Slots :
           table[x][i] = m => x = place[m].Shard /\ i = place[m].InShardId

Rank(m) == CHOOSE i \in Members : sorted[i] = m

\* The shards are equally strong: each has one of every ShardCnt members
\* that follow each other in the order of reputation.
Balanced ==
  step \in {"lead", "roles", "done"} =>
    \A x \in ShardIds :
      {Rank(table[x][i]) \div Cnt : i \in Slots} = Slots

\* The leader of a shard is one of the better half of its members (the lower
\* half has keys of 1 and more, or none that is a number when nobody has a
\* reputation).
LeaderOfUpperHalf ==
  step = "done" /\ Size > 1 =>
    \A x \in ShardIds : Rank(table[x][0]) \div Cnt < Size \div 2

\* Shards are formed as they should be: the list is sorted, and the shards
\* are a partition of the members, equally strong and well led.
ShardsFormed == SortCorrect /\ Partitioned /\ Balanced /\ LeaderOfUpperHalf
=============================================================================
