-------------------------- MODULE RepGossip_proofs --------------------------
(***************************************************************************)
(* Proofs about one round of the reputation gossip, for every shard size,  *)
(* every set of faulty members and every bound of RepGossip.               *)
(*                                                                         *)
(* Inductive steps, each using the ones before it: the tables are well     *)
(* typed (Typed), a request lacks the entry of the member it is sent to    *)
(* (FirRequests), every RepMsg that is stored or sent was signed by its    *)
(* member (Authentic), and every RepSecMsg that is stored or sent is the   *)
(* full table of a member that has left phase 1 (Barrier).                 *)
(***************************************************************************)
EXTENDS RepGossip, TLAPS

(* A table entry and a message entry, over the contents of both gossips. *)
Table(content) == [Nodes -> content \cup {None}]

(* The type invariant, and where the reset loop is. *)
Typed ==
  /\ TypeOK
  /\ \A n \in Nodes : pc[n] = "reset" => cleared[n] < N
  /\ \A n \in Nodes : pc[n] \in {"fir", "sec", "block", "done"} => cleared[n] = N

(* A handler of member n runs while the reset passes entries up to k: it    *)
(* ends, or it ends the program.                                            *)
Stops(n, k) ==
  cleared' = [cleared EXCEPT ![n] = k] /\ pc' = [pc EXCEPT ![n] = "panic"]

Handling(n, k, race) ==
  /\ Up(n) /\ k \in cleared[n] .. N /\ race \in Races(cleared[n], k)
  /\ Passes(n, k) \/ Stops(n, k)

LEMMA HandlingTyped ==
  ASSUME Typed, NEW n \in Nodes, NEW k, NEW race, Handling(n, k, race)
  PROVE  /\ pc' \in [Nodes -> Phases] /\ cleared' \in [Nodes -> 0 .. N]
         /\ \A m \in Nodes : pc'[m] = "reset" => cleared'[m] < N
         /\ \A m \in Nodes :
              pc'[m] \in {"fir", "sec", "block", "done"} => cleared'[m] = N
<1>1. /\ cleared[n] \in 0 .. N /\ N \in Nat /\ k \in cleared[n] .. N
      /\ pc \in [Nodes -> Phases] /\ cleared \in [Nodes -> 0 .. N]
  BY RepGossipAssumption DEF Typed, TypeOK, Handling
<1>2. cleared' = [cleared EXCEPT ![n] = k] /\ k \in 0 .. N
  BY <1>1 DEF Handling, Passes, Stops
<1>3. /\ \A m \in Nodes : cleared'[m] = IF m = n THEN k ELSE cleared[m]
      /\ cleared' \in [Nodes -> 0 .. N]
  BY <1>1, <1>2
<1>4. pc' = [pc EXCEPT ![n] = IF pc[n] = "reset" /\ k = N THEN "fir" ELSE pc[n]]
      \/ pc' = [pc EXCEPT ![n] = "panic"]
  BY DEF Handling, Passes, Stops
<1>5. /\ pc' \in [Nodes -> Phases] /\ \A m \in Nodes \ {n} : pc'[m] = pc[m]
      /\ pc'[n] \in {IF pc[n] = "reset" /\ k = N THEN "fir" ELSE pc[n], "panic"}
  BY <1>1, <1>4 DEF Phases
<1>6. /\ pc[n] = "reset" => cleared[n] < N
      /\ pc[n] \in {"fir", "sec", "block", "done"} => cleared[n] = N
  BY DEF Typed
<1>7. pc'[n] = "reset" => k # N
  BY <1>5
<1>8. pc'[n] \in {"fir", "sec", "block", "done"} => k = N
  BY <1>1, <1>5, <1>6
<1>9. k # N => k < N
  BY <1>1
<1> QED BY <1>3, <1>5, <1>7, <1>8, <1>9 DEF Typed

(* Only the entries of a member that is resetting can vanish. *)
LEMMA HandlingRace ==
  ASSUME Typed, NEW n \in Nodes, NEW k, NEW race, Handling(n, k, race)
  PROVE  /\ DOMAIN race \subseteq Nodes
         /\ \A m \in DOMAIN race : m < k
         /\ pc[n] # "reset" => DOMAIN race = {}
<1>1. /\ cleared[n] \in 0 .. N /\ N \in Nat /\ k \in cleared[n] .. N
      /\ DOMAIN race = cleared[n] .. (k - 1)
  BY RepGossipAssumption DEF Typed, TypeOK, Handling, Races
<1>2. pc[n] # "reset" => cleared[n] = N
  BY DEF Typed, TypeOK, Phases, Handling, Up
<1>3. DOMAIN race \subseteq Nodes /\ \A m \in DOMAIN race : m < k
  BY <1>1 DEF Nodes
<1>4. cleared[n] = N => DOMAIN race = {}
  BY <1>1
<1> QED BY <1>2, <1>3, <1>4

LEMMA MergeType ==
  ASSUME NEW content, NEW table \in Table(content), NEW data,
         DOMAIN data \subseteq Nodes, data \in [DOMAIN data -> content]
  PROVE  /\ Merge(table, data) \in Table(content)
         /\ Conflicts(table, data) \subseteq Nodes
BY DEF Merge, Conflicts, Known, Table

LEMMA WipedEntry ==
  ASSUME NEW content, NEW table \in Table(content), NEW race, NEW moments
  PROVE  /\ Wiped(table, race, moments) \in Table(content)
         /\ \A m \in Nodes : Wiped(table, race, moments)[m] \in {table[m], None}
         /\ DOMAIN race = {} => Wiped(table, race, moments) = table
BY DEF Wiped, Table

(* What a handler leaves of a table: entries it had, or the received ones;  *)
(* and all it had unless the reset took it.                                 *)
LEMMA UpdatedEntry ==
  ASSUME NEW content, NEW table \in Table(content), NEW race, NEW data,
         DOMAIN data \subseteq Nodes, data \in [DOMAIN data -> content]
  PROVE  /\ Updated(table, data, race) \in Table(content)
         /\ \A m \in Nodes : Updated(table, data, race)[m] # None =>
              \/ Updated(table, data, race)[m] = table[m]
              \/ m \in DOMAIN data /\ Updated(table, data, race)[m] = data[m]
         /\ DOMAIN race = {} => \A m \in Nodes : table[m] # None =>
              Updated(table, data, race)[m] = table[m]
<1> DEFINE met == Met(table, race)  merged == Merge(met, data)
<1>1. /\ met \in Table(content) /\ \A m \in Nodes : met[m] \in {table[m], None}
      /\ DOMAIN race = {} => met = table
  BY WipedEntry DEF Met
<1> HIDE DEF met
<1>2. merged \in Table(content)
  BY <1>1, MergeType
<1>3. \A m \in Nodes : merged[m] # None =>
        merged[m] = met[m] \/ (m \in DOMAIN data /\ merged[m] = data[m])
  BY DEF Merge
<1>4. \A m \in Nodes : met[m] # None => merged[m] = met[m]
  BY DEF Merge
<1> HIDE DEF merged
<1>5. Updated(table, data, race) = Wiped(merged, race, {"end"})
  BY DEF Updated, merged, met
<1>6. /\ Updated(table, data, race) \in Table(content)
      /\ \A m \in Nodes : Updated(table, data, race)[m] \in {merged[m], None}
      /\ DOMAIN race = {} => Updated(table, data, race) = merged
  BY <1>2, <1>5, WipedEntry
<1> QED BY <1>1, <1>3, <1>4, <1>6

LEMMA MissingType ==
  ASSUME NEW content, NEW table \in Table(content), NEW data
  PROVE  /\ Missing(table, data) \in [DOMAIN Missing(table, data) -> content]
         /\ DOMAIN Missing(table, data) = Known(table) \ DOMAIN data
         /\ DOMAIN Missing(table, data) \subseteq Nodes
BY DEF Missing, Known, Table

LEMMA SnapshotType ==
  ASSUME NEW content, NEW table \in Table(content)
  PROVE  /\ Snapshot(table) \in [DOMAIN Snapshot(table) -> content]
         /\ DOMAIN Snapshot(table) = Known(table)
         /\ DOMAIN Snapshot(table) \subseteq Nodes
BY DEF Snapshot, Known, Table

LEMMA MsgType ==
  ASSUME NEW content, NEW kind \in Kinds, NEW from \in Nodes, NEW to \in Nodes,
         NEW data, DOMAIN data \subseteq Nodes,
         data \in [DOMAIN data -> content]
  PROVE  IsMessage(Msg(kind, from, to, data), content)
BY DEF IsMessage, Msg

LEMMA CreditedType ==
  ASSUME TypeOK, NEW n \in Nodes
  PROVE  Credited(n) \in Views
BY RepGossipAssumption DEF TypeOK, Credited, Views

(* Signing the own RepMsg keeps the table a table and adds one content. *)
LEMMA OwnFirType ==
  ASSUME TypeOK, NEW n \in Nodes, NEW v \in Views, SignFir(n, v)
  PROVE  /\ WithOwnFir(n, v) \in Table(Views)
         /\ made' \in [Nodes -> SUBSET Views]
BY DEF TypeOK, WithOwnFir, SignFir, Table, Vectors

LEMMA OwnSecType ==
  ASSUME TypeOK, NEW n \in Nodes
  PROVE  WithOwnSec(n) \in Table(Vectors)
BY DEF TypeOK, WithOwnSec, Table

LEMMA InitTyped == Init => Typed
BY RepGossipAssumption DEF Init, Typed, TypeOK, Phases, Views, Vectors, Nodes

LEMMA ProcessTyped ==
  ASSUME Typed, NEW n \in Nodes, Process(n)
  PROVE  Typed'
<1> USE DEF Typed
<1>1. CASE ResetEntry(n)
  <2>1. cleared[n] \in 0 .. N /\ cleared[n] < N
    BY <1>1 DEF ResetEntry, TypeOK
  <2>2. cleared' \in [Nodes -> 0 .. N]
    BY <1>1, <2>1, RepGossipAssumption DEF ResetEntry, TypeOK
  <2>3. fir' \in [Nodes -> Vectors]
    BY <1>1 DEF ResetEntry, TypeOK, Vectors
  <2>4. sec' \in [Nodes -> [Nodes -> Vectors \cup {None}]]
    BY <1>1 DEF ResetEntry, TypeOK
  <2>5. byz' \in [Nodes -> SUBSET Nodes]
    BY <1>1 DEF ResetEntry, TypeOK
  <2>6. pc' \in [Nodes -> Phases]
    BY <1>1 DEF ResetEntry, TypeOK, Phases
  <2>7. \A k \in Nodes : pc'[k] = "reset" => cleared'[k] < N
    <3>1. pc'[n] = "reset" => cleared[n] + 1 # N /\ cleared'[n] = cleared[n] + 1
      BY <1>1 DEF ResetEntry, TypeOK
    <3>2. pc'[n] = "reset" => cleared'[n] < N
      BY <3>1, <2>1, RepGossipAssumption
    <3>3. \A k \in Nodes \ {n} : pc'[k] = pc[k] /\ cleared'[k] = cleared[k]
      BY <1>1 DEF ResetEntry, TypeOK
    <3> QED BY <3>2, <3>3
  <2>9. \A k \in Nodes : pc'[k] \in {"fir", "sec", "block", "done"} => cleared'[k] = N
    <3>1. pc'[n] \in {"fir", "sec", "block", "done"} => cleared'[n] = N
      BY <1>1, <2>1, RepGossipAssumption DEF ResetEntry, TypeOK
    <3>2. \A k \in Nodes \ {n} : pc'[k] = pc[k] /\ cleared'[k] = cleared[k]
      BY <1>1 DEF ResetEntry, TypeOK
    <3> QED BY <3>1, <3>2
  <2>8. UNCHANGED <<view, block, firNet, secNet, held, made>>
    BY <1>1 DEF ResetEntry
  <2> QED BY <2>2, <2>3, <2>4, <2>5, <2>6, <2>7, <2>8, <2>9 DEF TypeOK
<1>2. ASSUME NEW dest \in Nodes, SendFir(n, dest) PROVE Typed'
  <2> DEFINE table == WithOwnFir(n, view[n])
  <2>1. view[n] \in Views /\ SignFir(n, view[n])
    BY <1>2 DEF TypeOK, SendFir
  <2>2. table \in Table(Views) /\ made' \in [Nodes -> SUBSET Views]
    BY <2>1, OwnFirType
  <2>3. fir' \in [Nodes -> Vectors]
    BY <1>2, <2>2 DEF SendFir, TypeOK, Table, Vectors
  <2>4. IsMessage(Msg("Send", n, dest, Snapshot(table)), Views)
    BY <2>2, SnapshotType, MsgType DEF Kinds
  <2>5. \A msg \in firNet' : IsMessage(msg, Views)
    BY <1>2, <2>4 DEF SendFir, TypeOK
  <2>6. UNCHANGED <<pc, cleared, view, sec, byz, block, secNet, held>>
    BY <1>2 DEF SendFir
  <2> QED BY <2>2, <2>3, <2>5, <2>6 DEF TypeOK
<1>3. CASE EndFir(n)
  <2>1. view[n] \in Views /\ SignFir(n, view[n])
    BY <1>3 DEF TypeOK, EndFir
  <2>2. /\ WithOwnFir(n, view[n]) \in Table(Views)
        /\ made' \in [Nodes -> SUBSET Views]
    BY <2>1, OwnFirType
  <2>3. fir' \in [Nodes -> Vectors]
    BY <1>3, <2>2 DEF EndFir, TypeOK, Table, Vectors
  <2>4. /\ pc' \in [Nodes -> Phases]
        /\ \A k \in Nodes : pc'[k] = pc[k] \/ (pc[k] \in {"fir", "sec", "block"}
                                               /\ pc'[k] # "reset")
    BY <1>3 DEF EndFir, TypeOK, Phases
  <2>5. UNCHANGED <<cleared, view, sec, byz, block, firNet, secNet, held>>
    BY <1>3 DEF EndFir
  <2> QED BY <2>2, <2>3, <2>4, <2>5 DEF TypeOK
<1>4. ASSUME NEW dest \in Nodes, SendSec(n, dest) PROVE Typed'
  <2>1. WithOwnSec(n) \in Table(Vectors)
    BY OwnSecType
  <2>2. sec' \in [Nodes -> [Nodes -> Vectors \cup {None}]]
    BY <1>4, <2>1 DEF SendSec, TypeOK, Table
  <2>3. IsMessage(Msg("Send", n, dest, Snapshot(WithOwnSec(n))), Vectors)
    BY <2>1, SnapshotType, MsgType DEF Kinds
  <2>4. \A msg \in secNet' \cup held' : IsMessage(msg, Vectors)
    BY <1>4, <2>3 DEF SendSec, TypeOK
  <2>5. UNCHANGED <<pc, cleared, view, fir, byz, block, firNet, held, made>>
    BY <1>4 DEF SendSec
  <2> QED BY <2>2, <2>4, <2>5 DEF TypeOK
<1>5. CASE EndSec(n)
  <2>1. WithOwnSec(n) \in Table(Vectors)
    BY OwnSecType
  <2>2. sec' \in [Nodes -> [Nodes -> Vectors \cup {None}]]
    BY <1>5, <2>1 DEF EndSec, TypeOK, Table
  <2>3. /\ pc' \in [Nodes -> Phases]
        /\ \A k \in Nodes : pc'[k] = pc[k] \/ (pc[k] \in {"fir", "sec", "block"}
                                               /\ pc'[k] # "reset")
    BY <1>5 DEF EndSec, TypeOK, Phases
  <2>4. UNCHANGED <<cleared, view, fir, byz, block, firNet, secNet, held, made>>
    BY <1>5 DEF EndSec
  <2> QED BY <2>2, <2>3, <2>4 DEF TypeOK
<1>6. CASE GetRepBlock(n)
  <2>1. block' \in [Nodes -> Vectors \cup {None}]
    BY <1>6 DEF GetRepBlock, TypeOK
  <2>2. /\ pc' \in [Nodes -> Phases]
        /\ \A k \in Nodes : pc'[k] = pc[k] \/ (pc[k] \in {"fir", "sec", "block"}
                                               /\ pc'[k] # "reset")
    BY <1>6 DEF GetRepBlock, TypeOK, Phases
  <2>3. UNCHANGED <<cleared, view, fir, sec, byz, firNet, secNet, held, made>>
    BY <1>6 DEF GetRepBlock
  <2> QED BY <2>1, <2>2, <2>3 DEF TypeOK
<1> QED BY <1>1, <1>2, <1>3, <1>4, <1>5, <1>6, Zenon DEF Process

(* What UpdateGossipFir and UpdateGossipSec leave of the types. *)
LEMMA UpdateFirTyped ==
  ASSUME Typed, NEW n \in Nodes, NEW k, NEW race, Handling(n, k, race),
         NEW data, DOMAIN data \subseteq Nodes,
         data \in [DOMAIN data -> Views], UpdateGossipFir(n, data, race)
  PROVE  /\ WithOwnFir(n, Credited(n)) \in Table(Views)
         /\ (\A msg \in firNet' : IsMessage(msg, Views)) => Typed'
<1> DEFINE table == WithOwnFir(n, Credited(n))
           accused == Conflicts(Met(table, race), data)
<1>1. Credited(n) \in Views /\ SignFir(n, Credited(n))
  BY CreditedType DEF Typed, UpdateGossipFir
<1>2. table \in Table(Views) /\ made' \in [Nodes -> SUBSET Views]
  BY <1>1, OwnFirType DEF Typed
<1> HIDE DEF table
<1>3. Updated(table, data, race) \in Table(Views) /\ accused \subseteq Nodes
  <2>1. Met(table, race) \in Table(Views)
    BY <1>2, WipedEntry DEF Met
  <2> QED BY <1>2, <2>1, MergeType, UpdatedEntry
<1>4. fir' \in [Nodes -> Vectors]
  BY <1>3 DEF UpdateGossipFir, Typed, TypeOK, Table, Vectors, table
<1>5. sec' \in [Nodes -> [Nodes -> Vectors \cup {None}]]
  <2>1. Wiped(sec[n], race, Always) \in Table(Vectors)
    BY WipedEntry DEF Typed, TypeOK, Table
  <2> QED BY <2>1 DEF UpdateGossipFir, Typed, TypeOK, Table
<1>6. byz' \in [Nodes -> SUBSET Nodes]
  <2>1. PICK lost : byz' = [byz EXCEPT ![n] = (@ \ DOMAIN race) \cup (accused \ lost)]
    BY DEF UpdateGossipFir, table
  <2> HIDE DEF accused
  <2> QED BY <1>3, <2>1 DEF Typed, TypeOK
<1>7. view' \in [Nodes -> Views]
  BY <1>1 DEF UpdateGossipFir, Typed, TypeOK
<1>8. UNCHANGED <<block, secNet, held>>
  BY DEF UpdateGossipFir
<1> QED BY <1>2, <1>4, <1>5, <1>6, <1>7, <1>8, HandlingTyped DEF Typed, TypeOK, table

LEMMA UpdateSecTyped ==
  ASSUME Typed, NEW n \in Nodes, NEW k, NEW race, Handling(n, k, race),
         NEW data, DOMAIN data \subseteq Nodes,
         data \in [DOMAIN data -> Vectors], UpdateGossipSec(n, data, race)
  PROVE  (\A msg \in secNet' \cup held' : IsMessage(msg, Vectors)) => Typed'
<1>1. sec[n] \in Table(Vectors) /\ fir[n] \in Table(Views)
  BY DEF Typed, TypeOK, Table, Vectors
<1>2. /\ Updated(sec[n], data, race) \in Table(Vectors)
      /\ Wiped(fir[n], race, Always) \in Table(Views)
  BY <1>1, UpdatedEntry, WipedEntry
<1>3. sec' \in [Nodes -> [Nodes -> Vectors \cup {None}]]
  BY <1>2 DEF UpdateGossipSec, Typed, TypeOK, Table
<1>4. fir' \in [Nodes -> Vectors]
  BY <1>2 DEF UpdateGossipSec, Typed, TypeOK, Table, Vectors
<1>5. byz' \in [Nodes -> SUBSET Nodes]
  BY DEF UpdateGossipSec, Typed, TypeOK
<1>6. view' \in [Nodes -> Views]
  BY CreditedType DEF UpdateGossipSec, Typed, TypeOK
<1>7. UNCHANGED <<block, firNet, made>>
  BY DEF UpdateGossipSec
<1> QED BY <1>3, <1>4, <1>5, <1>6, <1>7, HandlingTyped DEF Typed, TypeOK

(* The handlers of each gossip are Handling and one update.  The reply to a *)
(* first message is of what the table had, and the program ends when there  *)
(* is none.                                                                 *)
FirReply(msg, race) ==
  Missing(Copied(WithOwnFir(msg.to, Credited(msg.to)), race), msg.data)

HandlesFir(msg, k, race) ==
  /\ Handling(msg.to, k, race) /\ UpdateGossipFir(msg.to, msg.data, race)
  /\ \/ Passes(msg.to, k)
     \/ msg.kind = "Send" /\ DOMAIN FirReply(msg, race) = {} /\ Stops(msg.to, k)
  /\ \A x \in firNet' : \/ x \in firNet
                         \/ /\ DOMAIN FirReply(msg, race) # {}
                            /\ x = Msg("Rev", msg.to, msg.from, FirReply(msg, race))

LEMMA FirHandled ==
  ASSUME NEW msg, HandleGossipFirSend(msg) \/ HandleGossipFirRev(msg)
  PROVE  \E k, race : HandlesFir(msg, k, race)
<1>1. CASE HandleGossipFirSend(msg)
  <2>1. PICK k, race :
          /\ k \in cleared[msg.to] .. N
          /\ race \in Races(cleared[msg.to], k)
          /\ UpdateGossipFir(msg.to, msg.data, race)
          /\ \/ /\ DOMAIN FirReply(msg, race) # {}
                /\ Passes(msg.to, k)
                /\ firNet' = (firNet \ {msg}) \cup
                     {Msg("Rev", msg.to, msg.from, FirReply(msg, race))}
             \/ /\ DOMAIN FirReply(msg, race) = {}
                /\ Stops(msg.to, k)
                /\ firNet' = firNet \ {msg}
    BY <1>1 DEF HandleGossipFirSend, FirReply, Stops
  <2>2. Up(msg.to) /\ msg.kind = "Send"
    BY <1>1 DEF HandleGossipFirSend
  <2>3. HandlesFir(msg, k, race)
    BY <2>1, <2>2 DEF HandlesFir, Handling
  <2> QED BY <2>3
<1>2. CASE HandleGossipFirRev(msg)
  <2>1. PICK k, race :
          /\ k \in cleared[msg.to] .. N
          /\ race \in Races(cleared[msg.to], k)
          /\ UpdateGossipFir(msg.to, msg.data, race) /\ Passes(msg.to, k)
    BY <1>2 DEF HandleGossipFirRev
  <2>2. Up(msg.to) /\ firNet' = firNet \ {msg}
    BY <1>2 DEF HandleGossipFirRev
  <2>3. HandlesFir(msg, k, race)
    BY <2>1, <2>2 DEF HandlesFir, Handling
  <2> QED BY <2>3
<1> QED BY <1>1, <1>2

HandlesSec(msg, k, race) ==
  /\ Handling(msg.to, k, race) /\ UpdateGossipSec(msg.to, msg.data, race)
  /\ Passes(msg.to, k)
  /\ secNet' \cup held' \subseteq secNet \cup held \cup SecReply(msg, race)

LEMMA SecHandled ==
  ASSUME NEW msg, \/ HandleGossipSecSend(msg) \/ HandleGossipSecRev(msg)
                  \/ ResumeGossipSecSend(msg)
  PROVE  \E k, race : HandlesSec(msg, k, race)
<1>1. CASE HandleGossipSecSend(msg)
  <2>1. PICK k, race :
          /\ k \in cleared[msg.to] .. N
          /\ race \in Races(cleared[msg.to], k)
          /\ UpdateGossipSec(msg.to, msg.data, race) /\ Passes(msg.to, k)
          /\ IF Ready(msg, race)
               THEN secNet' = (secNet \ {msg}) \cup SecReply(msg, race) /\ UNCHANGED held
               ELSE secNet' = secNet \ {msg} /\ held' = held \cup {msg}
    BY <1>1 DEF HandleGossipSecSend
  <2>2. Up(msg.to) /\ msg \in secNet
    BY <1>1 DEF HandleGossipSecSend
  <2>3. HandlesSec(msg, k, race)
    BY <2>1, <2>2 DEF HandlesSec, Handling
  <2> QED BY <2>3
<1>2. CASE HandleGossipSecRev(msg)
  <2>1. PICK k, race :
          /\ k \in cleared[msg.to] .. N
          /\ race \in Races(cleared[msg.to], k)
          /\ UpdateGossipSec(msg.to, msg.data, race) /\ Passes(msg.to, k)
    BY <1>2 DEF HandleGossipSecRev
  <2>2. Up(msg.to) /\ secNet' = secNet \ {msg} /\ held' = held
    BY <1>2 DEF HandleGossipSecRev
  <2>3. HandlesSec(msg, k, race)
    BY <2>1, <2>2 DEF HandlesSec, Handling
  <2> QED BY <2>3
<1>3. CASE ResumeGossipSecSend(msg)
  <2>1. PICK k, race :
          /\ k \in cleared[msg.to] .. N
          /\ race \in Races(cleared[msg.to], k)
          /\ UpdateGossipSec(msg.to, msg.data, race) /\ Passes(msg.to, k)
          /\ secNet' = secNet \cup SecReply(msg, race)
    BY <1>3 DEF ResumeGossipSecSend
  <2>2. Up(msg.to) /\ held' = held \ {msg}
    BY <1>3 DEF ResumeGossipSecSend
  <2>3. HandlesSec(msg, k, race)
    BY <2>1, <2>2 DEF HandlesSec, Handling
  <2> QED BY <2>3
<1> QED BY <1>1, <1>2, <1>3

LEMMA HandleFirTyped ==
  ASSUME Typed, NEW msg \in firNet,
         HandleGossipFirSend(msg) \/ HandleGossipFirRev(msg) \/ LoseFir(msg)
  PROVE  Typed'
<1> DEFINE n == msg.to  table == WithOwnFir(n, Credited(n))
<1>1. IsMessage(msg, Views)
  BY DEF Typed, TypeOK
<1>2. /\ n \in Nodes /\ msg.from \in Nodes /\ DOMAIN msg.data \subseteq Nodes
      /\ msg.data \in [DOMAIN msg.data -> Views]
  BY <1>1 DEF IsMessage
<1>3. CASE HandleGossipFirSend(msg) \/ HandleGossipFirRev(msg)
  <2>1. PICK k, race : HandlesFir(msg, k, race)
    BY <1>3, FirHandled
  <2>2. /\ table \in Table(Views)
        /\ (\A m \in firNet' : IsMessage(m, Views)) => Typed'
    BY <1>2, <2>1, UpdateFirTyped DEF HandlesFir
  <2>3. Copied(table, race) \in Table(Views)
    BY <2>2, WipedEntry DEF Copied
  <2>4. IsMessage(Msg("Rev", n, msg.from, FirReply(msg, race)), Views)
    BY <1>2, <2>3, MissingType, MsgType DEF Kinds, FirReply
  <2>5. \A m \in firNet' : IsMessage(m, Views)
    BY <2>1, <2>4 DEF HandlesFir, Typed, TypeOK
  <2> QED BY <2>2, <2>5
<1>4. CASE LoseFir(msg)
  BY <1>4 DEF LoseFir, Typed, TypeOK
<1> QED BY <1>3, <1>4

LEMMA SecReplyType ==
  ASSUME TypeOK, NEW msg, IsMessage(msg, Vectors), NEW race
  PROVE  \A m \in SecReply(msg, race) : IsMessage(m, Vectors)
<1> DEFINE n == msg.to  reply == Missing(Copied(sec[n], race), msg.data)
<1>1. n \in Nodes /\ msg.from \in Nodes
  BY DEF IsMessage
<1>2. sec[n] \in Table(Vectors)
  BY <1>1 DEF TypeOK, Table
<1>3. Copied(sec[n], race) \in Table(Vectors)
  BY <1>2, WipedEntry DEF Copied
<1>4. IsMessage(Msg("Rev", n, msg.from, reply), Vectors)
  BY <1>1, <1>3, MissingType, MsgType DEF Kinds
<1> QED BY <1>4 DEF SecReply

LEMMA HandleSecTyped ==
  ASSUME Typed, NEW msg,
         \/ msg \in secNet /\ (HandleGossipSecSend(msg) \/ HandleGossipSecRev(msg)
                                                        \/ LoseSec(msg))
         \/ msg \in held /\ ResumeGossipSecSend(msg)
  PROVE  Typed'
<1>1. IsMessage(msg, Vectors)
  BY DEF Typed, TypeOK
<1>2. /\ msg.to \in Nodes /\ DOMAIN msg.data \subseteq Nodes
      /\ msg.data \in [DOMAIN msg.data -> Vectors]
  BY <1>1 DEF IsMessage
<1>3. CASE \/ HandleGossipSecSend(msg) \/ HandleGossipSecRev(msg)
           \/ ResumeGossipSecSend(msg)
  <2>1. PICK k, race : HandlesSec(msg, k, race)
    BY <1>3, SecHandled
  <2>2. \A m \in SecReply(msg, race) : IsMessage(m, Vectors)
    BY <1>1, SecReplyType DEF Typed
  <2>3. \A m \in secNet' \cup held' : IsMessage(m, Vectors)
    BY <2>1, <2>2 DEF HandlesSec, Typed, TypeOK
  <2> QED BY <1>2, <2>1, <2>3, UpdateSecTyped DEF HandlesSec
<1>4. CASE LoseSec(msg)
  BY <1>4 DEF LoseSec, Typed, TypeOK
<1> QED BY <1>3, <1>4

LEMMA NextTyped == Typed /\ [Next]_vars => Typed'
<1> SUFFICES ASSUME Typed, [Next]_vars PROVE Typed'
  OBVIOUS
<1>1. ASSUME NEW n \in Nodes, AppendTxBlock(n) PROVE Typed'
  <2>1. view' \in [Nodes -> Views]
    BY <1>1, RepGossipAssumption DEF AppendTxBlock, Typed, TypeOK, Views
  <2> QED BY <1>1, <2>1 DEF AppendTxBlock, Typed, TypeOK
<1>2. ASSUME NEW n \in Nodes, Crash(n) PROVE Typed'
  <2>1. /\ pc' \in [Nodes -> Phases]
        /\ \A k \in Nodes : pc'[k] \in {pc[k], "down"}
    BY <1>2 DEF Crash, Typed, TypeOK, Phases
  <2> QED BY <1>2, <2>1 DEF Crash, Typed, TypeOK
<1>3. CASE UNCHANGED vars
  BY <1>3 DEF vars, Typed, TypeOK
<1> QED
  BY <1>1, <1>2, <1>3, ProcessTyped, HandleFirTyped, HandleSecTyped, Zenon
  DEF Next, Finished

(* The tables, phases and messages keep their types (NewRepProcess and the *)
(* gossip handlers, newRepProtocol.go).                                    *)
THEOREM TypeCorrect == Spec => []TypeOK
<1>1. Typed => TypeOK
  BY DEF Typed
<1> QED BY <1>1, InitTyped, NextTyped, PTL DEF Spec

-----------------------------------------------------------------------------

(* What the handlers of phase 1 rely on: a request carries something and    *)
(* not the entry of the member it is sent to; a reply carries something.    *)
FirRequests ==
  \A msg \in firNet :
    /\ DOMAIN msg.data # {}
    /\ msg.kind = "Send" => msg.to \notin DOMAIN msg.data

SecRequests == \A msg \in secNet \cup held : DOMAIN msg.data # {}

(* A process sends its own entry and not that of the member it sends to.    *)
LEMMA NextFirRequests == Typed /\ FirRequests /\ [Next]_vars => FirRequests'
<1> SUFFICES ASSUME Typed, FirRequests, [Next]_vars PROVE FirRequests'
  OBVIOUS
<1>1. \A n \in Nodes, v \in Views : n \in Known(WithOwnFir(n, v))
  BY RepGossipAssumption DEF WithOwnFir, Known, Typed, TypeOK, Vectors
<1>2. ASSUME NEW n \in Nodes, NEW dest \in Nodes, SendFir(n, dest)
      PROVE  FirRequests'
  <2> DEFINE table == WithOwnFir(n, view[n])
  <2>1. n \in Known(table) /\ dest \notin Known(table)
    BY <1>1, <1>2 DEF SendFir, Typed, TypeOK
  <2>2. DOMAIN Snapshot(table) = Known(table)
    BY DEF Snapshot
  <2> HIDE DEF table
  <2>3. \A msg \in firNet' :
          msg \in firNet \/ (msg.to = dest /\ msg.data = Snapshot(table))
    BY <1>2 DEF SendFir, Msg, table
  <2> QED BY <2>1, <2>2, <2>3 DEF FirRequests
<1>3. ASSUME NEW msg \in firNet, HandleGossipFirSend(msg) \/ HandleGossipFirRev(msg)
      PROVE  FirRequests'
  <2>1. PICK k, race : HandlesFir(msg, k, race)
    BY <1>3, FirHandled
  <2>2. ASSUME NEW x \in firNet', x \notin firNet
        PROVE  x.kind = "Rev" /\ DOMAIN x.data # {}
    <3>1. /\ DOMAIN FirReply(msg, race) # {}
          /\ x = Msg("Rev", msg.to, msg.from, FirReply(msg, race))
      BY <2>1, <2>2 DEF HandlesFir
    <3>2. x.kind = "Rev" /\ x.data = FirReply(msg, race)
      BY <3>1 DEF Msg
    <3> QED BY <3>1, <3>2
  <2> QED BY <2>2 DEF FirRequests
<1>4. ASSUME firNet' \subseteq firNet PROVE FirRequests'
  BY <1>4 DEF FirRequests
<1>5. ASSUME NEW n \in Nodes, Process(n), \A dest \in Nodes : ~SendFir(n, dest)
      PROVE  firNet' \subseteq firNet
  BY <1>5 DEF Process, ResetEntry, EndFir, EndSec, GetRepBlock, SendSec
<1>6. ASSUME NEW msg, \/ HandleGossipSecSend(msg) \/ HandleGossipSecRev(msg)
                      \/ LoseSec(msg) \/ ResumeGossipSecSend(msg)
                      \/ LoseFir(msg)
      PROVE  firNet' \subseteq firNet
  BY <1>6 DEF HandleGossipSecSend, HandleGossipSecRev, LoseSec,
              ResumeGossipSecSend, UpdateGossipSec, LoseFir
<1>7. ASSUME NEW n \in Nodes, AppendTxBlock(n) \/ Crash(n)
      PROVE  firNet' \subseteq firNet
  BY <1>7 DEF AppendTxBlock, Crash
<1>8. UNCHANGED vars => firNet' \subseteq firNet
  BY DEF vars
<1> QED BY <1>2, <1>3, <1>4, <1>5, <1>6, <1>7, <1>8, Zenon DEF Next, Finished

(* GenerateGossipSec puts the own RepSecMsg in every request; an empty      *)
(* reply is not sent.                                                       *)
LEMMA NextSecRequests == Typed /\ SecRequests /\ [Next]_vars => SecRequests'
<1> SUFFICES ASSUME Typed, SecRequests, [Next]_vars PROVE SecRequests'
  OBVIOUS
<1>1. ASSUME secNet' \cup held' \subseteq secNet \cup held PROVE SecRequests'
  BY <1>1 DEF SecRequests
<1>2. ASSUME NEW n \in Nodes, NEW dest \in Nodes, SendSec(n, dest)
      PROVE  SecRequests'
  <2>1. fir[n] # None /\ sec[n] \in [Nodes -> Vectors \cup {None}]
    BY RepGossipAssumption DEF Typed, TypeOK
  <2>2. n \in Known(WithOwnSec(n))
    BY <2>1 DEF WithOwnSec, Known
  <2>3. DOMAIN Snapshot(WithOwnSec(n)) # {}
    BY <2>2 DEF Snapshot
  <2>4. \A m \in secNet' \cup held' :
          m \in secNet \cup held \/ m.data = Snapshot(WithOwnSec(n))
    BY <1>2 DEF SendSec, Msg
  <2> QED BY <2>3, <2>4 DEF SecRequests
<1>3. ASSUME NEW msg, NEW race, NEW m \in SecReply(msg, race)
      PROVE  DOMAIN m.data # {}
  <2> DEFINE reply == Missing(Copied(sec[msg.to], race), msg.data)
  <2>1. DOMAIN reply # {} /\ m = Msg("Rev", msg.to, msg.from, reply)
    BY <1>3 DEF SecReply
  <2>2. m.data = reply
    BY <2>1 DEF Msg
  <2> QED BY <2>1, <2>2
<1>4. ASSUME NEW msg \in secNet \cup held,
             \/ HandleGossipSecSend(msg) \/ HandleGossipSecRev(msg)
             \/ ResumeGossipSecSend(msg)
      PROVE  SecRequests'
  <2>1. PICK k, race : HandlesSec(msg, k, race)
    BY <1>4, SecHandled
  <2> QED BY <1>3, <2>1 DEF HandlesSec, SecRequests
<1>6. ASSUME NEW n \in Nodes, Process(n), \A dest \in Nodes : ~SendSec(n, dest)
      PROVE  SecRequests'
  BY <1>1, <1>6 DEF Process, ResetEntry, EndFir, EndSec, GetRepBlock, SendFir
<1>7. ASSUME NEW msg, \/ LoseSec(msg) \/ LoseFir(msg)
                      \/ HandleGossipFirSend(msg) \/ HandleGossipFirRev(msg)
      PROVE  SecRequests'
  BY <1>1, <1>7 DEF LoseSec, LoseFir, HandleGossipFirSend,
                    HandleGossipFirRev, UpdateGossipFir
<1>8. ASSUME NEW n \in Nodes, AppendTxBlock(n) \/ Crash(n) PROVE SecRequests'
  BY <1>1, <1>8 DEF AppendTxBlock, Crash
<1>9. UNCHANGED vars => SecRequests'
  BY <1>1 DEF vars
<1> QED BY <1>2, <1>4, <1>6, <1>7, <1>8, <1>9, Zenon DEF Next, Finished

(* The reply lacks the own entry, the one the sender of the request does    *)
(* not have, only if the reset took it before the handler copied it.        *)
LEMMA OwnEntryTaken ==
  ASSUME Typed, FirRequests, NEW msg \in firNet, NEW k, NEW race,
         HandlesFir(msg, k, race), ~Passes(msg.to, k)
  PROVE  /\ msg.to \in DOMAIN race /\ race[msg.to] = "copy"
         /\ msg.to \notin DOMAIN msg.data
         /\ pc[msg.to] = "reset" /\ Stops(msg.to, k)
<1> DEFINE n == msg.to  table == WithOwnFir(n, Credited(n))
<1>1. msg.kind = "Send" /\ DOMAIN FirReply(msg, race) = {} /\ Stops(n, k)
  BY DEF HandlesFir
<1>2. n \in Nodes /\ Credited(n) \in Views
  BY CreditedType DEF Typed, TypeOK, IsMessage
<1>3. table[n] # None
  BY <1>2, RepGossipAssumption DEF WithOwnFir, Typed, TypeOK, Vectors
<1>4. n \notin DOMAIN msg.data
  BY <1>1 DEF FirRequests
<1> HIDE DEF table, n
<1>5. n \notin Known(Copied(table, race))
  BY <1>1, <1>4 DEF FirReply, Missing, table, n
<1>6. n \in DOMAIN race /\ race[n] \in {"copy"}
  BY <1>2, <1>3, <1>5 DEF Known, Copied, Wiped
<1>7. pc[n] = "reset"
  BY <1>2, <1>6, HandlingRace DEF HandlesFir, n
<1> QED BY <1>1, <1>4, <1>6, <1>7 DEF n

(* A member whose program a handler has ended has lost its own RepMsg to    *)
(* the reset.                                                               *)
Fallen == \A n \in Nodes : pc[n] = "panic" => fir[n][n] = None /\ n < cleared[n]

LEMMA NextFallen == Typed /\ FirRequests /\ Fallen /\ [Next]_vars => Fallen'
<1> SUFFICES ASSUME Typed, FirRequests, Fallen, [Next]_vars PROVE Fallen'
  OBVIOUS
<1>1. ASSUME NEW n \in Nodes, pc'[n] # "panic",
             \A m \in Nodes \ {n} :
               pc'[m] = pc[m] /\ fir'[m] = fir[m] /\ cleared'[m] = cleared[m]
      PROVE  Fallen'
  BY <1>1 DEF Fallen
<1>2. ASSUME NEW n \in Nodes, Process(n) \/ AppendTxBlock(n) \/ Crash(n)
      PROVE  Fallen'
  <2>1. pc'[n] # "panic"
    BY <1>2 DEF Process, ResetEntry, SendFir, EndFir, SendSec, EndSec, GetRepBlock,
                AppendTxBlock, Crash, Up, Typed, TypeOK
  <2>2. \A m \in Nodes \ {n} :
          pc'[m] = pc[m] /\ fir'[m] = fir[m] /\ cleared'[m] = cleared[m]
    BY <1>2 DEF Process, ResetEntry, SendFir, EndFir, SendSec, EndSec, GetRepBlock,
                AppendTxBlock, Crash, Typed, TypeOK
  <2> QED BY <1>1, <2>1, <2>2
<1>3. ASSUME NEW n \in Nodes, NEW k, NEW race, Handling(n, k, race)
      PROVE  /\ \A m \in Nodes \ {n} : pc'[m] = pc[m] /\ cleared'[m] = cleared[m]
             /\ Passes(n, k) => pc'[n] # "panic"
             /\ cleared'[n] = k
  BY <1>3 DEF Handling, Passes, Stops, Up, Typed, TypeOK
<1>4. ASSUME NEW msg \in firNet, HandleGossipFirSend(msg) \/ HandleGossipFirRev(msg)
      PROVE  Fallen'
  <2> DEFINE n == msg.to
  <2>1. PICK k, race : HandlesFir(msg, k, race)
    BY <1>4, FirHandled
  <2>2. n \in Nodes
    BY DEF Typed, TypeOK, IsMessage
  <2>3. /\ \A m \in Nodes \ {n} : fir'[m] = fir[m]
        /\ fir'[n] = Updated(WithOwnFir(n, Credited(n)), msg.data, race)
    BY <2>1, <2>2 DEF HandlesFir, UpdateGossipFir, Typed, TypeOK
  <2>4. CASE Passes(n, k)
    BY <1>1, <1>3, <2>1, <2>2, <2>3, <2>4 DEF HandlesFir
  <2>5. CASE ~Passes(n, k)
    <3>1. n \in DOMAIN race /\ race[n] = "copy" /\ n \notin DOMAIN msg.data
      BY <2>1, <2>5, OwnEntryTaken
    <3>2. fir'[n][n] = None
      BY <2>2, <2>3, <3>1 DEF Updated, Met, Wiped, Merge
    <3>3. n < cleared'[n]
      BY <1>3, <2>1, <2>2, <3>1, HandlingRace DEF HandlesFir
    <3> QED BY <1>3, <2>1, <2>2, <2>3, <3>2, <3>3 DEF HandlesFir, Fallen
  <2> QED BY <2>4, <2>5
<1>5. ASSUME NEW msg \in secNet \cup held,
             \/ HandleGossipSecSend(msg) \/ HandleGossipSecRev(msg)
             \/ ResumeGossipSecSend(msg)
      PROVE  Fallen'
  <2>1. PICK k, race : HandlesSec(msg, k, race)
    BY <1>5, SecHandled
  <2>2. msg.to \in Nodes
    BY DEF Typed, TypeOK, IsMessage
  <2>3. \A m \in Nodes \ {msg.to} : fir'[m] = fir[m]
    BY <2>1, <2>2 DEF HandlesSec, UpdateGossipSec, Typed, TypeOK
  <2> QED BY <1>1, <1>3, <2>1, <2>2, <2>3 DEF HandlesSec
<1>6. ASSUME NEW msg, LoseFir(msg) \/ LoseSec(msg) PROVE Fallen'
  BY <1>6 DEF LoseFir, LoseSec, Fallen
<1>7. UNCHANGED vars => Fallen'
  BY DEF vars, Fallen
<1> QED BY <1>2, <1>4, <1>5, <1>6, <1>7, Zenon DEF Next, Finished

(* A handler that reads Data[0] finds it (newRepProtocol.go:106, :110),     *)
(* unless the reset of its member, which takes no lock, took the own RepMsg *)
(* that it had just made or found.                                          *)
THEOREM EmptyReplyOnlyByReset == Spec => []EmptyReplyNeedsReset
<1>1. Init => FirRequests /\ SecRequests /\ Fallen
  BY DEF Init, FirRequests, SecRequests, Fallen
<1>2. FirRequests /\ SecRequests /\ Fallen => EmptyReplyNeedsReset
  BY DEF FirRequests, SecRequests, Fallen, EmptyReplyNeedsReset
<1> QED BY <1>1, <1>2, InitTyped, NextTyped, NextFirRequests, NextSecRequests,
           NextFallen, PTL DEF Spec

-----------------------------------------------------------------------------

PastPhaseOne == {"sec", "block", "done", "down"}

(* What no step undoes for member n: a signed content stays signed, a table *)
(* entry stays once the reset is over, and phase 1 is not entered again.    *)
Kept(n) ==
  /\ made[n] \subseteq made'[n]
  /\ pc[n] # "reset" => \A m \in Nodes :
       /\ fir[n][m] # None => fir'[n][m] = fir[n][m]
       /\ sec[n][m] # None => sec'[n][m] = sec[n][m]
  /\ pc[n] \in PastPhaseOne => pc'[n] \in PastPhaseOne

LEMMA UpdateFirKeeps ==
  ASSUME Typed, FirRequests, NEW msg \in firNet, NEW k, NEW race,
         HandlesFir(msg, k, race)
  PROVE  \A n \in Nodes : Kept(n)
<1> DEFINE to == msg.to  table == WithOwnFir(to, Credited(to))
<1>1. /\ to \in Nodes /\ DOMAIN msg.data \subseteq Nodes
      /\ msg.data \in [DOMAIN msg.data -> Views]
  BY DEF Typed, TypeOK, IsMessage
<1>2. pc[to] # "reset" => DOMAIN race = {} /\ Passes(to, k)
  BY <1>1, HandlingRace, OwnEntryTaken DEF HandlesFir
<1>3. \A n \in Nodes : made[n] \subseteq made'[n]
  BY DEF HandlesFir, UpdateGossipFir, SignFir, Typed, TypeOK
<1>4. pc[to] # "reset" => \A m \in Nodes : fir[to][m] # None => fir'[to][m] = fir[to][m]
  <2>1. \A m \in Nodes : fir[to][m] # None => table[m] = fir[to][m]
    BY <1>1 DEF Typed, TypeOK, Vectors, WithOwnFir
  <2>2. table \in Table(Views)
    BY <1>1, OwnFirType, CreditedType DEF HandlesFir, UpdateGossipFir, Typed
  <2> HIDE DEF table
  <2>3. DOMAIN race = {} => \A m \in Nodes : table[m] # None =>
          Updated(table, msg.data, race)[m] = table[m]
    BY <1>1, <2>2, UpdatedEntry
  <2>4. fir'[to] = Updated(table, msg.data, race)
    BY <1>1 DEF HandlesFir, UpdateGossipFir, Typed, TypeOK, table
  <2>5. \A m \in Nodes : fir[to][m] # None => table[m] # None
    BY <2>1
  <2> QED BY <1>2, <2>1, <2>3, <2>4, <2>5
<1>5. pc[to] # "reset" => sec'[to] = sec[to]
  <2>1. sec[to] \in Table(Vectors)
    BY <1>1 DEF Typed, TypeOK, Table
  <2>2. DOMAIN race = {} => Wiped(sec[to], race, Always) = sec[to]
    BY <2>1, WipedEntry
  <2> QED BY <1>1, <1>2, <2>2 DEF HandlesFir, UpdateGossipFir, Typed, TypeOK
<1>6. \A n \in Nodes \ {to} :
        fir'[n] = fir[n] /\ sec'[n] = sec[n] /\ pc'[n] = pc[n]
  BY <1>1 DEF HandlesFir, UpdateGossipFir, Handling, Passes, Stops, Typed, TypeOK
<1>7. pc[to] \in PastPhaseOne => pc'[to] = pc[to]
  BY <1>1, <1>2 DEF Passes, PastPhaseOne, Typed, TypeOK
<1> QED BY <1>3, <1>4, <1>5, <1>6, <1>7 DEF Kept

LEMMA UpdateSecKeeps ==
  ASSUME Typed, NEW msg \in secNet \cup held, NEW k, NEW race,
         HandlesSec(msg, k, race)
  PROVE  \A n \in Nodes : Kept(n)
<1> DEFINE to == msg.to
<1>1. /\ to \in Nodes /\ DOMAIN msg.data \subseteq Nodes
      /\ msg.data \in [DOMAIN msg.data -> Vectors]
      /\ sec[to] \in Table(Vectors) /\ fir[to] \in Table(Views)
  BY DEF Typed, TypeOK, IsMessage, Table, Vectors
<1>2. pc[to] # "reset" => DOMAIN race = {} /\ Passes(to, k)
  BY <1>1, HandlingRace DEF HandlesSec
<1>3. pc[to] # "reset" => \A m \in Nodes : sec[to][m] # None => sec'[to][m] = sec[to][m]
  <2>1. DOMAIN race = {} => \A m \in Nodes : sec[to][m] # None =>
          Updated(sec[to], msg.data, race)[m] = sec[to][m]
    BY <1>1, UpdatedEntry
  <2> QED BY <1>1, <1>2, <2>1 DEF HandlesSec, UpdateGossipSec, Typed, TypeOK
<1>4. pc[to] # "reset" => fir'[to] = fir[to]
  <2>1. DOMAIN race = {} => Wiped(fir[to], race, Always) = fir[to]
    BY <1>1, WipedEntry
  <2> QED BY <1>1, <1>2, <2>1 DEF HandlesSec, UpdateGossipSec, Typed, TypeOK
<1>5. \A n \in Nodes \ {to} :
        fir'[n] = fir[n] /\ sec'[n] = sec[n] /\ pc'[n] = pc[n]
  BY <1>1 DEF HandlesSec, UpdateGossipSec, Passes, Typed, TypeOK
<1>6. pc[to] \in PastPhaseOne => pc'[to] = pc[to]
  BY <1>1, <1>2 DEF Passes, PastPhaseOne, Typed, TypeOK
<1>7. UNCHANGED made
  BY DEF HandlesSec, UpdateGossipSec
<1> QED BY <1>3, <1>4, <1>5, <1>6, <1>7 DEF Kept

LEMMA ProcessKeeps ==
  ASSUME Typed, NEW k \in Nodes, Process(k)
  PROVE  \A n \in Nodes : Kept(n)
<1>1. CASE ResetEntry(k)
  BY <1>1 DEF ResetEntry, Kept, PastPhaseOne, Typed, TypeOK
<1>2. ASSUME NEW m \in Nodes
      PROVE  /\ fir[k][m] # None => WithOwnFir(k, view[k])[m] = fir[k][m]
             /\ sec[k][m] # None => WithOwnSec(k)[m] = sec[k][m]
  BY DEF WithOwnFir, WithOwnSec, Typed, TypeOK, Vectors
<1>3. SignFir(k, view[k]) => \A n \in Nodes : made[n] \subseteq made'[n]
  BY DEF SignFir, Typed, TypeOK
<1>4. ASSUME NEW dest \in Nodes, SendFir(k, dest) PROVE \A n \in Nodes : Kept(n)
  <2>1. \A n, m \in Nodes : fir[n][m] # None => fir'[n][m] = fir[n][m]
    <3>1. /\ fir'[k] = WithOwnFir(k, view[k])
          /\ \A n \in Nodes : n # k => fir'[n] = fir[n]
      BY <1>4 DEF SendFir, Typed, TypeOK
    <3> QED BY <1>2, <3>1
  <2> QED BY <1>3, <1>4, <2>1 DEF SendFir, Kept
<1>5. CASE EndFir(k)
  <2>1. \A n, m \in Nodes : fir[n][m] # None => fir'[n][m] = fir[n][m]
    <3>1. /\ fir'[k] = WithOwnFir(k, view[k])
          /\ \A n \in Nodes : n # k => fir'[n] = fir[n]
      BY <1>5 DEF EndFir, Typed, TypeOK
    <3> QED BY <1>2, <3>1
  <2>2. \A n \in Nodes : pc[n] \in PastPhaseOne => pc'[n] \in PastPhaseOne
    BY <1>5 DEF EndFir, PastPhaseOne, Typed, TypeOK
  <2>3. SignFir(k, view[k]) /\ UNCHANGED sec
    BY <1>5 DEF EndFir
  <2> QED BY <1>3, <2>1, <2>2, <2>3 DEF Kept
<1>6. ASSUME NEW dest \in Nodes, SendSec(k, dest) PROVE \A n \in Nodes : Kept(n)
  <2>1. \A n, m \in Nodes : sec[n][m] # None => sec'[n][m] = sec[n][m]
    <3>1. /\ sec'[k] = WithOwnSec(k)
          /\ \A n \in Nodes : n # k => sec'[n] = sec[n]
      BY <1>6 DEF SendSec, Typed, TypeOK
    <3> QED BY <1>2, <3>1
  <2> QED BY <1>6, <2>1 DEF SendSec, Kept
<1>7. CASE EndSec(k)
  <2>1. \A n, m \in Nodes : sec[n][m] # None => sec'[n][m] = sec[n][m]
    <3>1. /\ sec'[k] = WithOwnSec(k)
          /\ \A n \in Nodes : n # k => sec'[n] = sec[n]
      BY <1>7 DEF EndSec, Typed, TypeOK
    <3> QED BY <1>2, <3>1
  <2>2. \A n \in Nodes : pc[n] \in PastPhaseOne => pc'[n] \in PastPhaseOne
    BY <1>7 DEF EndSec, PastPhaseOne, Typed, TypeOK
  <2> QED BY <1>7, <2>1, <2>2 DEF EndSec, Kept
<1>8. CASE GetRepBlock(k)
  BY <1>8 DEF GetRepBlock, Kept, PastPhaseOne, Typed, TypeOK
<1> QED BY <1>1, <1>4, <1>5, <1>6, <1>7, <1>8, Zenon DEF Process

LEMMA NextKeeps ==
  ASSUME Typed, FirRequests, [Next]_vars
  PROVE  \A n \in Nodes : Kept(n)
<1>1. ASSUME NEW msg \in firNet,
             HandleGossipFirSend(msg) \/ HandleGossipFirRev(msg) \/ LoseFir(msg)
      PROVE  \A n \in Nodes : Kept(n)
  <2>1. CASE LoseFir(msg)
    BY <2>1 DEF LoseFir, Kept
  <2> QED BY <1>1, <2>1, FirHandled, UpdateFirKeeps
<1>2. ASSUME NEW msg \in secNet \cup held,
             \/ HandleGossipSecSend(msg) \/ HandleGossipSecRev(msg)
             \/ LoseSec(msg) \/ ResumeGossipSecSend(msg)
      PROVE  \A n \in Nodes : Kept(n)
  <2>1. CASE LoseSec(msg)
    BY <2>1 DEF LoseSec, Kept
  <2> QED BY <1>2, <2>1, SecHandled, UpdateSecKeeps
<1>3. ASSUME NEW k \in Nodes, AppendTxBlock(k) PROVE \A n \in Nodes : Kept(n)
  BY <1>3 DEF AppendTxBlock, Kept
<1>4. ASSUME NEW k \in Nodes, Crash(k) PROVE \A n \in Nodes : Kept(n)
  BY <1>4 DEF Crash, Kept, PastPhaseOne, Typed, TypeOK
<1>5. CASE UNCHANGED vars
  BY <1>5 DEF vars, Kept
<1> QED BY <1>1, <1>2, <1>3, <1>4, <1>5, ProcessKeeps, Zenon DEF Next, Finished

(* The first RepMsg and RepSecMsg stored of each member are kept, whatever  *)
(* is gossiped later (UpdateGossipFir and UpdateGossipSec, cache_rep.go).   *)
THEOREM FirstMessagesKept == Spec => FirstMessageKept
<1>1. Typed /\ FirRequests /\ [Next]_vars =>
        [\A n, m \in Nodes : pc[n] # "reset" =>
           /\ fir[n][m] # None => fir'[n][m] = fir[n][m]
           /\ sec[n][m] # None => sec'[n][m] = sec[n][m]]_<<fir, sec>>
  BY NextKeeps DEF Kept
<1>2. Init => FirRequests
  BY DEF Init, FirRequests
<1> QED BY <1>1, <1>2, InitTyped, NextTyped, NextFirRequests, PTL
        DEF Spec, FirstMessageKept

-----------------------------------------------------------------------------

(* Every RepMsg stored, sent or put in a block was signed by its member,    *)
(* and a member is flagged only when it signed two.                         *)
Authentic ==
  /\ \A n, m \in Nodes : fir[n][m] # None => fir[n][m] \in made[m]
  /\ \A msg \in firNet : \A m \in DOMAIN msg.data : msg.data[m] \in made[m]
  /\ AccusationBacked

Full(table) == Known(table) = Nodes

(* content is the RepSecMsg of m: its whole table, in its second phase. *)
Signed(m, content) ==
  pc[m] \in PastPhaseOne /\ Full(fir[m]) /\ content = fir[m]

(* Every RepSecMsg stored or sent is signed; who has left a phase has all   *)
(* of it; a block is made from the whole table and never without phase 2.   *)
Barrier ==
  /\ \A n, m \in Nodes : sec[n][m] # None => Signed(m, sec[n][m])
  /\ \A msg \in secNet \cup held :
       \A m \in DOMAIN msg.data : Signed(m, msg.data[m])
  /\ \A n \in Nodes :
       /\ pc[n] \in {"sec", "block", "done"} => Full(fir[n])
       /\ pc[n] \in {"block", "done"} => Full(sec[n])
       /\ block[n] # None => /\ pc[n] \in {"done", "down"}
                             /\ block[n] = fir[n]
                             /\ Full(fir[n]) /\ Full(sec[n])

-----------------------------------------------------------------------------

(* A process that signs makes its table and the message it sends authentic. *)
LEMMA OwnFirAuthentic ==
  ASSUME Typed, Authentic, NEW n \in Nodes, NEW v \in Views, SignFir(n, v)
  PROVE  \A m \in Nodes : WithOwnFir(n, v)[m] # None =>
           WithOwnFir(n, v)[m] \in made'[m]
BY DEF Authentic, SignFir, WithOwnFir, Typed, TypeOK, Vectors

(* A RepMsg that differs from the stored one shows its member signed two.   *)
LEMMA UpdateFirAuthentic ==
  ASSUME Typed, FirRequests, Authentic, NEW msg \in firNet, NEW k, NEW race,
         HandlesFir(msg, k, race)
  PROVE  /\ \A n, m \in Nodes : fir'[n][m] # None => fir'[n][m] \in made'[m]
         /\ AccusationBacked'
         /\ \A n \in Nodes : made[n] \subseteq made'[n]
         /\ \A m \in DOMAIN FirReply(msg, race) : FirReply(msg, race)[m] \in made'[m]
<1> DEFINE n == msg.to  table == WithOwnFir(n, Credited(n))
           accused == Conflicts(Met(table, race), msg.data)
<1>1. /\ n \in Nodes /\ DOMAIN msg.data \subseteq Nodes
      /\ msg.data \in [DOMAIN msg.data -> Views]
  BY DEF Typed, TypeOK, IsMessage
<1>2. Credited(n) \in Views /\ SignFir(n, Credited(n))
  BY <1>1, CreditedType DEF Typed, HandlesFir, UpdateGossipFir
<1>3. \A m \in Nodes : table[m] # None => table[m] \in made'[m]
  BY <1>1, <1>2, OwnFirAuthentic
<1>4. \A m \in Nodes : made[m] \subseteq made'[m]
  BY <1>1, UpdateFirKeeps DEF Kept
<1>5. \A m \in DOMAIN msg.data : msg.data[m] \in made'[m]
  BY <1>1, <1>4 DEF Authentic
<1>6. table \in Table(Views)
  BY <1>1, <1>2, OwnFirType DEF Typed
<1>7. /\ fir'[n] = Updated(table, msg.data, race)
      /\ \A i \in Nodes \ {n} : fir'[i] = fir[i]
  BY <1>1 DEF HandlesFir, UpdateGossipFir, Typed, TypeOK
<1>8. PICK lost : byz' = [byz EXCEPT ![n] = (@ \ DOMAIN race) \cup (accused \ lost)]
  BY DEF HandlesFir, UpdateGossipFir
<1>9. FirReply(msg, race) = Missing(Copied(table, race), msg.data)
  BY DEF FirReply
<1> HIDE DEF table, n
<1>10. \A i, m \in Nodes : fir'[i][m] # None => fir'[i][m] \in made'[m]
  <2>1. \A m \in Nodes : fir'[n][m] # None => fir'[n][m] \in made'[m]
    BY <1>1, <1>3, <1>5, <1>6, <1>7, UpdatedEntry
  <2> QED BY <1>4, <1>7, <2>1 DEF Authentic
<1>11. accused \subseteq Equivocators'
  <2>1. \A m \in Nodes : Met(table, race)[m] \in {table[m], None}
    BY <1>6, WipedEntry DEF Met
  <2> QED BY <1>1, <1>3, <1>5, <2>1 DEF Conflicts, Known, Equivocators
<1>12. AccusationBacked'
  <2>1. Equivocators \subseteq Equivocators'
    BY <1>4 DEF Equivocators
  <2>2. byz \in [Nodes -> SUBSET Nodes] /\ \A i \in Nodes : byz[i] \subseteq Equivocators
    BY DEF Authentic, AccusationBacked, Typed, TypeOK
  <2> HIDE DEF accused
  <2> QED BY <1>8, <1>11, <2>1, <2>2 DEF AccusationBacked
<1>13. \A m \in DOMAIN FirReply(msg, race) : FirReply(msg, race)[m] \in made'[m]
  <2>1. \A m \in Nodes : Copied(table, race)[m] \in {table[m], None}
    BY <1>6, WipedEntry DEF Copied
  <2> QED BY <1>3, <1>9, <2>1 DEF Missing, Known
<1> QED BY <1>4, <1>10, <1>12, <1>13

LEMMA ProcessAuthentic ==
  ASSUME Typed, Authentic, NEW n \in Nodes, Process(n)
  PROVE  Authentic'
<1>1. \A m \in Nodes : made[m] \subseteq made'[m]
  BY ProcessKeeps DEF Kept
<1>2. Equivocators \subseteq Equivocators'
  BY <1>1 DEF Equivocators
<1>3. CASE ResetEntry(n)
  <2>1. \A k, m \in Nodes : fir'[k][m] \in {fir[k][m], None}
    BY <1>3 DEF ResetEntry, Typed, TypeOK, Vectors
  <2>2. \A k \in Nodes : byz'[k] \subseteq byz[k]
    BY <1>3 DEF ResetEntry, Typed, TypeOK
  <2>3. UNCHANGED <<firNet, made>>
    BY <1>3 DEF ResetEntry
  <2> QED BY <1>2, <2>1, <2>2, <2>3 DEF Authentic, AccusationBacked
<1>4. SignFir(n, view[n]) => \A m \in Nodes :
        WithOwnFir(n, view[n])[m] # None => WithOwnFir(n, view[n])[m] \in made'[m]
  BY OwnFirAuthentic DEF Typed, TypeOK
<1>5. ASSUME /\ SignFir(n, view[n])
             /\ fir' = [fir EXCEPT ![n] = WithOwnFir(n, view[n])]
             /\ UNCHANGED byz
             /\ \A msg \in firNet' : \/ msg \in firNet
                                     \/ msg.data = Snapshot(WithOwnFir(n, view[n]))
      PROVE  Authentic'
  <2>1. /\ fir'[n] = WithOwnFir(n, view[n])
        /\ \A k \in Nodes : k # n => fir'[k] = fir[k]
    BY <1>5 DEF Typed, TypeOK
  <2>2. \A k, m \in Nodes : fir'[k][m] # None => fir'[k][m] \in made'[m]
    BY <1>1, <1>4, <1>5, <2>1 DEF Authentic
  <2>3. \A m \in DOMAIN Snapshot(WithOwnFir(n, view[n])) :
          Snapshot(WithOwnFir(n, view[n]))[m] \in made'[m]
    BY <1>4, <1>5 DEF Snapshot, Known
  <2>4. ASSUME NEW msg \in firNet', NEW m \in DOMAIN msg.data
        PROVE  msg.data[m] \in made'[m]
    <3>1. CASE msg \in firNet
      <4>1. m \in Nodes
        BY <3>1 DEF Typed, TypeOK, IsMessage
      <4> QED BY <1>1, <3>1, <4>1 DEF Authentic
    <3>2. CASE msg.data = Snapshot(WithOwnFir(n, view[n]))
      BY <2>3, <3>2
    <3> QED BY <1>5, <3>1, <3>2
  <2>5. AccusationBacked'
    BY <1>2, <1>5 DEF Authentic, AccusationBacked
  <2> QED BY <2>2, <2>4, <2>5 DEF Authentic
<1>6. ASSUME NEW dest \in Nodes, SendFir(n, dest) PROVE Authentic'
  BY <1>5, <1>6 DEF SendFir, Msg
<1>7. CASE EndFir(n)
  BY <1>5, <1>7 DEF EndFir
<1>8. ASSUME UNCHANGED <<fir, firNet, byz, made>> PROVE Authentic'
  BY <1>8 DEF Authentic, AccusationBacked, Equivocators
<1> QED BY <1>3, <1>6, <1>7, <1>8
        DEF Process, SendSec, EndSec, GetRepBlock

LEMMA HandleFirAuthentic ==
  ASSUME Typed, FirRequests, Authentic, NEW msg \in firNet,
         HandleGossipFirSend(msg) \/ HandleGossipFirRev(msg)
  PROVE  Authentic'
<1>1. PICK k, race : HandlesFir(msg, k, race)
  BY FirHandled
<1>2. /\ \A i, m \in Nodes : fir'[i][m] # None => fir'[i][m] \in made'[m]
      /\ AccusationBacked'
      /\ \A i \in Nodes : made[i] \subseteq made'[i]
      /\ \A m \in DOMAIN FirReply(msg, race) : FirReply(msg, race)[m] \in made'[m]
  BY <1>1, UpdateFirAuthentic
<1>3. \A x \in firNet' : x \in firNet \/ x.data = FirReply(msg, race)
  BY <1>1 DEF HandlesFir, Msg
<1>4. ASSUME NEW x \in firNet', NEW m \in DOMAIN x.data
      PROVE  x.data[m] \in made'[m]
  <2>1. CASE x \in firNet
    <3>1. m \in Nodes
      BY <2>1 DEF Typed, TypeOK, IsMessage
    <3> QED BY <1>2, <2>1, <3>1 DEF Authentic
  <2>2. CASE x.data = FirReply(msg, race)
    BY <1>2, <2>2
  <2> QED BY <1>3, <2>1, <2>2
<1> QED BY <1>2, <1>4 DEF Authentic

(* A handler of the second gossip meets the reset too: entries may go.      *)
LEMMA HandleSecAuthentic ==
  ASSUME Typed, Authentic, NEW msg \in secNet \cup held,
         \/ HandleGossipSecSend(msg) \/ HandleGossipSecRev(msg)
         \/ ResumeGossipSecSend(msg)
  PROVE  Authentic'
<1>1. PICK k, race : HandlesSec(msg, k, race)
  BY SecHandled
<1>2. msg.to \in Nodes /\ fir[msg.to] \in Table(Views)
  BY DEF Typed, TypeOK, IsMessage, Table, Vectors
<1>3. \A i, m \in Nodes : fir'[i][m] \in {fir[i][m], None}
  BY <1>1, <1>2, WipedEntry DEF HandlesSec, UpdateGossipSec, Typed, TypeOK
<1>4. \A i \in Nodes : byz'[i] \subseteq byz[i]
  BY <1>1, <1>2 DEF HandlesSec, UpdateGossipSec, Typed, TypeOK
<1>5. UNCHANGED <<firNet, made>>
  BY <1>1 DEF HandlesSec, UpdateGossipSec
<1> QED BY <1>3, <1>4, <1>5 DEF Authentic, AccusationBacked, Equivocators

LEMMA NextAuthentic == Typed /\ FirRequests /\ Authentic /\ [Next]_vars => Authentic'
<1> SUFFICES ASSUME Typed, FirRequests, Authentic, [Next]_vars PROVE Authentic'
  OBVIOUS
<1>1. ASSUME NEW msg \in firNet, LoseFir(msg) PROVE Authentic'
  BY <1>1 DEF LoseFir, Authentic, AccusationBacked, Equivocators
<1>2. ASSUME UNCHANGED <<fir, firNet, byz, made>> PROVE Authentic'
  BY <1>2 DEF Authentic, AccusationBacked, Equivocators
<1>3. \A n \in Nodes : AppendTxBlock(n) \/ Crash(n) => Authentic'
  BY <1>2 DEF AppendTxBlock, Crash
<1>4. \A msg : LoseSec(msg) => Authentic'
  BY <1>2 DEF LoseSec
<1>5. UNCHANGED vars => Authentic'
  BY <1>2 DEF vars
<1> QED BY <1>1, <1>3, <1>4, <1>5, ProcessAuthentic, HandleFirAuthentic,
           HandleSecAuthentic, Zenon
        DEF Next, Finished

(* RepByz is set only for members that signed two RepMsgs (UpdateGossipFir, *)
(* cache_rep.go:124), whatever is lost, repeated or reordered.              *)
THEOREM OnlyEquivocatorsAccused == Spec => []AccusationBacked
<1>1. Init => FirRequests /\ Authentic
  BY DEF Init, FirRequests, Authentic, AccusationBacked
<1>2. Authentic => AccusationBacked
  BY DEF Authentic
<1> QED BY <1>1, <1>2, InitTyped, NextTyped, NextFirRequests, NextAuthentic, PTL
        DEF Spec

-----------------------------------------------------------------------------

(* Where a step may take the process of member n, and its block.            *)
PhaseStep(n) ==
  \/ pc'[n] = pc[n] /\ block'[n] = block[n]
  \/ pc[n] = "reset" /\ pc'[n] \in {"fir", "panic"} /\ block'[n] = block[n]
  \/ pc[n] = "fir" /\ pc'[n] = "sec" /\ block'[n] = block[n] /\ Full(fir'[n])
  \/ pc[n] = "sec" /\ pc'[n] = "block" /\ block'[n] = block[n] /\ Full(sec'[n])
  \/ pc[n] = "block" /\ pc'[n] = "done" /\ block'[n] = fir[n]
  \/ pc'[n] = "down" /\ block'[n] = block[n]

LEMMA NextPhaseStep ==
  ASSUME Typed, FirRequests, [Next]_vars
  PROVE  \A n \in Nodes : PhaseStep(n)
<1>1. ASSUME UNCHANGED <<pc, block>> PROVE \A n \in Nodes : PhaseStep(n)
  BY <1>1 DEF PhaseStep
<1>2. ASSUME NEW k \in Nodes, ResetEntry(k) PROVE \A n \in Nodes : PhaseStep(n)
  BY <1>2 DEF ResetEntry, PhaseStep, Typed, TypeOK
<1>3. ASSUME NEW k \in Nodes, EndFir(k) PROVE \A n \in Nodes : PhaseStep(n)
  <2>1. /\ pc[k] = "fir" /\ pc'[k] = "sec" /\ UNCHANGED block
        /\ \A n \in Nodes : n # k => pc'[n] = pc[n]
        /\ fir'[k] = WithOwnFir(k, view[k]) /\ Full(WithOwnFir(k, view[k]))
    BY <1>3 DEF EndFir, Full, Typed, TypeOK
  <2> QED BY <2>1 DEF PhaseStep
<1>4. ASSUME NEW k \in Nodes, EndSec(k) PROVE \A n \in Nodes : PhaseStep(n)
  <2>1. /\ pc[k] = "sec" /\ pc'[k] = "block" /\ UNCHANGED block
        /\ \A n \in Nodes : n # k => pc'[n] = pc[n]
        /\ sec'[k] = WithOwnSec(k) /\ Full(WithOwnSec(k))
    BY <1>4 DEF EndSec, Full, Typed, TypeOK
  <2> QED BY <2>1 DEF PhaseStep
<1>5. ASSUME NEW k \in Nodes, GetRepBlock(k) PROVE \A n \in Nodes : PhaseStep(n)
  BY <1>5 DEF GetRepBlock, PhaseStep, Typed, TypeOK
<1>6. ASSUME NEW k \in Nodes, Crash(k) PROVE \A n \in Nodes : PhaseStep(n)
  BY <1>6 DEF Crash, PhaseStep, Typed, TypeOK
<1>7. ASSUME NEW k \in Nodes, NEW dest \in Nodes,
             SendFir(k, dest) \/ SendSec(k, dest) \/ AppendTxBlock(k)
      PROVE  UNCHANGED <<pc, block>>
  BY <1>7 DEF SendFir, SendSec, AppendTxBlock
<1>8. ASSUME NEW msg, LoseFir(msg) \/ LoseSec(msg)
      PROVE  UNCHANGED <<pc, block>>
  BY <1>8 DEF LoseFir, LoseSec
<1>10. ASSUME NEW k \in Nodes, NEW i, UNCHANGED block,
              Passes(k, i) \/ (Stops(k, i) /\ pc[k] = "reset")
       PROVE  \A n \in Nodes : PhaseStep(n)
  BY <1>10 DEF Passes, Stops, PhaseStep, Typed, TypeOK
<1>11. ASSUME NEW msg \in firNet, HandleGossipFirSend(msg) \/ HandleGossipFirRev(msg)
       PROVE  \A n \in Nodes : PhaseStep(n)
  <2>1. PICK k, race : HandlesFir(msg, k, race)
    BY <1>11, FirHandled
  <2>2. msg.to \in Nodes /\ UNCHANGED block
    BY <2>1 DEF HandlesFir, UpdateGossipFir, Typed, TypeOK, IsMessage
  <2> QED BY <1>10, <2>1, <2>2, OwnEntryTaken
<1>12. ASSUME NEW msg \in secNet \cup held,
              \/ HandleGossipSecSend(msg) \/ HandleGossipSecRev(msg)
              \/ ResumeGossipSecSend(msg)
       PROVE  \A n \in Nodes : PhaseStep(n)
  <2>1. PICK k, race : HandlesSec(msg, k, race)
    BY <1>12, SecHandled
  <2>2. msg.to \in Nodes /\ UNCHANGED block /\ Passes(msg.to, k)
    BY <2>1 DEF HandlesSec, UpdateGossipSec, Typed, TypeOK, IsMessage
  <2> QED BY <1>10, <2>2
<1>9. UNCHANGED vars => UNCHANGED <<pc, block>>
  BY DEF vars
<1> QED BY <1>1, <1>2, <1>3, <1>4, <1>5, <1>6, <1>7, <1>8, <1>9, <1>11, <1>12,
           Zenon DEF Next, Process, Finished

(* A full table is the final one; so a RepSecMsg stays what it signs. *)
LEMMA FullKept ==
  ASSUME Typed, Typed', FirRequests, [Next]_vars, NEW n \in Nodes, pc[n] # "reset"
  PROVE  /\ Full(fir[n]) => fir'[n] = fir[n]
         /\ Full(sec[n]) => sec'[n] = sec[n]
<1>1. Kept(n)
  BY NextKeeps
<1>2. /\ fir[n] \in Vectors /\ fir'[n] \in Vectors
      /\ sec[n] \in Table(Vectors) /\ sec'[n] \in Table(Vectors)
  BY DEF Typed, TypeOK, Table
<1> QED BY <1>1, <1>2 DEF Kept, Full, Known, Vectors, Table

LEMMA SignedKept ==
  ASSUME Typed, Typed', FirRequests, [Next]_vars, NEW n \in Nodes,
         NEW content, Signed(n, content)
  PROVE  Signed(n, content)'
<1>1. Kept(n)
  BY NextKeeps
<1>2. pc[n] # "reset" /\ fir'[n] = fir[n]
  BY FullKept DEF Signed, PastPhaseOne
<1> QED BY <1>1, <1>2 DEF Signed, Kept

(* The second phase signs the whole table. *)
LEMMA OwnSecSigned ==
  ASSUME Typed, Barrier, NEW n \in Nodes, pc[n] = "sec"
  PROVE  \A m \in Nodes : WithOwnSec(n)[m] # None => Signed(m, WithOwnSec(n)[m])
<1>1. Signed(n, fir[n])
  BY DEF Barrier, Signed, PastPhaseOne
<1> QED BY <1>1 DEF Barrier, WithOwnSec, Typed, TypeOK

(* The entries a step writes to the tables and messages of phase 2.         *)
LEMMA SecStep ==
  ASSUME Typed, Barrier, [Next]_vars
  PROVE  /\ \A n, m \in Nodes : sec'[n][m] # None => Signed(m, sec'[n][m])
         /\ \A msg \in secNet' \cup held' :
              \A m \in DOMAIN msg.data : Signed(m, msg.data[m])
<1> DEFINE Goal == /\ \A n, m \in Nodes : sec'[n][m] # None => Signed(m, sec'[n][m])
                   /\ \A msg \in secNet' \cup held' :
                        \A m \in DOMAIN msg.data : Signed(m, msg.data[m])
<1>1. ASSUME UNCHANGED sec, secNet' \cup held' \subseteq secNet \cup held
      PROVE  Goal
  BY <1>1 DEF Barrier
<1>2. ASSUME NEW n \in Nodes, ResetEntry(n) PROVE Goal
  <2>1. \A k, m \in Nodes : sec'[k][m] \in {sec[k][m], None}
    BY <1>2 DEF ResetEntry, Typed, TypeOK
  <2>2. UNCHANGED <<secNet, held>>
    BY <1>2 DEF ResetEntry
  <2> QED BY <2>1, <2>2 DEF Barrier
<1>3. ASSUME NEW n \in Nodes, pc[n] = "sec", sec' = [sec EXCEPT ![n] = WithOwnSec(n)],
             \A x \in secNet' \cup held' :
               x \in secNet \cup held \/ x.data = Snapshot(WithOwnSec(n))
      PROVE  Goal
  <2>1. \A m \in Nodes : WithOwnSec(n)[m] # None => Signed(m, WithOwnSec(n)[m])
    BY <1>3, OwnSecSigned
  <2>2. sec'[n] = WithOwnSec(n) /\ \A k \in Nodes : k # n => sec'[k] = sec[k]
    BY <1>3 DEF Typed, TypeOK
  <2>3. \A k, m \in Nodes : sec'[k][m] # None => Signed(m, sec'[k][m])
    BY <2>1, <2>2 DEF Barrier
  <2>4. \A m \in DOMAIN Snapshot(WithOwnSec(n)) :
          Signed(m, Snapshot(WithOwnSec(n))[m])
    BY <2>1 DEF Snapshot, Known
  <2> QED BY <1>3, <2>3, <2>4 DEF Barrier
<1>4. ASSUME NEW msg \in secNet \cup held, NEW k, NEW race, HandlesSec(msg, k, race)
      PROVE  Goal
  <2> DEFINE n == msg.to  reply == Missing(Copied(sec[n], race), msg.data)
  <2>1. /\ n \in Nodes /\ DOMAIN msg.data \subseteq Nodes
        /\ msg.data \in [DOMAIN msg.data -> Vectors]
        /\ sec[n] \in Table(Vectors)
    BY DEF Typed, TypeOK, IsMessage, Table
  <2>2. \A m \in DOMAIN msg.data : Signed(m, msg.data[m])
    BY DEF Barrier
  <2>3. \A m \in Nodes : sec[n][m] # None => Signed(m, sec[n][m])
    BY <2>1 DEF Barrier
  <2>4. /\ sec'[n] = Updated(sec[n], msg.data, race)
        /\ \A i \in Nodes \ {n} : sec'[i] = sec[i]
    BY <1>4, <2>1 DEF HandlesSec, UpdateGossipSec, Typed, TypeOK
  <2>5. \A x \in SecReply(msg, race) : x.data = reply
    BY DEF SecReply, Msg
  <2>6. secNet' \cup held' \subseteq secNet \cup held \cup SecReply(msg, race)
    BY <1>4 DEF HandlesSec
  <2> HIDE DEF n
  <2>7. ASSUME NEW m \in Nodes, sec'[n][m] # None PROVE Signed(m, sec'[n][m])
    <3>1. sec'[n][m] = sec[n][m] \/ (m \in DOMAIN msg.data /\ sec'[n][m] = msg.data[m])
      BY <2>1, <2>4, <2>7, UpdatedEntry
    <3> QED BY <2>2, <2>3, <2>7, <3>1
  <2>8. ASSUME NEW i \in Nodes, NEW m \in Nodes, sec'[i][m] # None
        PROVE  Signed(m, sec'[i][m])
    BY <2>4, <2>7, <2>8 DEF Barrier
  <2>9. ASSUME NEW m \in DOMAIN reply PROVE Signed(m, reply[m])
    <3>1. \A i \in Nodes : Copied(sec[n], race)[i] \in {sec[n][i], None}
      BY <2>1, WipedEntry DEF Copied
    <3>2. m \in Nodes /\ reply[m] = sec[n][m] /\ sec[n][m] # None
      BY <3>1 DEF Missing, Known
    <3> QED BY <2>3, <3>2
  <2>10. ASSUME NEW x \in secNet' \cup held', NEW m \in DOMAIN x.data
         PROVE  Signed(m, x.data[m])
    <3>1. CASE x \in secNet \cup held
      BY <3>1 DEF Barrier
    <3>2. CASE x.data = reply
      BY <2>9, <3>2
    <3> QED BY <2>5, <2>6, <3>1, <3>2
  <2> QED BY <2>8, <2>10
<1>5. ASSUME NEW n \in Nodes, NEW dest \in Nodes, SendSec(n, dest) PROVE Goal
  <2>1. \A x \in secNet' \cup held' :
          x \in secNet \cup held \/ x.data = Snapshot(WithOwnSec(n))
    BY <1>5 DEF SendSec, Msg
  <2>2. pc[n] = "sec" /\ sec' = [sec EXCEPT ![n] = WithOwnSec(n)]
    BY <1>5 DEF SendSec
  <2> QED BY <1>3, <2>1, <2>2
<1>6. ASSUME NEW n \in Nodes, EndSec(n) PROVE Goal
  BY <1>3, <1>6 DEF EndSec
<1>7. ASSUME NEW msg \in secNet \cup held,
             \/ HandleGossipSecSend(msg) \/ HandleGossipSecRev(msg)
             \/ ResumeGossipSecSend(msg)
      PROVE  Goal
  BY <1>4, <1>7, SecHandled
<1>8. ASSUME NEW n \in Nodes, NEW dest \in Nodes,
             \/ SendFir(n, dest) \/ EndFir(n) \/ GetRepBlock(n)
             \/ AppendTxBlock(n) \/ Crash(n)
      PROVE  UNCHANGED sec /\ secNet' \cup held' \subseteq secNet \cup held
  BY <1>8 DEF SendFir, EndFir, GetRepBlock, AppendTxBlock, Crash
<1>9. ASSUME NEW msg, LoseFir(msg) \/ LoseSec(msg)
      PROVE  UNCHANGED sec /\ secNet' \cup held' \subseteq secNet \cup held
  BY <1>9 DEF LoseFir, LoseSec
<1>12. ASSUME NEW msg \in firNet, HandleGossipFirSend(msg) \/ HandleGossipFirRev(msg)
       PROVE  Goal
  <2>1. PICK k, race : HandlesFir(msg, k, race)
    BY <1>12, FirHandled
  <2>2. msg.to \in Nodes /\ sec[msg.to] \in Table(Vectors)
    BY DEF Typed, TypeOK, IsMessage, Table
  <2>3. \A i, m \in Nodes : sec'[i][m] \in {sec[i][m], None}
    BY <2>1, <2>2, WipedEntry DEF HandlesFir, UpdateGossipFir, Typed, TypeOK
  <2>4. UNCHANGED <<secNet, held>>
    BY <2>1 DEF HandlesFir, UpdateGossipFir
  <2> QED BY <2>3, <2>4 DEF Barrier
<1>10. UNCHANGED vars => UNCHANGED sec /\ secNet' \cup held' \subseteq secNet \cup held
  BY DEF vars
<1> HIDE DEF Goal
<1>11. Goal
  BY <1>1, <1>2, <1>5, <1>6, <1>7, <1>8, <1>9, <1>10, <1>12, Zenon
  DEF Next, Process, Finished
<1> QED BY <1>11 DEF Goal

LEMMA NextBarrier ==
  Typed /\ Typed' /\ FirRequests /\ Barrier /\ [Next]_vars => Barrier'
<1> SUFFICES ASSUME Typed, Typed', FirRequests, Barrier, [Next]_vars PROVE Barrier'
  OBVIOUS
<1>1. ASSUME NEW n \in Nodes, NEW m \in Nodes, sec'[n][m] # None
      PROVE  Signed(m, sec[n][m])'
  <2>1. PICK content : content = sec'[n][m]
    OBVIOUS
  <2>2. Signed(m, content)
    BY <1>1, <2>1, SecStep
  <2>3. Signed(m, content)'
    BY <2>2, SignedKept
  <2> QED BY <2>1, <2>3 DEF Signed
<1>2. ASSUME NEW msg \in secNet' \cup held', NEW m \in DOMAIN msg.data
      PROVE  Signed(m, msg.data[m])'
  <2>1. m \in Nodes
    BY DEF Typed, TypeOK, IsMessage
  <2>2. Signed(m, msg.data[m])
    BY SecStep
  <2> QED BY <2>1, <2>2, SignedKept
<1>3. ASSUME NEW n \in Nodes
      PROVE  /\ pc'[n] \in {"sec", "block", "done"} => Full(fir'[n])
             /\ pc'[n] \in {"block", "done"} => Full(sec'[n])
             /\ block'[n] # None => /\ pc'[n] \in {"done", "down"}
                                    /\ block'[n] = fir'[n]
                                    /\ Full(fir'[n]) /\ Full(sec'[n])
  <2>1. PhaseStep(n)
    BY NextPhaseStep
  <2>2. pc[n] # "reset" => /\ Full(fir[n]) => fir'[n] = fir[n]
                           /\ Full(sec[n]) => sec'[n] = sec[n]
    BY FullKept
  <2>3. /\ pc[n] \in {"sec", "block", "done"} => Full(fir[n])
        /\ pc[n] \in {"block", "done"} => Full(sec[n])
        /\ block[n] # None => /\ pc[n] \in {"done", "down"}
                              /\ block[n] = fir[n]
                              /\ Full(fir[n]) /\ Full(sec[n])
    BY DEF Barrier
  <2> QED BY <2>1, <2>2, <2>3 DEF PhaseStep
<1> QED BY <1>1, <1>2, <1>3 DEF Barrier

(* The inductive invariant. *)
IInv == Typed /\ FirRequests /\ Authentic /\ Barrier

LEMMA Inductive == Spec => []IInv
<1>1. Init => FirRequests /\ Authentic /\ Barrier
  BY DEF Init, FirRequests, Authentic, AccusationBacked, Barrier
<1> QED BY <1>1, InitTyped, NextTyped, NextFirRequests, NextAuthentic, NextBarrier,
           PTL DEF Spec, IInv

(* The blocks of two members agree on every member that signed one RepMsg   *)
(* (NewRepProcess makes the block once both gossips are complete).          *)
THEOREM BlocksAgreed == Spec => []BlocksAgree
<1>1. IInv => BlocksAgree
  <2> SUFFICES ASSUME IInv, NEW n \in Nodes, NEW m \in Nodes,
                      block[n] # None, block[m] # None,
                      NEW a \in Nodes \ Equivocators
               PROVE  block[n][a] = block[m][a]
    BY DEF BlocksAgree
  <2>1. /\ block[n] = fir[n] /\ fir[n][a] # None
        /\ block[m] = fir[m] /\ fir[m][a] # None
    BY DEF IInv, Barrier, Full, Known
  <2>2. fir[n][a] \in made[a] /\ fir[m][a] \in made[a]
    BY <2>1 DEF IInv, Authentic
  <2> QED BY <2>1, <2>2 DEF Equivocators
<1> QED BY <1>1, Inductive, PTL

(* A member with a block holds the RepSecMsg of every member. *)
LEMMA BlockHasAllSec ==
  ASSUME IInv, NEW n \in Nodes, NEW m \in Nodes, block[n] # None
  PROVE  Signed(m, sec[n][m])
BY DEF IInv, Barrier, Full, Known

(* No member makes its block while another is still in phase 1. *)
THEOREM BlocksAfterPhaseOne == Spec => []BlockAfterPhaseOne
<1>1. IInv => BlockAfterPhaseOne
  BY BlockHasAllSec DEF BlockAfterPhaseOne, Signed, PastPhaseOne
<1> QED BY <1>1, Inductive, PTL

(* Two members with different blocks hold the RepSecMsgs that prove it, and *)
(* different RepSecMsgs mean different blocks.                              *)
THEOREM DivergenceIsVisible == Spec => []DivergenceVisible
<1>1. IInv => DivergenceVisible
  <2> SUFFICES ASSUME IInv, NEW n \in Nodes, NEW m \in Nodes,
                      block[n] # None, block[m] # None
               PROVE  block[n] # block[m] <=> sec[n][m] # sec[n][n]
    BY DEF DivergenceVisible
  <2>1. sec[n][m] = fir[m] /\ sec[n][n] = fir[n]
    BY BlockHasAllSec DEF Signed
  <2>2. block[n] = fir[n] /\ block[m] = fir[m]
    BY DEF IInv, Barrier
  <2> QED BY <2>1, <2>2
<1> QED BY <1>1, Inductive, PTL
=============================================================================
