------------------------------ MODULE RepGossip ------------------------------
(***************************************************************************)
(* One round of the two-phase reputation gossip of a shard                 *)
(* (NewRepProcess and the four Gossip handlers of newRepProtocol.go, over  *)
(* the tables of DbRef in cache_rep.go).                                   *)
(*                                                                         *)
(* Phase 1 ("fir"): every member signs one RepMsg, what it has seen of the *)
(* shard, and pushes the RepMsgs it knows to a member it misses, which     *)
(* answers with the ones the sender lacks.  Phase 2 ("sec"): every member  *)
(* signs a RepSecMsg over the RepMsgs it collected and gossips those the   *)
(* same way.  A member that has all of both makes its reputation block.    *)
(*                                                                         *)
(* The handlers run from the moment the server listens, so a member may be *)
(* gossiped to before its own NewRepProcess has started and reset the      *)
(* round's tables - which it does without the lock, entry by entry, while  *)
(* a handler that has the lock reads and fills them.                       *)
(*                                                                         *)
(* Abstraction: the content of a RepMsg (the TBCache hashes and the vote   *)
(* sums) is the version view[n] of the local state it is made from; a      *)
(* RepSecMsg is the vector of RepMsgs it signs; signatures are left out,   *)
(* the code does not check them here.                                      *)
(***************************************************************************)
EXTENDS Integers, FiniteSets

CONSTANTS N,            \* gVar.ShardSize: members are 0 .. N-1
          None,         \* the entry of a table whose Sig flag is false
          VoteWeight,   \* 1 when RepVote[RepRound] is in the round's window
          Faulty,       \* members that may crash during the round
          Volatile,     \* bound: members whose chain may grow during the round
          MaxView,      \* bound: versions of a member's local state
          MaxInFlight   \* bound: undelivered messages before a new send

Nodes == 0 .. (N - 1)
Views == 0 .. MaxView
Vectors == [Nodes -> Views \cup {None}]

ASSUME RepGossipAssumption ==
  /\ N \in Nat \ {0}
  /\ MaxView \in Nat /\ MaxInFlight \in Nat \ {0}
  /\ VoteWeight \in {0, 1}
  /\ Faulty \subseteq Nodes /\ Volatile \subseteq Nodes
  /\ None \notin Views /\ None \notin Vectors

VARIABLES
  pc,       \* pc[n]: where NewRepProcess(round) of n is; "panic" when a
            \* handler of n has ended its program
  cleared,  \* cleared[n]: entries its reset loop has passed
  view,     \* view[n]: version of TBCache and RepVote, what a RepMsg is made of
  fir,      \* fir[n][m]: RepFirMsg[round][m], None while RepFirSig is false
  sec,      \* sec[n][m]: RepSecMsg[round][m], None while RepSecSig is false
  byz,      \* byz[n]: the members n has flagged in RepByz[round]
  block,    \* block[n]: the RepMsgs n's RepBlock is made from, None before
  firNet,   \* GossipFirSend and GossipFirRev messages in flight
  secNet,   \* GossipSecSend and GossipSecRev messages in flight
  held,     \* GossipSecSend messages whose handler waits for the own RepSecMsg
  made      \* history: made[n] is every content n has signed for this round

vars == <<pc, cleared, view, fir, sec, byz, block, firNet, secNet, held, made>>

Phases == {"reset", "fir", "sec", "block", "done", "down", "panic"}
Kinds == {"Send", "Rev"}

Known(table) == {m \in Nodes : table[m] # None}

(* Mistake: the receiver overwrites what it has. *)
MergeOverwrites(table, data) ==
  [m \in Nodes |-> IF m \in DOMAIN data THEN data[m] ELSE table[m]]

(* Mistake: the receiver compares and never stores. *)
MergeForgets(table, data) == table

(* Add the entries of data that the table lacks; keep those it has. *)
Merge(table, data) ==
  [m \in Nodes |-> IF table[m] = None /\ m \in DOMAIN data
                     THEN data[m] ELSE table[m]]

(* What the sender of data lacks. *)
Missing(table, data) == [m \in Known(table) \ DOMAIN data |-> table[m]]

(* Mistake: RepFirSig is not looked at before the comparison. *)
ConflictsUnchecked(table, data) == {m \in DOMAIN data : table[m] # data[m]}

(* Entries received with another content than the stored one. *)
Conflicts(table, data) ==
  {m \in Known(table) \cap DOMAIN data : table[m] # data[m]}

(* The table's content as a gossip message. *)
Snapshot(table) == [m \in Known(table) |-> table[m]]

Msg(kind, from, to, data) ==
  [kind |-> kind, from |-> from, to |-> to, data |-> data]

Up(n) == pc[n] \notin {"down", "panic"}
Room == Cardinality(firNet) + Cardinality(secNet) < MaxInFlight

-----------------------------------------------------------------------------

Init ==
  /\ pc = [n \in Nodes |-> "reset"]
  /\ cleared = [n \in Nodes |-> 0]
  /\ view = [n \in Nodes |-> 0]
  /\ fir = [n \in Nodes |-> [m \in Nodes |-> None]]
  /\ sec = [n \in Nodes |-> [m \in Nodes |-> None]]
  /\ byz = [n \in Nodes |-> {}]
  /\ block = [n \in Nodes |-> None]
  /\ firNet = {} /\ secNet = {}
  /\ held = {}
  /\ made = [n \in Nodes |-> {}]

ResetEntry(n) ==
  /\ pc[n] = "reset"
  /\ LET i == cleared[n] IN
       /\ fir' = [fir EXCEPT ![n][i] = None]
       /\ sec' = [sec EXCEPT ![n][i] = None]
       /\ byz' = [byz EXCEPT ![n] = @ \ {i}]
       /\ cleared' = [cleared EXCEPT ![n] = i + 1]
       /\ pc' = [pc EXCEPT ![n] = IF i + 1 = N THEN "fir" ELSE "reset"]
  /\ UNCHANGED <<view, block, firNet, secNet, held, made>>

(* MakeRepMsg, for content v, if the own RepMsg is missing. *)
WithOwnFir(n, v) == IF fir[n][n] = None THEN [fir[n] EXCEPT ![n] = v] ELSE fir[n]

SignFir(n, v) ==
  made' = IF fir[n][n] = None THEN [made EXCEPT ![n] = @ \cup {v}] ELSE made

(* Mistake: GetGossipID(0, nil), any member may be chosen. *)
SendFirAnywhere(n, dest) ==
  /\ pc[n] = "fir" /\ Room
  /\ fir' = [fir EXCEPT ![n] = WithOwnFir(n, view[n])]
  /\ firNet' = firNet \cup
       {Msg("Send", n, dest, Snapshot(WithOwnFir(n, view[n])))}
  /\ SignFir(n, view[n])
  /\ UNCHANGED <<pc, cleared, view, sec, byz, block, secNet, held>>

(* GenerateGossipFir and what the loop does with it: send what is known to *)
(* one member that is missing ...                                          *)
SendFir(n, dest) ==
  /\ pc[n] = "fir" /\ Room
  /\ LET table == WithOwnFir(n, view[n]) IN
       /\ dest \notin Known(table)
       /\ fir' = [fir EXCEPT ![n] = table]
       /\ firNet' = firNet \cup {Msg("Send", n, dest, Snapshot(table))}
  /\ SignFir(n, view[n])
  /\ UNCHANGED <<pc, cleared, view, sec, byz, block, secNet, held>>

(* Mistake: the phase may end with members missing. *)
EndFirEarly(n) ==
  /\ pc[n] = "fir"
  /\ fir' = [fir EXCEPT ![n] = WithOwnFir(n, view[n])]
  /\ SignFir(n, view[n])
  /\ pc' = [pc EXCEPT ![n] = "sec"]
  /\ UNCHANGED <<cleared, view, sec, byz, block, firNet, secNet, held>>

(* ... or leave the phase when nobody is.                                  *)
EndFir(n) ==
  /\ pc[n] = "fir"
  /\ LET table == WithOwnFir(n, view[n]) IN
       /\ Known(table) = Nodes
       /\ fir' = [fir EXCEPT ![n] = table]
  /\ SignFir(n, view[n])
  /\ pc' = [pc EXCEPT ![n] = "sec"]
  /\ UNCHANGED <<cleared, view, sec, byz, block, firNet, secNet, held>>

(* Mistake: the RepSecMsg signs an empty GossipFirMsg. *)
WithOwnSecEmpty(n) ==
  IF sec[n][n] = None THEN [sec[n] EXCEPT ![n] = [m \in Nodes |-> None]]
  ELSE sec[n]

(* MakeRepSecMsg over the RepMsgs known, if the own RepSecMsg is missing. *)
WithOwnSec(n) ==
  IF sec[n][n] = None THEN [sec[n] EXCEPT ![n] = fir[n]] ELSE sec[n]

(* GenerateGossipSec and the second loop. *)
SendSec(n, dest) ==
  /\ pc[n] = "sec" /\ Room
  /\ dest \notin Known(WithOwnSec(n))
  /\ sec' = [sec EXCEPT ![n] = WithOwnSec(n)]
  /\ secNet' = secNet \cup {Msg("Send", n, dest, Snapshot(WithOwnSec(n)))}
  /\ UNCHANGED <<pc, cleared, view, fir, byz, block, firNet, held, made>>

(* Mistake: the second phase may end with members missing. *)
EndSecEarly(n) ==
  /\ pc[n] = "sec"
  /\ sec' = [sec EXCEPT ![n] = WithOwnSec(n)]
  /\ pc' = [pc EXCEPT ![n] = "block"]
  /\ UNCHANGED <<cleared, view, fir, byz, block, firNet, secNet, held, made>>

EndSec(n) ==
  /\ pc[n] = "sec"
  /\ Known(WithOwnSec(n)) = Nodes
  /\ sec' = [sec EXCEPT ![n] = WithOwnSec(n)]
  /\ pc' = [pc EXCEPT ![n] = "block"]
  /\ UNCHANGED <<cleared, view, fir, byz, block, firNet, secNet, held, made>>

(* GetRepBlock: RepBlockMake reads the RepMsgs (never the RepSecMsgs). *)
GetRepBlock(n) ==
  /\ pc[n] = "block"
  /\ block' = [block EXCEPT ![n] = fir[n]]
  /\ pc' = [pc EXCEPT ![n] = "done"]
  /\ UNCHANGED <<cleared, view, fir, sec, byz, firNet, secNet, held, made>>

-----------------------------------------------------------------------------

(* A handler has the lock, so of what it works on only the reset of the    *)
(* same member, which takes none, changes under it: for all others it is    *)
(* one step.  While the handler runs the reset passes the entries from c to *)
(* k - 1, each at some moment: before the handler copies the flag of the    *)
(* entry, before it stores or compares it, or before it ends.  All of them  *)
(* go up through the entries.                                               *)
Races(c, k) ==
  {race \in [c .. (k - 1) -> {"copy", "store", "end"}] :
     \A i, j \in c .. (k - 1) : i < j /\ race[i] = "end" => race[j] # "copy"}

Passes(n, k) ==
  /\ cleared' = [cleared EXCEPT ![n] = k]
  /\ pc' = [pc EXCEPT ![n] = IF @ = "reset" /\ k = N THEN "fir" ELSE @]

(* The table without the entries that the reset passes at a moment. *)
Wiped(table, race, moments) ==
  [m \in Nodes |-> IF m \in DOMAIN race /\ race[m] \in moments
                     THEN None ELSE table[m]]

Always == {"copy", "store", "end"}

(* What the copy is made from, what the data meets, and what it leaves. *)
Copied(table, race) == Wiped(table, race, {"copy"})
Met(table, race) == Wiped(table, race, {"copy", "store"})
Updated(table, data, race) == Wiped(Merge(Met(table, race), data), race, {"end"})

(* RepVote[RepRound][sender].Rep++, the first statement of both updates. *)
Credited(n) == IF view[n] < MaxView THEN view[n] + VoteWeight ELSE view[n]

(* UpdateGossipFir.  An accusation is lost when the reset is about to clear *)
(* RepByz, and stays when it has done so and is about to clear RepFirSig.   *)
UpdateGossipFir(n, data, race) ==
  LET table == WithOwnFir(n, Credited(n))
      accused == Conflicts(Met(table, race), data)
  IN
    /\ view' = [view EXCEPT ![n] = Credited(n)]
    /\ SignFir(n, Credited(n))
    /\ fir' = [fir EXCEPT ![n] = Updated(table, data, race)]
    /\ sec' = [sec EXCEPT ![n] = Wiped(@, race, Always)]
    /\ \E lost \in SUBSET (accused \cap DOMAIN race) :
         byz' = [byz EXCEPT ![n] = (@ \ DOMAIN race) \cup (accused \ lost)]
    /\ UNCHANGED <<block, secNet, held>>

(* Line 110 reads Data[0] of the reply. *)
HandleGossipFirSend(msg) ==
  LET n == msg.to IN
  /\ msg \in firNet /\ msg.kind = "Send" /\ Up(n)
  /\ \E k \in cleared[n] .. N : \E race \in Races(cleared[n], k) :
       LET reply == Missing(Copied(WithOwnFir(n, Credited(n)), race), msg.data) IN
         /\ UpdateGossipFir(n, msg.data, race)
         /\ \/ /\ DOMAIN reply # {}
               /\ Passes(n, k)
               /\ firNet' = (firNet \ {msg}) \cup {Msg("Rev", n, msg.from, reply)}
            \/ /\ DOMAIN reply = {}
               /\ cleared' = [cleared EXCEPT ![n] = k]
               /\ pc' = [pc EXCEPT ![n] = "panic"]
               /\ firNet' = firNet \ {msg}

HandleGossipFirRev(msg) ==
  /\ msg \in firNet /\ msg.kind = "Rev" /\ Up(msg.to)
  /\ \E k \in cleared[msg.to] .. N : \E race \in Races(cleared[msg.to], k) :
       UpdateGossipFir(msg.to, msg.data, race) /\ Passes(msg.to, k)
  /\ firNet' = firNet \ {msg}

(* UpdateGossipSec. *)
UpdateGossipSec(n, data, race) ==
  /\ view' = [view EXCEPT ![n] = Credited(n)]
  /\ sec' = [sec EXCEPT ![n] = Updated(@, data, race)]
  /\ fir' = [fir EXCEPT ![n] = Wiped(@, race, Always)]
  /\ byz' = [byz EXCEPT ![n] = @ \ DOMAIN race]
  /\ UNCHANGED <<block, firNet, made>>

(* The reply, sent unless it would be empty. *)
SecReply(msg, race) ==
  LET reply == Missing(Copied(sec[msg.to], race), msg.data) IN
    IF DOMAIN reply = {} THEN {} ELSE {Msg("Rev", msg.to, msg.from, reply)}

(* state = 1: the receiver has its own RepSecMsg and the sender lacks it. *)
Ready(msg, race) == msg.to \in Known(Copied(sec[msg.to], race)) \ DOMAIN msg.data

HandleGossipSecSend(msg) ==
  /\ msg \in secNet /\ msg.kind = "Send" /\ Up(msg.to)
  /\ \E k \in cleared[msg.to] .. N : \E race \in Races(cleared[msg.to], k) :
       /\ UpdateGossipSec(msg.to, msg.data, race) /\ Passes(msg.to, k)
       /\ IF Ready(msg, race)
            THEN secNet' = (secNet \ {msg}) \cup SecReply(msg, race) /\ UNCHANGED held
            ELSE secNet' = secNet \ {msg} /\ held' = held \cup {msg}

(* A handler that found "Not ready" updates again once its member is.  *)
ResumeGossipSecSend(msg) ==
  /\ msg \in held /\ Up(msg.to) /\ Room
  /\ sec[msg.to][msg.to] # None
  /\ \E k \in cleared[msg.to] .. N : \E race \in Races(cleared[msg.to], k) :
       /\ UpdateGossipSec(msg.to, msg.data, race) /\ Passes(msg.to, k)
       /\ secNet' = secNet \cup SecReply(msg, race)
  /\ held' = held \ {msg}

HandleGossipSecRev(msg) ==
  /\ msg \in secNet /\ msg.kind = "Rev" /\ Up(msg.to)
  /\ \E k \in cleared[msg.to] .. N : \E race \in Races(cleared[msg.to], k) :
       UpdateGossipSec(msg.to, msg.data, race) /\ Passes(msg.to, k)
  /\ secNet' = secNet \ {msg}
  /\ UNCHANGED held

-----------------------------------------------------------------------------

(* A transaction block is appended to TBCache: a RepMsg made later differs. *)
AppendTxBlock(n) ==
  /\ n \in Volatile /\ view[n] < MaxView /\ Up(n)
  /\ view' = [view EXCEPT ![n] = @ + 1]
  /\ UNCHANGED <<pc, cleared, fir, sec, byz, block, firNet, secNet, held, made>>

(* sendTxMessage dials once: a failed dial loses the message silently. *)
LoseFir(msg) ==
  /\ firNet' = firNet \ {msg}
  /\ UNCHANGED <<pc, cleared, view, fir, sec, byz, block, secNet, held, made>>

LoseSec(msg) ==
  /\ secNet' = secNet \ {msg}
  /\ UNCHANGED <<pc, cleared, view, fir, sec, byz, block, firNet, held, made>>

Crash(n) ==
  /\ n \in Faulty /\ Up(n)
  /\ pc' = [pc EXCEPT ![n] = "down"]
  /\ UNCHANGED <<cleared, view, fir, sec, byz, block, firNet, secNet, held, made>>

(* The round is over: nothing in flight, no handler waiting. *)
Finished ==
  /\ \A n \in Nodes : pc[n] \in {"done", "down", "panic"}
  /\ UNCHANGED vars

Process(n) ==
  \/ ResetEntry(n) \/ EndFir(n) \/ EndSec(n) \/ GetRepBlock(n)
  \/ \E dest \in Nodes : SendFir(n, dest) \/ SendSec(n, dest)

Next ==
  \/ \E n \in Nodes : Process(n) \/ AppendTxBlock(n) \/ Crash(n)
  \/ \E msg \in firNet : \/ HandleGossipFirSend(msg) \/ HandleGossipFirRev(msg)
                         \/ LoseFir(msg)
  \/ \E msg \in secNet : \/ HandleGossipSecSend(msg) \/ HandleGossipSecRev(msg)
                         \/ LoseSec(msg)
  \/ \E msg \in held : ResumeGossipSecSend(msg)
  \/ Finished

Spec == Init /\ [][Next]_vars

(* Scheduling: a live goroutine is not starved; GetGossipID rotates over    *)
(* the missing members, so each is tried again and again; a link that is    *)
(* used again and again delivers again and again; a spinning handler wakes; *)
(* a dial to a member that is down fails.                                   *)
Between(msgs, from, to) == {msg \in msgs : msg.from = from /\ msg.to = to}

LinkDelivers(from, to) ==
  /\ SF_vars(\E msg \in Between(firNet, from, to) : HandleGossipFirSend(msg))
  /\ SF_vars(\E msg \in Between(firNet, from, to) : HandleGossipFirRev(msg))
  /\ SF_vars(\E msg \in Between(secNet, from, to) : HandleGossipSecSend(msg))
  /\ SF_vars(\E msg \in Between(secNet, from, to) : HandleGossipSecRev(msg))

Fairness ==
  /\ \A n \in Nodes :
       /\ WF_vars(ResetEntry(n) \/ EndFir(n) \/ EndSec(n) \/ GetRepBlock(n))
       /\ SF_vars(\E msg \in held : msg.to = n /\ ResumeGossipSecSend(msg))
  /\ \A n, dest \in Nodes : n # dest =>
       /\ SF_vars(SendFir(n, dest) \/ SendSec(n, dest))
       /\ LinkDelivers(n, dest)
  /\ WF_vars(\/ \E msg \in firNet : ~Up(msg.to) /\ LoseFir(msg)
             \/ \E msg \in secNet : ~Up(msg.to) /\ LoseSec(msg))

FairSpec == Spec /\ Fairness

-----------------------------------------------------------------------------

(* Messages whose entries are RepMsgs (content) or RepSecMsgs (content).    *)
IsMessage(msg, content) ==
  /\ msg.kind \in Kinds /\ msg.from \in Nodes /\ msg.to \in Nodes
  /\ DOMAIN msg.data \subseteq Nodes
  /\ msg.data \in [DOMAIN msg.data -> content]

(* The tables, phases and messages are of their types. *)
TypeOK ==
  /\ pc \in [Nodes -> Phases]
  /\ cleared \in [Nodes -> 0 .. N]
  /\ view \in [Nodes -> Views]
  /\ fir \in [Nodes -> Vectors]
  /\ sec \in [Nodes -> [Nodes -> Vectors \cup {None}]]
  /\ byz \in [Nodes -> SUBSET Nodes]
  /\ block \in [Nodes -> Vectors \cup {None}]
  /\ made \in [Nodes -> SUBSET Views]
  /\ \A msg \in firNet : IsMessage(msg, Views)
  /\ \A msg \in secNet \cup held : IsMessage(msg, Vectors)

(* Members that have signed two different RepMsgs for the round. *)
Equivocators == {n \in Nodes : \E v, w \in made[n] : v # w}

(* No gossip message is empty: the handlers read Data[0] of what they       *)
(* receive without looking at Cnt (newRepProtocol.go:106, :128, :146).  The *)
(* reply to a first message is, and its handler ends the program            *)
(* (newRepProtocol.go:110), only when the reset of the member takes the own *)
(* RepMsg away between cache_rep.go:114 and :119: this is why it is missing *)
(* then although the handler has made it.                                   *)
EmptyReplyNeedsReset ==
  /\ \A msg \in firNet : DOMAIN msg.data # {}
  /\ \A msg \in secNet \cup held : DOMAIN msg.data # {}
  /\ \A n \in Nodes : pc[n] = "panic" => fir[n][n] = None /\ n < cleared[n]

(* RepByz is never set for a member that has signed one RepMsg only,        *)
(* whatever order, loss and repetition the gossip meets.                    *)
AccusationBacked == \A n \in Nodes : byz[n] \subseteq Equivocators

(* Two members that made their reputation block made it from the same       *)
(* RepMsg of every member that signed only one.                             *)
BlocksAgree ==
  \A n, m \in Nodes : block[n] # None /\ block[m] # None =>
    \A a \in Nodes \ Equivocators : block[n][a] = block[m][a]

(* A member makes its block only after every member has left phase 1: the   *)
(* second gossip is a barrier.                                              *)
BlockAfterPhaseOne ==
  \A n \in Nodes : block[n] # None =>
    \A m \in Nodes : pc[m] \in {"sec", "block", "done", "down"}

(* If two members made their blocks from different RepMsgs, each holds the  *)
(* RepSecMsg of the other that shows it.                                    *)
DivergenceVisible ==
  \A n, m \in Nodes : block[n] # None /\ block[m] # None =>
    (block[n] # block[m] <=> sec[n][m] # sec[n][n])

(* Once its process has started a member keeps the first RepMsg and the     *)
(* first RepSecMsg it stored of each member, for the rest of the round.     *)
FirstMessageKept ==
  [][\A n, m \in Nodes : pc[n] # "reset" =>
       /\ fir[n][m] # None => fir'[n][m] = fir[n][m]
       /\ sec[n][m] # None => sec'[n][m] = sec[n][m]]_<<fir, sec>>

(* Every member makes its reputation block, unless one of them crashes or   *)
(* is ended by a handler.                                                   *)
RoundCompletes ==
  <>(\/ \A n \in Nodes : pc[n] = "done"
     \/ \E n \in Nodes : ~Up(n))

(* The first gossip ends for every member that runs: the branch             *)
(* "First NewRep Gossip Time Out" (newRepProtocol.go:56).                   *)
PhaseOneEnds == \A n \in Nodes \ Faulty : <>(pc[n] \notin {"reset", "fir"})
=============================================================================
