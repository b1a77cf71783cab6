-------------------------- MODULE CronResultsProofs --------------------------
(***************************************************************************)
(* Proofs about the delivery of results, for any number of processes,      *)
(* messages, channels and faults and any sizes of batches.                 *)
(*                                                                         *)
(* A process may be told of a result again only if the tables offer it     *)
(* again.  Settled says that they do not, or that this is excused; it is   *)
(* what a process may rely on for what it has told already and, once it    *)
(* consumes, for what was there when it started.  Between telling and the  *)
(* ack of the batch, the batch itself stands in for it (ProcInv).          *)
(***************************************************************************)
EXTENDS CronResults, FiniteSetTheorems, WellFoundedInduction, TLAPS

(* Consume would offer the message to p. *)
Pending(p, id) == \E m \in Consumable(CronResult, NoChannel, p, 0) : m.id = id

Settled(p, id) == Pending(p, id) => <<p, id>> \in excused

RowsKnown ==
    /\ clock = 0
    /\ nextId \in Nat \ {0}
    /\ messages \subseteq Message
    /\ \A m \in messages : m.id \in Ids /\ m.id < nextId
    /\ \A m, n \in messages : m.id = n.id => m = n

LoopTypes ==
    /\ proc \in [Sessions -> ProcStates]
    /\ todo \in [Sessions -> SUBSET Message]
    /\ inbox \in [Sessions -> SUBSET Nat]
    /\ old \in [Sessions -> SUBSET Ids]
    /\ told \in [Sessions -> [Ids -> 0 .. 2]]

(* What is in hand and in history has been published. *)
PastOnly(p) ==
    /\ \A id \in Ids : told[p][id] > 0 => id < nextId
    /\ \A id \in old[p] : id < nextId
    /\ \A m \in todo[p] : m.id \in Ids /\ m.id < nextId

(* The batch that is being handled: what is left of it is new to p. *)
BatchInHand(p) ==
    /\ inbox[p] # {} => proc[p] \in {"drainAck", "notifying"}
    /\ \A m \in todo[p] :
          /\ proc[p] = "notifying" /\ m.id \in inbox[p]
          /\ \/ told[p][m.id] = 0 /\ m.id \notin old[p]
             \/ <<p, m.id>> \in excused
    /\ \A m, n \in todo[p] : m.id = n.id => m = n

(* What was told is settled, or will be with the batch. *)
ToldIsSettled(p) ==
    \A id \in Ids :
        /\ proc[p] \in {"off", "draining", "drainAck"} => told[p][id] = 0
        /\ told[p][id] > 0 /\ proc[p] # "gone" =>
              \/ Settled(p, id)
              \/ proc[p] = "notifying" /\ id \in inbox[p] /\ id \notin IdsOf(todo[p])

OldIsSettled(p) == Consuming(p) => \A id \in old[p] : Settled(p, id)

(* The properties, for one process. *)
ToldOnce(p) ==
    /\ \A id \in Ids : told[p][id] >= 2 => <<p, id>> \in excused
    /\ \A id \in old[p] : told[p][id] > 0 => <<p, id>> \in excused

ProcInv(p) ==
    PastOnly(p) /\ BatchInHand(p) /\ ToldIsSettled(p) /\ OldIsSettled(p) /\ ToldOnce(p)

ResultsInv == RowsKnown /\ LoopTypes /\ \A p \in Sessions : ProcInv(p)

-----------------------------------------------------------------------------
(* Lemmas *)

(* A query that returns nothing had nothing to return: of the rows that it *)
(* selects from, the one with the least id would be in it. *)
LEMMA EmptyBatch ==
    ASSUME RowsKnown, NEW p \in Sessions, Available(p) = {}
    PROVE  \A id : ~Pending(p, id)
<1>. DEFINE rows == Consumable(CronResult, NoChannel, p, 0)
            nums == {m.id : m \in rows}
<1>1. SUFFICES ASSUME rows # {} PROVE FALSE
  BY DEF Pending
<1>2. rows \subseteq messages /\ nums \subseteq Nat /\ nums # {}
  BY <1>1 DEF RowsKnown, Consumable, Message
<1>3. PICK n \in nums : \A k \in nums : ~(<<k, n>> \in OpToRel(<, Nat))
  BY <1>2, NatLessThanWellFounded, WFMin
<1>4. \A k \in nums : ~(k < n)
  BY <1>2, <1>3 DEF OpToRel
<1>5. PICK m \in rows : m.id = n
  OBVIOUS
<1>6. {k \in rows : k.id < m.id} = {}
  BY <1>4, <1>5
<1>7. m \in FirstById(rows, DrainLimit)
  BY <1>5, <1>6, FS_EmptySet, ResultsAssumption DEF FirstById
<1>8. m.id \in Available(p)
  BY <1>7 DEF Available, Batch, RowsKnown
<1>. QED BY <1>8

(* The table offers no more than before, except what is published now or   *)
(* excused. *)
Offers(p) ==
    \A id \in Ids : Pending(p, id)' => Pending(p, id) \/ <<p, id>> \in excused' \/ id >= nextId

LEMMA ShrinkingOffers ==
    ASSUME NEW p \in Sessions, messages' \subseteq messages,
           \A m \in messages' : Acked(m, p) => Acked(m, p)' \/ <<p, m.id>> \in excused'
    PROVE  Offers(p)
BY DEF Offers, Pending, Consumable

(* A step that leaves the loop of p alone. *)
LEMMA OthersKeep ==
    ASSUME ResultsInv, NEW p \in Sessions, Offers(p),
           proc'[p] = proc[p], todo'[p] = todo[p], inbox'[p] = inbox[p],
           old'[p] = old[p], told'[p] = told[p],
           excused \subseteq excused', nextId' \in Nat, nextId' >= nextId
    PROVE  ProcInv(p)'
<1>1. \A id \in Ids : id < nextId => id < nextId' /\ ~(id >= nextId)
  BY PubSubAssumption DEF ResultsInv, RowsKnown, Ids
<1>2. ProcInv(p) /\ old[p] \subseteq Ids
  BY DEF ResultsInv, LoopTypes
<1>3. PastOnly(p)'
  BY <1>1, <1>2 DEF ProcInv, PastOnly
<1>4. BatchInHand(p)'
  BY <1>2 DEF ProcInv, BatchInHand
<1>5. \A id \in Ids : id < nextId /\ Settled(p, id) => Settled(p, id)'
  BY <1>1 DEF Offers, Settled
<1>6. ToldIsSettled(p)'
  BY <1>2, <1>5 DEF ProcInv, PastOnly, ToldIsSettled, IdsOf
<1>7. OldIsSettled(p)'
  BY <1>2, <1>5 DEF ProcInv, PastOnly, OldIsSettled, Consuming
<1>8. ToldOnce(p)'
  BY <1>2 DEF ProcInv, ToldOnce
<1>. QED BY <1>3, <1>4, <1>6, <1>7, <1>8 DEF ProcInv

(* The tables as Cleanup, acks and the purge at a start leave them. *)
LEMMA RowsKeep ==
    ASSUME RowsKnown, messages' \subseteq messages, UNCHANGED <<clock, nextId>>
    PROVE  RowsKnown'
BY DEF RowsKnown

-----------------------------------------------------------------------------
(* Start, drain *)

LEMMA OpenKeeps ==
    ASSUME ResultsInv, NEW p \in Sessions, Open(p)
    PROVE  ResultsInv'
<1>1. /\ proc[p] = "off" /\ proc' = [proc EXCEPT ![p] = "draining"]
      /\ UNCHANGED <<clock, messages, nextId, inbox, todo, told>>
      /\ old' = [old EXCEPT ![p] = IdsOf(messages)]
      /\ excused' = excused \cup {<<r[2], r[1]>> : r \in receipts \ receipts'}
  BY DEF Open, Move, CleanStaleReceipts, pubsubVars
<1>2. RowsKnown'
  BY <1>1, RowsKeep DEF ResultsInv
<1>3. LoopTypes'
  BY <1>1 DEF ResultsInv, RowsKnown, LoopTypes, ProcStates, IdsOf
<1>4. \A q \in Sessions : \A m \in messages : Acked(m, q) => Acked(m, q)' \/ <<q, m.id>> \in excused'
  <2>. SUFFICES ASSUME NEW q \in Sessions, NEW m \in messages, <<m.id, q>> \in receipts \ receipts'
                PROVE  <<q, m.id>> \in excused'
    BY <1>1 DEF Acked
  <2>1. <<m.id, q>>[2] = q /\ <<m.id, q>>[1] = m.id
    OBVIOUS
  <2>. QED BY <1>1, <2>1
<1>5. ASSUME NEW q \in Sessions PROVE Offers(q)
  BY <1>1, <1>4, ShrinkingOffers
<1>6. ASSUME NEW q \in Sessions, q # p PROVE ProcInv(q)'
  <2>1. proc'[q] = proc[q] /\ old'[q] = old[q]
    BY <1>1, <1>6 DEF ResultsInv, LoopTypes
  <2>. QED BY <1>1, <1>5, <2>1, OthersKeep DEF ResultsInv, RowsKnown
<1>7. ProcInv(p)'
  <2>1. /\ proc'[p] = "draining" /\ old'[p] = IdsOf(messages) /\ inbox'[p] = {} /\ todo'[p] = {}
        /\ \A id \in Ids : told'[p][id] = 0
    BY <1>1 DEF ResultsInv, LoopTypes, ProcInv, BatchInHand, ToldIsSettled
  <2>2. \A id \in old'[p] : id \in Ids /\ id < nextId
    BY <2>1 DEF ResultsInv, RowsKnown, IdsOf
  <2>. QED BY <1>1, <2>1, <2>2
       DEF ProcInv, PastOnly, BatchInHand, ToldIsSettled, OldIsSettled, ToldOnce, Consuming
<1>. QED BY <1>2, <1>3, <1>6, <1>7 DEF ResultsInv

LEMMA DrainFetchKeeps ==
    ASSUME ResultsInv, NEW p \in Sessions, DrainFetch(p)
    PROVE  ResultsInv'
<1>1. /\ proc[p] = "draining" /\ proc' = [proc EXCEPT ![p] = "drainAck"]
      /\ UNCHANGED <<clock, messages, receipts, nextId, todo, told, old, excused>>
  BY DEF DrainFetch, Move, Consume
<1>2. PICK t \in Sampled : inbox' = [inbox EXCEPT ![p] = @ \cup Batch(CronResult, NoChannel, p, t, DrainLimit)]
  BY DEF DrainFetch, Consume
<1>3. Batch(CronResult, NoChannel, p, t, DrainLimit) \subseteq Nat
  BY DEF Batch, FirstById, Consumable, ResultsInv, RowsKnown, Message
<1>4. RowsKnown'
  BY <1>1, RowsKeep DEF ResultsInv
<1>5. LoopTypes'
  BY <1>1, <1>2, <1>3 DEF ResultsInv, LoopTypes, ProcStates
<1>6. ASSUME NEW q \in Sessions PROVE Offers(q)
  BY <1>1, ShrinkingOffers DEF Acked
<1>7. ASSUME NEW q \in Sessions, q # p PROVE ProcInv(q)'
  <2>1. proc'[q] = proc[q] /\ inbox'[q] = inbox[q]
    BY <1>1, <1>2, <1>7 DEF ResultsInv, LoopTypes
  <2>. QED BY <1>1, <1>6, <2>1, OthersKeep DEF ResultsInv, RowsKnown
<1>8. ProcInv(p)'
  <2>1. ProcInv(p) /\ todo[p] = {} /\ proc'[p] = "drainAck"
    BY <1>1 DEF ResultsInv, LoopTypes, ProcInv, BatchInHand
  <2>. QED BY <1>1, <2>1
       DEF ProcInv, PastOnly, BatchInHand, ToldIsSettled, OldIsSettled, ToldOnce, Consuming
<1>. QED BY <1>4, <1>5, <1>7, <1>8 DEF ResultsInv

(* The loop of p comes to its body with nothing told and nothing in hand;  *)
(* what was there before is settled. *)
LEMMA DrainEnds ==
    ASSUME ResultsInv, NEW p \in Sessions,
           proc[p] \in {"draining", "drainAck"}, proc' = [proc EXCEPT ![p] = "running"],
           inbox' = [inbox EXCEPT ![p] = {}],
           UNCHANGED <<clock, messages, nextId, todo, told, old>>,
           receipts \subseteq receipts', excused \subseteq excused',
           \A id \in old[p] : Settled(p, id)'
    PROVE  ResultsInv'
<1>1. RowsKnown'
  BY RowsKeep DEF ResultsInv
<1>2. LoopTypes'
  BY DEF ResultsInv, LoopTypes, ProcStates
<1>3. ASSUME NEW q \in Sessions PROVE Offers(q)
  BY ShrinkingOffers DEF Acked
<1>4. ASSUME NEW q \in Sessions, q # p PROVE ProcInv(q)'
  <2>1. proc'[q] = proc[q] /\ inbox'[q] = inbox[q]
    BY <1>4 DEF ResultsInv, LoopTypes
  <2>. QED BY <1>3, <2>1, OthersKeep DEF ResultsInv, RowsKnown
<1>5. ProcInv(p)'
  <2>1. /\ ProcInv(p) /\ todo'[p] = {} /\ proc'[p] = "running" /\ inbox'[p] = {}
        /\ \A id \in Ids : told'[p][id] = 0
        /\ old'[p] \subseteq Ids
    BY DEF ResultsInv, LoopTypes, ProcInv, BatchInHand, ToldIsSettled
  <2>. QED BY <2>1
       DEF ProcInv, PastOnly, BatchInHand, ToldIsSettled, OldIsSettled, ToldOnce, Consuming
<1>. QED BY <1>1, <1>2, <1>4, <1>5 DEF ResultsInv

LEMMA DrainDoneKeeps ==
    ASSUME ResultsInv, NEW p \in Sessions, DrainDone(p)
    PROVE  ResultsInv'
<1>1. /\ proc[p] = "draining" /\ proc' = [proc EXCEPT ![p] = "running"]
      /\ UNCHANGED <<clock, messages, receipts, nextId, inbox, todo, told, old>>
  BY DEF DrainDone, Move, pubsubVars
<1>2. inbox' = [inbox EXCEPT ![p] = {}]
  <2>1. inbox[p] = {}
    BY <1>1 DEF ResultsInv, ProcInv, BatchInHand
  <2>. QED BY <1>1, <2>1 DEF ResultsInv, LoopTypes
<1>3. CASE Available(p) = {} /\ UNCHANGED excused
  <2>1. \A id : ~Pending(p, id)
    BY <1>3, EmptyBatch DEF ResultsInv
  <2>2. \A id : ~Pending(p, id)'
    BY <1>1, <2>1 DEF Pending, Consumable, Acked
  <2>. QED BY <1>1, <1>2, <1>3, <2>2, DrainEnds DEF Settled
<1>4. CASE Excuse(p, old[p])
  <2>1. excused \subseteq excused' /\ \A id \in old[p] : <<p, id>> \in excused'
    BY <1>4 DEF Excuse, ResultsInv, LoopTypes
  <2>. QED BY <1>1, <1>2, <2>1, DrainEnds DEF Settled
<1>. QED BY <1>3, <1>4 DEF DrainDone

LEMMA DrainAckKeeps ==
    ASSUME ResultsInv, NEW p \in Sessions, DrainAck(p)
    PROVE  ResultsInv'
<1>1. /\ proc[p] = "drainAck" /\ inbox' = [inbox EXCEPT ![p] = {}]
      /\ receipts \subseteq receipts'
      /\ UNCHANGED <<clock, messages, nextId, todo, told, old>>
  BY DEF DrainAck, AckAll, ResultsInv, LoopTypes
<1>2. CASE proc' = [proc EXCEPT ![p] = "running"] /\ Excuse(p, old[p])
  <2>1. excused \subseteq excused' /\ \A id \in old[p] : <<p, id>> \in excused'
    BY <1>2 DEF Excuse, ResultsInv, LoopTypes
  <2>. QED BY <1>1, <1>2, <2>1, DrainEnds DEF Settled
<1>3. CASE proc' = [proc EXCEPT ![p] = "draining"] /\ UNCHANGED excused
  <2>1. RowsKnown'
    BY <1>1, RowsKeep DEF ResultsInv
  <2>2. LoopTypes'
    BY <1>1, <1>3 DEF ResultsInv, LoopTypes, ProcStates
  <2>3. ASSUME NEW q \in Sessions PROVE Offers(q)
    BY <1>1, ShrinkingOffers DEF Acked
  <2>4. ASSUME NEW q \in Sessions, q # p PROVE ProcInv(q)'
    <3>1. proc'[q] = proc[q] /\ inbox'[q] = inbox[q]
      BY <1>1, <1>3, <2>4 DEF ResultsInv, LoopTypes
    <3>. QED BY <1>1, <1>3, <2>3, <3>1, OthersKeep DEF ResultsInv, RowsKnown
  <2>5. ProcInv(p)'
    <3>1. ProcInv(p) /\ todo[p] = {} /\ proc'[p] = "draining" /\ inbox'[p] = {}
      BY <1>1, <1>3 DEF ResultsInv, LoopTypes, ProcInv, BatchInHand
    <3>. QED BY <1>1, <1>3, <3>1
         DEF ProcInv, PastOnly, BatchInHand, ToldIsSettled, OldIsSettled, ToldOnce, Consuming
  <2>. QED BY <2>1, <2>2, <2>4, <2>5 DEF ResultsInv
<1>. QED BY <1>2, <1>3 DEF DrainAck, Move

-----------------------------------------------------------------------------
(* The loop over a batch *)

(* What Consume returns is offered: whatever of it was told before, or was *)
(* there at the start, is excused. *)
LEMMA ConsumeBatchKeeps ==
    ASSUME ResultsInv, NEW p \in Sessions, ConsumeBatch(p)
    PROVE  ResultsInv'
<1>1. /\ proc[p] = "running" /\ proc' = [proc EXCEPT ![p] = "notifying"]
      /\ UNCHANGED <<clock, messages, receipts, nextId, told, old, excused>>
      /\ todo' = [todo EXCEPT ![p] = {m \in messages : m.id \in inbox'[p]}]
  BY DEF ConsumeBatch, Move, Consume
<1>2. PICK t \in Sampled :
        inbox' = [inbox EXCEPT ![p] = @ \cup Batch(CronResult, NoChannel, p, t, ConsumeLimit)]
  BY DEF ConsumeBatch, Consume
<1>3. t = 0
  BY DEF ResultsInv, RowsKnown, Sampled
<1>. DEFINE B == Batch(CronResult, NoChannel, p, 0, ConsumeLimit)
<1>4. B \subseteq Nat /\ \A id \in B : Pending(p, id)
  BY DEF Batch, FirstById, Consumable, Pending, ResultsInv, RowsKnown, Message
<1>5. /\ inbox'[p] = B /\ todo'[p] = {m \in messages : m.id \in B}
      /\ proc'[p] = "notifying"
  <2>1. inbox[p] = {}
    BY <1>1 DEF ResultsInv, ProcInv, BatchInHand
  <2>2. inbox'[p] = B
    BY <1>2, <1>3, <2>1 DEF ResultsInv, LoopTypes
  <2>. QED BY <1>1, <2>2 DEF ResultsInv, LoopTypes
<1>6. RowsKnown'
  BY <1>1, RowsKeep DEF ResultsInv
<1>7. LoopTypes'
  <2>1. inbox' \in [Sessions -> SUBSET Nat]
    BY <1>2, <1>3, <1>4 DEF ResultsInv, LoopTypes
  <2>. QED BY <1>1, <2>1 DEF ResultsInv, RowsKnown, LoopTypes, ProcStates
<1>8. ASSUME NEW q \in Sessions PROVE Offers(q)
  BY <1>1, ShrinkingOffers DEF Acked
<1>9. ASSUME NEW q \in Sessions, q # p PROVE ProcInv(q)'
  <2>1. proc'[q] = proc[q] /\ inbox'[q] = inbox[q] /\ todo'[q] = todo[q]
    BY <1>1, <1>2, <1>9 DEF ResultsInv, LoopTypes
  <2>. QED BY <1>1, <1>8, <2>1, OthersKeep DEF ResultsInv, RowsKnown
<1>10. ProcInv(p)'
  <2>1. ProcInv(p) /\ old[p] \subseteq Ids
    BY DEF ResultsInv, LoopTypes
  <2>2. \A id \in Ids : told[p][id] > 0 => Settled(p, id)
    BY <1>1, <2>1 DEF ProcInv, ToldIsSettled
  <2>3. \A id \in old[p] : Settled(p, id)
    BY <1>1, <2>1 DEF ProcInv, OldIsSettled, Consuming
  <2>4. \A id : Settled(p, id)' <=> Settled(p, id)
    BY <1>1 DEF Settled, Pending, Consumable, Acked
  <2>5. BatchInHand(p)'
    <3>1. ASSUME NEW m \in todo'[p]
          PROVE  /\ m.id \in inbox'[p]
                 /\ \/ told[p][m.id] = 0 /\ m.id \notin old[p]
             \/ <<p, m.id>> \in excused
      <4>1. m \in messages /\ m.id \in B /\ m.id \in Ids
        BY <1>5 DEF ResultsInv, RowsKnown
      <4>2. Settled(p, m.id) => <<p, m.id>> \in excused
        BY <1>4, <4>1 DEF Settled
      <4>3. told[p][m.id] \in 0 .. 2
        BY <4>1 DEF ResultsInv, LoopTypes
      <4>. QED BY <1>5, <2>2, <2>3, <4>1, <4>2, <4>3
    <3>2. \A m, n \in todo'[p] : m.id = n.id => m = n
      BY <1>5 DEF ResultsInv, RowsKnown
    <3>. QED BY <1>1, <1>5, <3>1, <3>2 DEF BatchInHand
  <2>6. PastOnly(p)'
    BY <1>1, <1>5, <2>1 DEF ProcInv, PastOnly, ResultsInv, RowsKnown
  <2>7. ToldIsSettled(p)' /\ OldIsSettled(p)'
    BY <1>1, <1>5, <2>2, <2>3, <2>4 DEF ToldIsSettled, OldIsSettled
  <2>8. ToldOnce(p)'
    BY <1>1, <2>1 DEF ProcInv, ToldOnce
  <2>. QED BY <2>5, <2>6, <2>7, <2>8 DEF ProcInv
<1>. QED BY <1>6, <1>7, <1>9, <1>10 DEF ResultsInv

LEMMA NotifyOneKeeps ==
    ASSUME ResultsInv, NEW p \in Sessions, NotifyOne(p)
    PROVE  ResultsInv'
<1>1. /\ proc[p] = "notifying"
      /\ UNCHANGED <<clock, messages, receipts, nextId, inbox, proc, old, excused>>
  BY DEF NotifyOne, pubsubVars
<1>2. PICK m \in todo[p] :
        /\ todo' = [todo EXCEPT ![p] = @ \ {m}]
        /\ told' = IF m.channel = Unrouted
                   THEN told
                   ELSE [told EXCEPT ![p][m.id] = IF @ < 2 THEN @ + 1 ELSE 2]
  BY DEF NotifyOne
<1>3. /\ ProcInv(p) /\ m.id \in Ids /\ m.id < nextId /\ m.id \in inbox[p]
      /\ \/ told[p][m.id] = 0 /\ m.id \notin old[p]
         \/ <<p, m.id>> \in excused
      /\ told[p] \in [Ids -> 0 .. 2]
  BY DEF ResultsInv, LoopTypes, ProcInv, PastOnly, BatchInHand
<1>4. todo'[p] = todo[p] \ {m} /\ m.id \notin IdsOf(todo'[p])
  <2>1. todo'[p] = todo[p] \ {m}
    BY <1>2 DEF ResultsInv, LoopTypes
  <2>. QED BY <1>3, <2>1 DEF ProcInv, BatchInHand, IdsOf
<1>5. /\ \A id \in Ids \ {m.id} : told'[p][id] = told[p][id]
      /\ told'[p][m.id] = told[p][m.id] \/ told[p][m.id] >= 1 \/ told'[p][m.id] = 1
  BY <1>2, <1>3 DEF ResultsInv, LoopTypes
<1>6. LoopTypes'
  <2>1. told' \in [Sessions -> [Ids -> 0 .. 2]]
    <3>1. \A n \in 0 .. 2 : (IF n < 2 THEN n + 1 ELSE 2) \in 0 .. 2
      OBVIOUS
    <3>. QED BY <1>2, <1>3, <3>1 DEF ResultsInv, LoopTypes
  <2>2. todo' \in [Sessions -> SUBSET Message]
    BY <1>2 DEF ResultsInv, LoopTypes
  <2>. QED BY <1>1, <2>1, <2>2 DEF ResultsInv, LoopTypes
<1>7. RowsKnown'
  BY <1>1, RowsKeep DEF ResultsInv
<1>8. ASSUME NEW q \in Sessions, q # p PROVE ProcInv(q)'
  <2>1. Offers(q)
    BY <1>1, ShrinkingOffers DEF Acked
  <2>2. told'[q] = told[q] /\ todo'[q] = todo[q]
    BY <1>2, <1>8 DEF ResultsInv, LoopTypes
  <2>. QED BY <1>1, <2>1, <2>2, OthersKeep DEF ResultsInv, RowsKnown
<1>9. ProcInv(p)'
  <2>1. \A id : Settled(p, id)' <=> Settled(p, id)
    BY <1>1 DEF Settled, Pending, Consumable, Acked
  <2>2. PastOnly(p)'
    BY <1>1, <1>3, <1>4, <1>5 DEF ProcInv, PastOnly
  <2>3. BatchInHand(p)'
    <3>1. \A k \in todo'[p] : k \in todo[p] /\ k.id # m.id /\ k.id \in Ids
      BY <1>3, <1>4 DEF ProcInv, PastOnly, IdsOf
    <3>2. \A k \in todo'[p] : told'[p][k.id] = told[p][k.id]
      BY <1>5, <3>1
    <3>. QED BY <1>1, <1>3, <3>1, <3>2 DEF ProcInv, BatchInHand
  <2>4. ToldIsSettled(p)'
    <3>. SUFFICES ASSUME NEW id \in Ids, told'[p][id] > 0
                  PROVE  Settled(p, id) \/ (id \in inbox[p] /\ id \notin IdsOf(todo'[p]))
      BY <1>1, <2>1 DEF ToldIsSettled
    <3>1. CASE id = m.id
      BY <1>3, <1>4, <3>1
    <3>2. CASE id # m.id
      BY <1>1, <1>3, <1>4, <1>5, <3>2 DEF ProcInv, ToldIsSettled, IdsOf
    <3>. QED BY <3>1, <3>2
  <2>5. OldIsSettled(p)'
    BY <1>1, <1>3, <2>1 DEF ProcInv, OldIsSettled, Consuming
  <2>6. ToldOnce(p)'
    <3>1. \A id \in old[p] : id \in Ids
      BY DEF ResultsInv, LoopTypes
    <3>. QED BY <1>1, <1>3, <1>5, <3>1 DEF ProcInv, ToldOnce
  <2>. QED BY <2>2, <2>3, <2>4, <2>5, <2>6 DEF ProcInv
<1>. QED BY <1>6, <1>7, <1>8, <1>9 DEF ResultsInv

(* The batch is given up, with what was told of it acked or excused. *)
LEMMA BatchEnds ==
    ASSUME ResultsInv, NEW p \in Sessions,
           proc[p] = "notifying", proc' = [proc EXCEPT ![p] = "running"],
           inbox' = [inbox EXCEPT ![p] = {}], todo' = [todo EXCEPT ![p] = {}],
           UNCHANGED <<clock, messages, nextId, told, old>>,
           receipts \subseteq receipts', excused \subseteq excused',
           \A id \in inbox[p] \cap Ids : Settled(p, id)'
    PROVE  ResultsInv'
<1>1. RowsKnown'
  BY RowsKeep DEF ResultsInv
<1>2. LoopTypes'
  BY DEF ResultsInv, LoopTypes, ProcStates
<1>3. ASSUME NEW q \in Sessions PROVE Offers(q)
  BY ShrinkingOffers DEF Acked
<1>4. ASSUME NEW q \in Sessions, q # p PROVE ProcInv(q)'
  <2>1. proc'[q] = proc[q] /\ inbox'[q] = inbox[q] /\ todo'[q] = todo[q]
    BY <1>4 DEF ResultsInv, LoopTypes
  <2>. QED BY <1>3, <2>1, OthersKeep DEF ResultsInv, RowsKnown
<1>5. ProcInv(p)'
  <2>1. /\ ProcInv(p) /\ todo'[p] = {} /\ proc'[p] = "running" /\ inbox'[p] = {}
        /\ old[p] \subseteq Ids
    BY DEF ResultsInv, LoopTypes
  <2>2. \A id : Settled(p, id) => Settled(p, id)'
    BY DEF Settled, Pending, Consumable, Acked
  <2>3. PastOnly(p)' /\ BatchInHand(p)' /\ ToldOnce(p)'
    BY <2>1 DEF ProcInv, PastOnly, BatchInHand, ToldOnce
  <2>4. ToldIsSettled(p)'
    BY <2>1, <2>2 DEF ProcInv, ToldIsSettled
  <2>5. OldIsSettled(p)'
    BY <2>1, <2>2 DEF ProcInv, OldIsSettled, Consuming
  <2>. QED BY <2>3, <2>4, <2>5 DEF ProcInv
<1>. QED BY <1>1, <1>2, <1>4, <1>5 DEF ResultsInv

LEMMA AckBatchKeeps ==
    ASSUME ResultsInv, NEW p \in Sessions, AckBatch(p) \/ NotifyPanics(p)
    PROVE  ResultsInv'
<1>1. /\ proc[p] = "notifying" /\ proc' = [proc EXCEPT ![p] = "running"]
      /\ UNCHANGED <<clock, messages, nextId, told, old>>
  BY DEF AckBatch, NotifyPanics, Move, AckAll
<1>2. todo' = [todo EXCEPT ![p] = {}] /\ inbox' = [inbox EXCEPT ![p] = {}]
  BY DEF AckBatch, NotifyPanics, AckAll, ResultsInv, LoopTypes
<1>3. CASE AckBatch(p) /\ AckAll(p, inbox[p]) /\ UNCHANGED excused
  <2>1. receipts' = receipts \cup (inbox[p] \X {p})
    BY <1>3 DEF AckAll
  <2>2. \A id \in inbox[p] : Settled(p, id)'
    BY <2>1 DEF Settled, Pending, Consumable, Acked
  <2>. QED BY <1>1, <1>2, <1>3, <2>1, <2>2, BatchEnds
<1>4. CASE Excuse(p, inbox[p]) /\ UNCHANGED receipts
  <2>1. excused \subseteq excused' /\ \A id \in inbox[p] \cap Ids : <<p, id>> \in excused'
    BY <1>4 DEF Excuse
  <2>. QED BY <1>1, <1>2, <1>4, <2>1, BatchEnds DEF Settled
<1>. QED BY <1>3, <1>4 DEF AckBatch, NotifyPanics

-----------------------------------------------------------------------------
(* Publication, Cleanup, and the end of a process *)

LEMMA PublishKeeps ==
    ASSUME ResultsInv, NEW p \in Sessions, NEW c \in Channels, PublishResult(p, c)
    PROVE  ResultsInv'
<1>1. /\ nextId <= MaxMessages /\ nextId' = nextId + 1
      /\ UNCHANGED <<clock, receipts, inbox, proc, todo, old, told, excused>>
  BY DEF PublishResult, Publish
<1>2. PICK t \in Sampled :
        messages' = messages \cup
            {[id |-> nextId, topic |-> CronResult, channel |-> c, created |-> t]}
  BY DEF PublishResult, Publish
<1>3. nextId \in Nat \ {0} /\ nextId' \in Nat \ {0} /\ nextId' > nextId /\ nextId \in Ids
  BY <1>1, PubSubAssumption DEF ResultsInv, RowsKnown, Ids
<1>4. [id |-> nextId, topic |-> CronResult, channel |-> c, created |-> t] \in Message
  BY <1>3, ResultsAssumption DEF Message, ResultsInv, RowsKnown, Sampled
<1>5. RowsKnown'
  <2>1. \A m \in messages : m.id \in Ids /\ m.id < nextId'
    BY <1>1, <1>3, PubSubAssumption DEF ResultsInv, RowsKnown, Ids
  <2>2. \A m \in messages : m.id # nextId
    BY <1>3 DEF ResultsInv, RowsKnown
  <2>. QED BY <1>1, <1>2, <1>3, <1>4, <2>1, <2>2 DEF ResultsInv, RowsKnown
<1>6. LoopTypes'
  BY <1>1 DEF ResultsInv, LoopTypes
<1>7. ASSUME NEW q \in Sessions PROVE ProcInv(q)'
  <2>1. Offers(q)
    BY <1>1, <1>2, <1>3 DEF Offers, Pending, Consumable, Acked
  <2>. QED BY <1>1, <1>3, <2>1, OthersKeep
<1>. QED BY <1>5, <1>6, <1>7 DEF ResultsInv

(* Cleanup takes rows, and receipts of rows that are gone. *)
LEMMA CleanupKeeps ==
    ASSUME ResultsInv, NEW p \in Sessions, LeaderCleanup(p)
    PROVE  ResultsInv'
<1>1. /\ UNCHANGED <<clock, nextId, inbox, proc, todo, old, told, excused>>
      /\ messages' \subseteq messages
      /\ receipts' = receipts \/ receipts' = {r \in receipts : \E m \in messages' : m.id = r[1]}
  BY DEF LeaderCleanup, loopVars, CleanupStep, CleanupBegin, CleanupSessions, CleanupExpired,
     CleanupAcked, CleanupOrphans, CleanupFails, CleanupCancelled
<1>2. ASSUME NEW q \in Sessions PROVE Offers(q)
  <2>1. \A m \in messages' : Acked(m, q) => Acked(m, q)'
    <3>. SUFFICES ASSUME NEW m \in messages', <<m.id, q>> \in receipts
                  PROVE  <<m.id, q>> \in receipts'
      BY DEF Acked
    <3>1. <<m.id, q>>[1] = m.id
      OBVIOUS
    <3>. QED BY <1>1, <3>1
  <2>. QED BY <1>1, <2>1, ShrinkingOffers
<1>3. ASSUME NEW q \in Sessions PROVE ProcInv(q)'
  BY <1>1, <1>2, <1>3, OthersKeep DEF ResultsInv, RowsKnown
<1>4. RowsKnown' /\ LoopTypes'
  BY <1>1, RowsKeep DEF ResultsInv, LoopTypes
<1>. QED BY <1>3, <1>4 DEF ResultsInv

LEMMA ExitKeeps ==
    ASSUME ResultsInv, NEW p \in Sessions, Exit(p)
    PROVE  ResultsInv'
<1>1. /\ proc' = [proc EXCEPT ![p] = "gone"] /\ inbox' = [inbox EXCEPT ![p] = {}]
      /\ todo' = [todo EXCEPT ![p] = {}]
      /\ UNCHANGED <<clock, messages, nextId, receipts, old, told, excused>>
  BY DEF Exit, Move
<1>2. RowsKnown'
  BY <1>1, RowsKeep DEF ResultsInv
<1>3. LoopTypes'
  BY <1>1 DEF ResultsInv, LoopTypes, ProcStates
<1>4. ASSUME NEW q \in Sessions, q # p PROVE ProcInv(q)'
  <2>1. Offers(q)
    BY <1>1, ShrinkingOffers DEF Acked
  <2>2. proc'[q] = proc[q] /\ inbox'[q] = inbox[q] /\ todo'[q] = todo[q]
    BY <1>1, <1>4 DEF ResultsInv, LoopTypes
  <2>. QED BY <1>1, <2>1, <2>2, OthersKeep DEF ResultsInv, RowsKnown
<1>5. ProcInv(p)'
  <2>1. ProcInv(p) /\ proc'[p] = "gone" /\ inbox'[p] = {} /\ todo'[p] = {}
    BY <1>1 DEF ResultsInv, LoopTypes
  <2>. QED BY <1>1, <2>1
       DEF ProcInv, PastOnly, BatchInHand, ToldIsSettled, OldIsSettled, ToldOnce, Consuming
<1>. QED BY <1>2, <1>3, <1>4, <1>5 DEF ResultsInv

-----------------------------------------------------------------------------
LEMMA ResultsInitInv == Init => ResultsInv
<1>. SUFFICES ASSUME Init PROVE ResultsInv
  OBVIOUS
<1>1. RowsKnown
  BY DEF Init, PubSubInit, RowsKnown
<1>2. LoopTypes
  BY DEF Init, PubSubInit, LoopTypes, ProcStates
<1>3. ASSUME NEW p \in Sessions PROVE ProcInv(p)
  BY DEF Init, PubSubInit, ProcInv, PastOnly, BatchInHand, ToldIsSettled, OldIsSettled,
     ToldOnce, Consuming
<1>. QED BY <1>1, <1>2, <1>3 DEF ResultsInv

LEMMA SameResults == ResultsInv /\ UNCHANGED resultsVars => ResultsInv'
<1>. SUFFICES ASSUME ResultsInv, UNCHANGED resultsVars PROVE ResultsInv'
  OBVIOUS
<1>1. UNCHANGED <<clock, messages, nextId, receipts, inbox, proc, todo, old, told, excused>>
  BY DEF resultsVars, pubsubVars, loopVars
<1>2. RowsKnown' /\ LoopTypes'
  BY <1>1, RowsKeep DEF ResultsInv, LoopTypes
<1>3. ASSUME NEW q \in Sessions PROVE ProcInv(q)'
  <2>1. Offers(q)
    BY <1>1, ShrinkingOffers DEF Acked
  <2>. QED BY <1>1, <2>1, OthersKeep DEF ResultsInv, RowsKnown
<1>. QED BY <1>2, <1>3 DEF ResultsInv

LEMMA ResultsStepInv == ResultsInv /\ [Next]_resultsVars => ResultsInv'
<1>. SUFFICES ASSUME ResultsInv, [Next]_resultsVars PROVE ResultsInv'
  OBVIOUS
<1>1. ASSUME NEW p \in Sessions, ConsumerStep(p) PROVE ResultsInv'
  BY <1>1, DrainFetchKeeps, DrainDoneKeeps, DrainAckKeeps, ConsumeBatchKeeps, NotifyOneKeeps,
     AckBatchKeeps DEF ConsumerStep
<1>. QED BY <1>1, OpenKeeps, CleanupKeeps, ExitKeeps, PublishKeeps, SameResults DEF Next

(* The invariant: nothing that was told is offered again, unless excused.  *)
THEOREM ResultsInvariant == Spec => []ResultsInv
BY ResultsInitInv, ResultsStepInv, PTL DEF Spec

(* No process tells its channels of a result twice, for batches and drains *)
(* of any size and any number of processes, unless an ack failed or its    *)
(* receipts were purged. *)
THEOREM ToldAtMostOnce == Spec => []NotifiedOnce
<1>1. ResultsInv => NotifiedOnce
  BY DEF ResultsInv, ProcInv, ToldOnce, NotifiedOnce
<1>. QED BY <1>1, ResultsInvariant, PTL

(* No process reports results that were there when it started, unless its  *)
(* drain broke off or its receipts were purged. *)
THEOREM OldNeverTold == Spec => []OldResultsSilent
<1>1. ResultsInv => OldResultsSilent
  BY DEF ResultsInv, ProcInv, ToldOnce, OldResultsSilent
<1>. QED BY <1>1, ResultsInvariant, PTL
-----------------------------------------------------------------------------
(* Types.  What the invariant above leaves open: the receipts and inboxes  *)
(* name ids that were given out, so that what a purge excuses is about     *)
(* them, and the batches that the drain counts are finite.                 *)

TableTypes ==
    /\ sess \in [Sessions -> [channel : Channels \cup {NoChannel}, hb : Nat]]
    /\ receipts \subseteq Ids \X Sessions
    /\ \A p \in Sessions : inbox[p] \subseteq Ids
    /\ cleaner \in [Cleaners -> [step : CleanerSteps, now : Nat, batch : Nat]]

BookTypes ==
    /\ leading \in [Sessions -> BOOLEAN]
    /\ drained \in [Sessions -> Nat]
    /\ faults \in 0 .. MaxFaults
    /\ owed \in [Sessions -> SUBSET Ids]
    /\ excused \subseteq Sessions \X Ids

LEMMA FetchedAreIds ==
    ASSUME RowsKnown, NEW p, NEW t, NEW limit
    PROVE  Batch(CronResult, NoChannel, p, t, limit) \subseteq Ids
BY DEF Batch, FirstById, Consumable, RowsKnown

LEMMA ConsumeTypes ==
    ASSUME ResultsInv, TableTypes, NEW p \in Sessions, NEW limit,
           Consume(CronResult, NoChannel, p, limit)
    PROVE  TableTypes'
<1>1. PICK t \in Sampled :
        inbox' = [inbox EXCEPT ![p] = @ \cup Batch(CronResult, NoChannel, p, t, limit)]
  BY DEF Consume
<1>2. inbox \in [Sessions -> SUBSET Nat]
  BY DEF ResultsInv, LoopTypes
<1>3. \A q \in Sessions : inbox'[q] \subseteq Ids
  BY <1>1, <1>2, FetchedAreIds DEF ResultsInv, TableTypes
<1>. QED BY <1>3 DEF Consume, TableTypes

LEMMA AckTypes ==
    ASSUME ResultsInv, TableTypes, NEW p \in Sessions,
           inbox' = [inbox EXCEPT ![p] = {}],
           receipts' = receipts \/ receipts' = receipts \cup (inbox[p] \X {p}),
           UNCHANGED <<sess, cleaner>>
    PROVE  TableTypes'
<1>1. inbox \in [Sessions -> SUBSET Nat]
  BY DEF ResultsInv, LoopTypes
<1>2. \A q \in Sessions : inbox'[q] \subseteq Ids
  BY <1>1 DEF TableTypes
<1>3. inbox[p] \X {p} \subseteq Ids \X Sessions
  BY DEF TableTypes
<1>4. receipts' \subseteq Ids \X Sessions
  BY <1>3 DEF TableTypes
<1>. QED BY <1>2, <1>4 DEF TableTypes

LEMMA CleanupTypes ==
    ASSUME ResultsInv, TableTypes, NEW p \in Sessions, CleanupStep(p)
    PROVE  TableTypes'
<1>. p \in Cleaners
  BY ResultsAssumption
<1>. USE DEF TableTypes, CleanerSteps
<1>0. Sampled \subseteq Nat
  BY DEF Sampled, ResultsInv, RowsKnown
<1>1. CASE CleanupBegin(p)
  BY <1>0, <1>1 DEF CleanupBegin
<1>2. CASE CleanupSessions(p)
  BY <1>2 DEF CleanupSessions, NoSession
<1>3. CASE CleanupExpired(p)
  BY <1>3 DEF CleanupExpired
<1>4. CASE CleanupAcked(p)
  <2>1. \/ cleaner' = [cleaner EXCEPT ![p].batch = @ + 1]
        \/ cleaner' = [cleaner EXCEPT ![p].step = "orphans"]
    BY <1>4 DEF CleanupAcked
  <2>. QED BY <1>4, <2>1 DEF CleanupAcked
<1>5. CASE CleanupOrphans(p)
  BY <1>5 DEF CleanupOrphans, Idle
<1>6. CASE CleanupFails(p)
  BY <1>6 DEF CleanupFails, Idle
<1>7. CASE CleanupCancelled(p)
  BY <1>7 DEF CleanupCancelled, Idle
<1>. QED BY <1>1, <1>2, <1>3, <1>4, <1>5, <1>6, <1>7 DEF CleanupStep

(* A step of the loop: what it does to the tables. *)
LEMMA TableStep ==
    ASSUME ResultsInv, TableTypes, [Next]_resultsVars
    PROVE  TableTypes'
<1>0. inbox \in [Sessions -> SUBSET Nat]
  BY DEF ResultsInv, LoopTypes
<1>1. ASSUME NEW p \in Sessions, Open(p) PROVE TableTypes'
  BY <1>1 DEF Open, CleanStaleReceipts, pubsubVars, TableTypes
<1>2. ASSUME NEW p \in Sessions, DrainFetch(p) \/ ConsumeBatch(p) PROVE TableTypes'
  BY <1>2, ConsumeTypes DEF DrainFetch, ConsumeBatch
<1>3. ASSUME NEW p \in Sessions, DrainDone(p) \/ NotifyOne(p) PROVE TableTypes'
  BY <1>3 DEF DrainDone, NotifyOne, pubsubVars, TableTypes
<1>4. ASSUME NEW p \in Sessions, DrainAck(p) \/ AckBatch(p) \/ NotifyPanics(p)
      PROVE  TableTypes'
  <2>1. /\ inbox' = [inbox EXCEPT ![p] = {}]
        /\ receipts' = receipts \/ receipts' = receipts \cup (inbox[p] \X {p})
        /\ UNCHANGED <<sess, cleaner>>
    <3>1. CASE AckAll(p, inbox[p])
      BY <1>0, <3>1 DEF AckAll
    <3>2. CASE inbox' = [inbox EXCEPT ![p] = {}] /\ UNCHANGED <<sess, receipts, cleaner>>
      BY <3>2
    <3>. QED BY <1>4, <3>1, <3>2 DEF DrainAck, AckBatch, NotifyPanics
  <2>. QED BY <2>1, AckTypes
<1>5. ASSUME NEW p \in Sessions, NEW c \in Channels, PublishResult(p, c) PROVE TableTypes'
  BY <1>5 DEF PublishResult, Publish, TableTypes
<1>6. ASSUME NEW p \in Sessions, LeaderCleanup(p) PROVE TableTypes'
  BY <1>6, CleanupTypes DEF LeaderCleanup
<1>7. ASSUME NEW p \in Sessions, Exit(p) PROVE TableTypes'
  <2>1. /\ inbox' = [inbox EXCEPT ![p] = {}] /\ UNCHANGED <<sess, receipts>>
        /\ cleaner' = [cleaner EXCEPT ![p] = Idle]
    BY <1>7 DEF Exit
  <2>2. \A q \in Sessions : inbox'[q] \subseteq Ids
    BY <1>0, <2>1 DEF TableTypes
  <2>3. Idle \in [step : CleanerSteps, now : Nat, batch : Nat]
    BY DEF Idle, CleanerSteps
  <2>. QED BY <2>1, <2>2, <2>3 DEF TableTypes
<1>8. CASE UNCHANGED resultsVars
  BY <1>8 DEF resultsVars, pubsubVars, TableTypes
<1>. QED BY <1>1, <1>2, <1>3, <1>4, <1>5, <1>6, <1>7, <1>8 DEF Next, ConsumerStep

LEMMA FaultTypes ==
    ASSUME faults \in 0 .. MaxFaults, Fault \/ UNCHANGED faults
    PROVE  faults' \in 0 .. MaxFaults
BY ResultsAssumption DEF Fault

LEMMA ExcuseTypes ==
    ASSUME NEW p \in Sessions, NEW ids, excused \subseteq Sessions \X Ids,
           Excuse(p, ids) \/ UNCHANGED excused
    PROVE  excused' \subseteq Sessions \X Ids
BY DEF Excuse

LEMMA BookStep ==
    ASSUME ResultsInv, TableTypes, BookTypes, [Next]_resultsVars
    PROVE  BookTypes'
<1>1. ASSUME NEW p \in Sessions, Open(p) PROVE BookTypes'
  <2>1. excused' = excused \cup {<<r[2], r[1]>> : r \in receipts \ receipts'}
    BY <1>1 DEF Open
  <2>2. \A r \in receipts : r[1] \in Ids /\ r[2] \in Sessions
    BY DEF TableTypes
  <2>3. excused' \subseteq Sessions \X Ids
    BY <2>1, <2>2 DEF BookTypes
  <2>4. faults' \in 0 .. MaxFaults
    BY <1>1, FaultTypes DEF Open, BookTypes
  <2>5. leading' \in [Sessions -> BOOLEAN] /\ UNCHANGED <<drained, owed>>
    BY <1>1 DEF Open, BookTypes
  <2>. QED BY <2>3, <2>4, <2>5 DEF BookTypes
<1>2. ASSUME NEW p \in Sessions, DrainFetch(p) \/ ConsumeBatch(p) \/ NotifyOne(p)
      PROVE  BookTypes'
  BY <1>2 DEF DrainFetch, ConsumeBatch, NotifyOne, BookTypes
<1>3. ASSUME NEW p \in Sessions, DrainDone(p) PROVE BookTypes'
  <2>1. faults' \in 0 .. MaxFaults
    BY <1>3, FaultTypes DEF DrainDone, BookTypes
  <2>2. excused' \subseteq Sessions \X Ids
    BY <1>3, ExcuseTypes DEF DrainDone, BookTypes
  <2>. QED BY <1>3, <2>1, <2>2 DEF DrainDone, BookTypes
<1>4. ASSUME NEW p \in Sessions, DrainAck(p) PROVE BookTypes'
  <2>1. faults' \in 0 .. MaxFaults
    BY <1>4, FaultTypes DEF DrainAck, BookTypes
  <2>2. excused' \subseteq Sessions \X Ids
    BY <1>4, ExcuseTypes DEF DrainAck, BookTypes
  <2>3. Cardinality(inbox[p]) \in Nat
    <3>1. IsFiniteSet(Ids)
      BY FS_Interval, PubSubAssumption DEF Ids
    <3>. QED BY <3>1, FS_Subset, FS_CardinalityType DEF TableTypes
  <2>4. drained' \in [Sessions -> Nat]
    BY <1>4, <2>3 DEF DrainAck, BookTypes
  <2>. QED BY <1>4, <2>1, <2>2, <2>4 DEF DrainAck, BookTypes
<1>5. ASSUME NEW p \in Sessions, AckBatch(p) \/ NotifyPanics(p) PROVE BookTypes'
  <2>1. faults' \in 0 .. MaxFaults
    BY <1>5, FaultTypes DEF AckBatch, NotifyPanics, BookTypes
  <2>2. excused' \subseteq Sessions \X Ids
    BY <1>5, ExcuseTypes DEF AckBatch, NotifyPanics, BookTypes
  <2>. QED BY <1>5, <2>1, <2>2 DEF AckBatch, NotifyPanics, BookTypes
<1>6. ASSUME NEW p \in Sessions, NEW c \in Channels, PublishResult(p, c) PROVE BookTypes'
  <2>1. nextId \in Ids
    BY <1>6, PubSubAssumption DEF PublishResult, Publish, ResultsInv, RowsKnown, Ids
  <2>2. owed' \in [Sessions -> SUBSET Ids]
    BY <1>6, <2>1 DEF PublishResult, BookTypes
  <2>. QED BY <1>6, <2>2 DEF PublishResult, BookTypes
<1>7. ASSUME NEW p \in Sessions, LeaderCleanup(p) \/ Exit(p) PROVE BookTypes'
  BY <1>7 DEF LeaderCleanup, Exit, loopVars, BookTypes
<1>8. CASE UNCHANGED resultsVars
  BY <1>8 DEF resultsVars, loopVars, BookTypes
<1>. QED BY <1>1, <1>2, <1>3, <1>4, <1>5, <1>6, <1>7, <1>8 DEF Next, ConsumerStep

LEMMA TypesInit == Init => TableTypes /\ BookTypes
<1>. SUFFICES ASSUME Init PROVE TableTypes /\ BookTypes
  OBVIOUS
<1>1. TableTypes
  BY DEF Init, PubSubInit, TableTypes, NoSession, Idle, CleanerSteps
<1>2. BookTypes
  BY ResultsAssumption DEF Init, BookTypes
<1>. QED BY <1>1, <1>2

(* The tables, the inboxes and the books of every process keep their       *)
(* types: a purge excuses only sessions that exist, for ids that were      *)
(* given out, and a drain counts a number of messages. *)
THEOREM ResultsTypes == Spec => []ResultsTypeOK
<1>. DEFINE I == ResultsInv /\ TableTypes /\ BookTypes
<1>1. Init => I
  BY ResultsInitInv, TypesInit
<1>2. I /\ [Next]_resultsVars => I'
  BY ResultsStepInv, TableStep, BookStep
<1>3. I => ResultsTypeOK
  <2>. SUFFICES ASSUME I PROVE ResultsTypeOK
    OBVIOUS
  <2>1. Ids \subseteq Nat
    BY DEF Ids
  <2>2. PubSubTypeOK
    BY <2>1 DEF PubSubTypeOK, ResultsInv, RowsKnown, LoopTypes, TableTypes
  <2>. QED BY <2>2 DEF ResultsTypeOK, ResultsInv, LoopTypes, BookTypes
<1>. QED BY <1>1, <1>2, <1>3, PTL DEF Spec
=============================================================================
